----------------------------- MODULE GameConfig -----------------------------
(***************************************************************************)
(* GameConfigService: the versions of the game's economy.  One version is  *)
(* active and read by every match, one may be a draft, and the others are  *)
(* history.  Saving, restoring and activating each read a row and write    *)
(* in later statements, without a transaction or a condition, so that two  *)
(* administrators can come between each other's statements.                *)
(* Of a version's contents only this is kept: whether validateFullConfig   *)
(* accepts them.                                                           *)
(***************************************************************************)
EXTENDS Naturals, Sequences

CONSTANTS
  Admins,         \* administrators' calls that may be handled at one time
  MaxVersions,    \* bound: versions
  MaxConfigDeaths \* bound: calls whose process dies

ASSUME ConfigAssumption == MaxVersions \in Nat \ {0} /\ MaxConfigDeaths \in Nat

VARIABLES
  versions,     \* rows by version number, [status, valid]
  editing,      \* [Admins -> [at, target, valid]]
  overlapped,   \* history: two calls have been under way at once
  configDeaths

configVars == <<versions, editing, overlapped, configDeaths>>

NoEdit == [at |-> "idle", target |-> 0, valid |-> TRUE]

\* The seed activates the first version.
ConfigInit ==
  /\ versions = <<[status |-> "ACTIVE", valid |-> TRUE]>>
  /\ editing = [a \in Admins |-> NoEdit]
  /\ overlapped = FALSE /\ configDeaths = 0

WithStatus(status) == {v \in DOMAIN versions : versions[v].status = status}

\* findDraft: the newest draft, 0 if there is none.
Draft ==
  LET drafts == WithStatus("DRAFT")
  IN  IF drafts = {} THEN 0 ELSE CHOOSE v \in drafts : \A w \in drafts : w <= v

Begin(a, edit) ==
  /\ editing[a].at = "idle"
  /\ editing' = [editing EXCEPT ![a] = edit]
  /\ overlapped' = (overlapped \/ \E b \in Admins \ {a} : editing[b].at # "idle")
  /\ UNCHANGED <<versions, configDeaths>>

Goes(a, from, edit) ==
  /\ editing[a].at = from
  /\ editing' = [editing EXCEPT ![a] = edit]
  /\ UNCHANGED <<overlapped, configDeaths>>
-----------------------------------------------------------------------------
\* upsertDraft merges a patch into the draft or into a copy of the active
\* version, and restore copies an old one: either writes contents it has read.
Edit(a, valid) ==
  Begin(a, [at |-> IF Draft = 0 THEN "latest" ELSE "update", target |-> Draft, valid |-> valid])

UpsertDraft(a) == \E valid \in BOOLEAN : Edit(a, valid)

Restore(a) == \E v \in DOMAIN versions : Edit(a, versions[v].valid)

\* findLatestVersionNumber
FindLatest(a) ==
  /\ Goes(a, "latest",
       [at |-> "create", target |-> Len(versions) + 1, valid |-> editing[a].valid])
  /\ UNCHANGED versions

\* The version number is unique: a second create of the same number fails.
CreateDraft(a) ==
  /\ Len(versions) < MaxVersions
  /\ Goes(a, "create", NoEdit)
  /\ versions' = IF editing[a].target \in DOMAIN versions THEN versions
                 ELSE Append(versions, [status |-> "DRAFT", valid |-> editing[a].valid])

\* By id, whatever became of the draft.
UpdateDraft(a) ==
  /\ Goes(a, "update", NoEdit)
  /\ versions' = [versions EXCEPT ![editing[a].target].valid = editing[a].valid]
-----------------------------------------------------------------------------
\* A version named by its id, or the draft; validated as it was read.
MayActivate(v) == versions[v].status # "ACTIVE" /\ versions[v].valid

Activate(a) ==
  \E v \in DOMAIN versions :
    /\ MayActivate(v)
    /\ Begin(a, [at |-> "archive", target |-> v, valid |-> TRUE])

\* updateMany: every active version.
ArchiveActive ==
  [v \in DOMAIN versions |->
     IF v \in WithStatus("ACTIVE") THEN [versions[v] EXCEPT !.status = "ARCHIVED"] ELSE versions[v]]

Archive(a) ==
  /\ Goes(a, "archive", [at |-> "mark", target |-> editing[a].target, valid |-> TRUE])
  /\ versions' = ArchiveActive

\* Mutant: a version that is a draft no more is left alone.
MarkDraft(v) ==
  IF versions[v].status = "DRAFT" THEN [versions EXCEPT ![v].status = "ACTIVE"] ELSE versions

MarkActive(v) == [versions EXCEPT ![v].status = "ACTIVE"]

Mark(a) ==
  /\ Goes(a, "mark", NoEdit)
  /\ versions' = MarkActive(editing[a].target)

EditDies(a) ==
  /\ editing[a].at # "idle"
  /\ configDeaths < MaxConfigDeaths
  /\ configDeaths' = configDeaths + 1
  /\ editing' = [editing EXCEPT ![a] = NoEdit]
  /\ UNCHANGED <<versions, overlapped>>

ConfigNext ==
  \E a \in Admins :
    \/ UpsertDraft(a) \/ Restore(a) \/ FindLatest(a) \/ CreateDraft(a) \/ UpdateDraft(a)
    \/ Activate(a) \/ Archive(a) \/ Mark(a) \/ EditDies(a)

ConfigSpec == ConfigInit /\ [][ConfigNext]_configVars
-----------------------------------------------------------------------------
ConfigTypeOK ==
  /\ versions \in Seq([status : {"DRAFT", "ACTIVE", "ARCHIVED"}, valid : BOOLEAN])
  /\ Len(versions) \in 1..MaxVersions
  /\ \A a \in Admins :
       /\ editing[a].at \in {"idle", "latest", "create", "update", "archive", "mark"}
       /\ editing[a].target \in 0..MaxVersions + 1 /\ editing[a].valid \in BOOLEAN
  /\ overlapped \in BOOLEAN /\ configDeaths \in 0..MaxConfigDeaths

Marking == {a \in Admins : editing[a].at = "mark"}

\* Matches always find an active version, except between the two statements of
\* an activation; only an activation that died leaves none.
SomeVersionIsActive == WithStatus("ACTIVE") # {} \/ Marking # {} \/ configDeaths > 0

\* As long as no call overlapped another or died, there is one draft at most
\* and what matches read has been validated.
SerialEditsAreSound ==
  ~ overlapped /\ configDeaths = 0 =>
    /\ \A v, w \in WithStatus("DRAFT") : v = w
    /\ \A v, w \in WithStatus("ACTIVE") : v = w
    /\ \A v \in WithStatus("ACTIVE") : versions[v].valid

\* Matches have a version to read whatever calls overlap, and a sound one if
\* none do.
VersionsAreSound == SomeVersionIsActive /\ SerialEditsAreSound
=============================================================================
