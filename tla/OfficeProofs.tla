---------------------------- MODULE OfficeProofs ----------------------------
(***************************************************************************)
(* The other services of Office - the game's configuration, push           *)
(* notifications, the first-deposit bonus and the gateway router - proved for*)
(* any administrators, notices, deposits and gateways; and what is proved of*)
(* each service by itself, carried over to Office.                         *)
(***************************************************************************)
EXTENDS Office, PeopleProofs, SequenceTheorems

-----------------------------------------------------------------------------
(* The game's configuration.                                               *)

Row == [status : {"DRAFT", "ACTIVE", "ARCHIVED"}, valid : BOOLEAN]

\* The types that the argument needs.
ConfigTypes ==
  /\ versions \in Seq(Row)
  /\ editing = [a \in Admins |-> editing[a]]
  /\ \A a \in Admins : editing[a].valid \in BOOLEAN
  /\ overlapped \in BOOLEAN /\ configDeaths \in Nat

\* An activation has the row it read.
TargetsExist ==
  \A a \in Admins :
    editing[a].at \in {"archive", "mark"} => editing[a].target \in DOMAIN versions

Singly == ~ overlapped /\ configDeaths = 0

\* Calls that have not overlapped are one at a time.
OneEditor ==
  ~ overlapped =>
    \A a, b \in Admins : editing[a].at # "idle" /\ editing[b].at # "idle" => a = b

\* What a call knows of the versions it has read, as long as it is alone.
EditsKnow ==
  Singly =>
    \A a \in Admins :
      /\ editing[a].at \in {"latest", "create"} =>
           \A v \in DOMAIN versions : versions[v].status # "DRAFT"
      /\ editing[a].at = "update" =>
           /\ editing[a].target \in DOMAIN versions
           /\ versions[editing[a].target].status = "DRAFT"
      /\ editing[a].at \in {"archive", "mark"} => versions[editing[a].target].valid
      /\ editing[a].at = "mark" =>
           \A v \in DOMAIN versions : versions[v].status # "ACTIVE"

ConfigInv ==
  /\ ConfigTypes /\ TargetsExist /\ OneEditor /\ EditsKnow
  /\ SomeVersionIsActive /\ SerialEditsAreSound
-----------------------------------------------------------------------------
\* The rows of a sequence of versions.
LEMMA RowsOf ==
  ASSUME ConfigTypes
  PROVE  DOMAIN versions = 1..Len(versions) /\ \A v \in DOMAIN versions : versions[v] \in Row
BY DEF ConfigTypes

\* Matches still find an active version, or somebody is still to mark one.
LEMMA StaysActive ==
  ASSUME ConfigInv, configDeaths' = configDeaths,
         \A v \in DOMAIN versions :
           versions[v].status = "ACTIVE" => v \in DOMAIN versions' /\ versions'[v].status = "ACTIVE",
         \A b \in Admins : editing[b].at = "mark" => editing'[b].at = "mark"
  PROVE  SomeVersionIsActive'
<1>1. ASSUME NEW v \in WithStatus("ACTIVE") PROVE v \in WithStatus("ACTIVE")'
  BY <1>1 DEF WithStatus
<1>2. ASSUME NEW b \in Marking PROVE b \in Marking'
  BY <1>2 DEF Marking
<1>3. WithStatus("ACTIVE") # {} \/ Marking # {} \/ configDeaths > 0
  BY DEF ConfigInv, SomeVersionIsActive
<1> QED
  BY <1>1, <1>2, <1>3 DEF SomeVersionIsActive

\* The seeded version is active.
LEMMA InitConfigInv == ConfigInit => ConfigInv
<1> SUFFICES ASSUME ConfigInit PROVE ConfigInv
  OBVIOUS
<1>1. /\ versions \in Seq(Row) /\ DOMAIN versions = {1}
      /\ versions[1].status = "ACTIVE" /\ versions[1].valid
  BY DEF ConfigInit, Row
<1>2. 1 \in WithStatus("ACTIVE")
  BY <1>1 DEF WithStatus
<1> QED
  BY <1>1, <1>2 DEF ConfigInit, ConfigInv, ConfigTypes, TargetsExist, OneEditor, EditsKnow, Singly,
     NoEdit, SomeVersionIsActive, SerialEditsAreSound, WithStatus, Marking

\* The draft a call works on, where there is one at most.
LEMMA DraftIsTheDraft ==
  ASSUME ConfigTypes, \A v, w \in WithStatus("DRAFT") : v = w
  PROVE  /\ Draft = 0 => \A v \in DOMAIN versions : versions[v].status # "DRAFT"
         /\ Draft # 0 => Draft \in DOMAIN versions /\ versions[Draft].status = "DRAFT"
<1>1. CASE WithStatus("DRAFT") = {}
  BY <1>1 DEF Draft, WithStatus
<1>2. ASSUME NEW d \in WithStatus("DRAFT") PROVE Draft = d /\ d # 0
  <2>1. d \in Nat \ {0}
    BY <1>2, RowsOf DEF WithStatus
  <2>2. \A w \in WithStatus("DRAFT") : w <= d
    BY <2>1
  <2> QED
    BY <2>1, <2>2 DEF Draft
<1> QED
  BY <1>1, <1>2 DEF WithStatus

\* A call that begins: it changes no version.
LEMMA BeginInv ==
  ASSUME ConfigInv, NEW a \in Admins, NEW step \in {"latest", "update", "archive"}, NEW target,
         NEW valid \in BOOLEAN, Begin(a, [at |-> step, target |-> target, valid |-> valid]),
         step = "latest" /\ Singly => \A v \in DOMAIN versions : versions[v].status # "DRAFT",
         step = "update" /\ Singly =>
           target \in DOMAIN versions /\ versions[target].status = "DRAFT",
         step = "archive" => target \in DOMAIN versions /\ versions[target].valid
  PROVE  ConfigInv'
<1> USE DEF ConfigInv, Begin
<1>1. ConfigTypes'
  BY DEF ConfigTypes
<1>2. TargetsExist'
  BY DEF ConfigTypes, TargetsExist
<1>3. OneEditor'
  BY DEF ConfigTypes, OneEditor
<1>4. EditsKnow'
  BY DEF ConfigTypes, EditsKnow, Singly
<1>5. SomeVersionIsActive'
  BY StaysActive DEF ConfigTypes
<1>6. SerialEditsAreSound'
  BY DEF ConfigTypes, SerialEditsAreSound, WithStatus
<1> QED
  BY <1>1, <1>2, <1>3, <1>4, <1>5, <1>6

\* Calls that save, restore or activate begin as BeginInv asks.
LEMMA CallsBeginInv ==
  ASSUME ConfigInv, NEW a \in Admins, UpsertDraft(a) \/ Restore(a) \/ Activate(a)
  PROVE  ConfigInv'
<1>1. ASSUME NEW valid \in BOOLEAN, Edit(a, valid) PROVE ConfigInv'
  <2> DEFINE step == IF Draft = 0 THEN "latest" ELSE "update"
  <2>1. Singly => /\ Draft = 0 => \A v \in DOMAIN versions : versions[v].status # "DRAFT"
                  /\ Draft # 0 => Draft \in DOMAIN versions /\ versions[Draft].status = "DRAFT"
    BY DraftIsTheDraft DEF Singly, ConfigInv, SerialEditsAreSound
  <2>2. Begin(a, [at |-> step, target |-> Draft, valid |-> valid])
    BY <1>1 DEF Edit
  <2>3. /\ step \in {"latest", "update"}
        /\ step = "latest" => Draft = 0
        /\ step = "update" => Draft # 0
    OBVIOUS
  <2> HIDE DEF step
  <2> QED
    BY <2>1, <2>2, <2>3, BeginInv
<1>2. ASSUME NEW v \in DOMAIN versions, MayActivate(v),
             Begin(a, [at |-> "archive", target |-> v, valid |-> TRUE])
      PROVE  ConfigInv'
  BY <1>2, BeginInv DEF MayActivate
<1>3. \A v \in DOMAIN versions : versions[v].valid \in BOOLEAN
  BY RowsOf DEF ConfigInv, Row
<1> QED
  BY <1>1, <1>2, <1>3 DEF UpsertDraft, Restore, Activate

\* The next version number.
LEMMA FindLatestInv ==
  ASSUME ConfigInv, NEW a \in Admins, FindLatest(a)
  PROVE  ConfigInv'
<1> USE DEF ConfigInv, FindLatest, Goes
<1>1. ConfigTypes'
  BY DEF ConfigTypes
<1>2. TargetsExist' /\ OneEditor'
  BY DEF ConfigTypes, TargetsExist, OneEditor
<1>3. EditsKnow'
  BY DEF ConfigTypes, EditsKnow, Singly
<1>4. SomeVersionIsActive'
  BY StaysActive DEF ConfigTypes
<1>5. SerialEditsAreSound'
  BY DEF SerialEditsAreSound, WithStatus
<1> QED
  BY <1>1, <1>2, <1>3, <1>4, <1>5

\* A call that ends with a write that archives nothing and makes nothing active
\* which was not: what it must know of the versions it leaves.
LEMMA EndsInv ==
  ASSUME ConfigInv, NEW a \in Admins, NEW from \in {"create", "update"}, Goes(a, from, NoEdit),
         versions' \in Seq(Row), DOMAIN versions \subseteq DOMAIN versions',
         \A v \in DOMAIN versions : versions'[v].status = versions[v].status,
         \A v \in DOMAIN versions' \ DOMAIN versions : versions'[v].status = "DRAFT",
         Singly => \A v \in DOMAIN versions : versions[v].status = "ACTIVE" => versions'[v].valid,
         Singly => \A v, w \in DOMAIN versions' :
                     versions'[v].status = "DRAFT" /\ versions'[w].status = "DRAFT" => v = w
  PROVE  ConfigInv'
<1> USE DEF ConfigInv, Goes, NoEdit
<1>1. ConfigTypes'
  BY DEF ConfigTypes
<1>2. TargetsExist' /\ OneEditor'
  BY DEF ConfigTypes, TargetsExist, OneEditor
<1>3. EditsKnow'
  BY DEF ConfigTypes, EditsKnow, Singly, OneEditor
<1>4. SomeVersionIsActive'
  BY StaysActive DEF ConfigTypes
<1>5. SerialEditsAreSound'
  BY DEF ConfigTypes, SerialEditsAreSound, WithStatus, Singly
<1> QED
  BY <1>1, <1>2, <1>3, <1>4, <1>5

\* A new draft, or a failure on the number's unique column.
LEMMA CreateDraftInv ==
  ASSUME ConfigInv, NEW a \in Admins, CreateDraft(a)
  PROVE  ConfigInv'
<1> DEFINE row == [status |-> "DRAFT", valid |-> editing[a].valid]
<1>1. row \in Row /\ versions \in Seq(Row)
  BY DEF ConfigInv, ConfigTypes, Row
<1>2. Goes(a, "create", NoEdit) /\ (versions' = versions \/ versions' = Append(versions, row))
  BY DEF CreateDraft
<1>3. Singly => \A v \in DOMAIN versions : versions[v].status # "DRAFT"
  BY <1>2 DEF Goes, ConfigInv, EditsKnow
<1>4. Singly => \A v \in DOMAIN versions : versions[v].status = "ACTIVE" => versions[v].valid
  BY DEF ConfigInv, SerialEditsAreSound, Singly, WithStatus
<1>5. CASE versions' = versions
  BY <1>1, <1>2, <1>3, <1>4, <1>5, EndsInv
<1>6. CASE versions' = Append(versions, row)
  <2>1. /\ versions' \in Seq(Row) /\ Len(versions') = Len(versions) + 1
        /\ \A v \in 1..Len(versions) : versions'[v] = versions[v]
        /\ versions'[Len(versions) + 1] = row
    BY <1>1, <1>6, AppendProperties
  <2>2. /\ DOMAIN versions = 1..Len(versions)
        /\ DOMAIN versions' = 1..(Len(versions) + 1)
        /\ Len(versions) \in Nat
    BY <1>1, <2>1
  <2>3. row.status = "DRAFT"
    OBVIOUS
  <2> HIDE DEF row
  <2> QED
    BY <1>2, <1>3, <1>4, <2>1, <2>2, <2>3, EndsInv
<1> QED
  BY <1>2, <1>5, <1>6

\* A draft's contents, by its number.
LEMMA UpdateDraftInv ==
  ASSUME ConfigInv, NEW a \in Admins, UpdateDraft(a)
  PROVE  ConfigInv'
<1> DEFINE t == editing[a].target
           row == [status |-> versions[t].status, valid |-> editing[a].valid]
<1>1. versions \in Seq(Row) /\ DOMAIN versions = 1..Len(versions)
      /\ \A v \in DOMAIN versions : versions[v] \in Row
  BY RowsOf DEF ConfigInv, ConfigTypes
<1>2. Goes(a, "update", NoEdit) /\ versions' = [versions EXCEPT ![t].valid = editing[a].valid]
  BY DEF UpdateDraft
<1>3. Singly => t \in DOMAIN versions /\ versions[t].status = "DRAFT"
  BY <1>2 DEF Goes, ConfigInv, EditsKnow
<1>4. Singly => \A v \in DOMAIN versions : versions[v].status = "ACTIVE" => versions[v].valid
  BY DEF ConfigInv, SerialEditsAreSound, Singly, WithStatus
<1>5. Singly => \A v, w \in DOMAIN versions :
                  versions[v].status = "DRAFT" /\ versions[w].status = "DRAFT" => v = w
  BY DEF ConfigInv, SerialEditsAreSound, Singly, WithStatus
<1>6. /\ versions' \in Seq(Row) /\ DOMAIN versions' = DOMAIN versions
      /\ \A v \in DOMAIN versions : versions'[v].status = versions[v].status
      /\ \A v \in DOMAIN versions : v # t => versions'[v] = versions[v]
  <2>1. CASE t \in DOMAIN versions
    <3>1. row \in Row
      BY <1>1, <2>1 DEF Row, ConfigInv, ConfigTypes
    <3>3. [versions[t] EXCEPT !.valid = editing[a].valid] = row
      BY <1>1, <2>1 DEF Row
    <3>4. versions' = [versions EXCEPT ![t] = [versions[t] EXCEPT !.valid = editing[a].valid]]
      BY <1>2, Zenon
    <3>5. versions' = [versions EXCEPT ![t] = row]
      BY <3>3, <3>4
    <3>2. row.status = versions[t].status
      OBVIOUS
    <3> HIDE DEF row
    <3> QED
      BY <1>1, <2>1, <3>1, <3>2, <3>5, ExceptSeq
  <2>2. CASE t \notin DOMAIN versions
    <3>1. versions' = [versions EXCEPT ![t] = [versions[t] EXCEPT !.valid = editing[a].valid]]
      BY <1>2, Zenon
    <3> DEFINE new == [versions[t] EXCEPT !.valid = editing[a].valid]
    <3>2. versions = [v \in DOMAIN versions |-> versions[v]]
      BY <1>1
    <3>3. versions' = [v \in DOMAIN versions |-> versions[v]]
      <4> HIDE DEF new
      <4> QED
        BY <2>2, <3>1 DEF t
    <3> QED
      BY <1>1, <3>2, <3>3
  <2> QED
    BY <2>1, <2>2
<1> HIDE DEF t
<1> QED
  BY <1>1, <1>2, <1>3, <1>4, <1>5, <1>6, EndsInv

\* The first statement of an activation.
LEMMA ArchiveInv ==
  ASSUME ConfigInv, NEW a \in Admins, Archive(a)
  PROVE  ConfigInv'
<1> USE DEF ConfigInv, Archive, Goes
<1>1. /\ versions \in Seq(Row) /\ DOMAIN versions = 1..Len(versions) /\ Len(versions) \in Nat
      /\ \A v \in DOMAIN versions : versions[v] \in Row
  BY RowsOf DEF ConfigTypes
<1>2. /\ DOMAIN versions' = DOMAIN versions
      /\ \A v \in DOMAIN versions :
           /\ versions[v].status # "ACTIVE" => versions'[v] = versions[v]
           /\ versions[v].status = "ACTIVE" => versions'[v] = [versions[v] EXCEPT !.status = "ARCHIVED"]
  BY DEF ArchiveActive, WithStatus
<1>3. \A v \in DOMAIN versions : versions'[v] \in Row /\ versions'[v].valid = versions[v].valid
        /\ versions'[v].status # "ACTIVE"
        /\ (versions'[v].status = "DRAFT" <=> versions[v].status = "DRAFT")
  BY <1>1, <1>2 DEF Row
<1>4. versions' \in Seq(Row)
  <2>1. versions' = [v \in 1..Len(versions) |-> versions'[v]]
    BY <1>1, <1>2 DEF ArchiveActive
  <2> QED
    BY <1>1, <1>3, <2>1, IsASeq
<1>5. ConfigTypes'
  BY <1>4 DEF ConfigTypes
<1>6. TargetsExist' /\ OneEditor'
  BY <1>2 DEF ConfigTypes, TargetsExist, OneEditor
<1>7. EditsKnow'
  BY <1>2, <1>3 DEF ConfigTypes, EditsKnow, Singly, OneEditor, TargetsExist
<1>8. SomeVersionIsActive'
  <2>1. a \in Marking'
    BY DEF ConfigTypes, Marking
  <2> QED
    BY <2>1 DEF SomeVersionIsActive
<1>9. SerialEditsAreSound'
  BY <1>2, <1>3 DEF SerialEditsAreSound, WithStatus
<1> QED
  BY <1>5, <1>6, <1>7, <1>8, <1>9

\* The second.
LEMMA MarkInv ==
  ASSUME ConfigInv, NEW a \in Admins, Mark(a)
  PROVE  ConfigInv'
<1> DEFINE t == editing[a].target
           row == [status |-> "ACTIVE", valid |-> versions[t].valid]
<1>1. /\ versions \in Seq(Row) /\ DOMAIN versions = 1..Len(versions)
      /\ \A v \in DOMAIN versions : versions[v] \in Row
  BY RowsOf DEF ConfigInv, ConfigTypes
<1>2. Goes(a, "mark", NoEdit) /\ t \in DOMAIN versions
  BY DEF Mark, Goes, ConfigInv, TargetsExist
<1>3. versions' = [versions EXCEPT ![t] = row] /\ row \in Row
  <2>1. versions' = [versions EXCEPT ![t] = [versions[t] EXCEPT !.status = "ACTIVE"]]
    BY Zenon DEF Mark, MarkActive
  <2>2. [versions[t] EXCEPT !.status = "ACTIVE"] = row /\ row \in Row
    BY <1>1, <1>2 DEF Row
  <2> QED
    BY <2>1, <2>2
<1>4. /\ versions' \in Seq(Row) /\ DOMAIN versions' = DOMAIN versions
      /\ versions'[t] = row
      /\ \A v \in DOMAIN versions : v # t => versions'[v] = versions[v]
  <2> HIDE DEF row
  <2> QED
    BY <1>1, <1>2, <1>3, ExceptSeq
<1>5. row.status = "ACTIVE" /\ row.valid = versions[t].valid
  OBVIOUS
<1>6. Singly => versions[t].valid /\ \A v \in DOMAIN versions : versions[v].status # "ACTIVE"
  BY <1>2 DEF ConfigInv, EditsKnow, Goes
<1> HIDE DEF row
<1> USE DEF ConfigInv, Goes, NoEdit
<1>7. ConfigTypes'
  BY <1>2, <1>4 DEF ConfigTypes
<1>8. TargetsExist' /\ OneEditor'
  BY <1>2, <1>4 DEF ConfigTypes, TargetsExist, OneEditor
<1>9. EditsKnow'
  BY <1>2 DEF ConfigTypes, EditsKnow, Singly, OneEditor
<1>10. SomeVersionIsActive'
  <2>1. t \in WithStatus("ACTIVE")'
    BY <1>2, <1>4, <1>5 DEF WithStatus
  <2> QED
    BY <2>1 DEF SomeVersionIsActive
<1>11. SerialEditsAreSound'
  BY <1>2, <1>4, <1>5, <1>6 DEF SerialEditsAreSound, WithStatus, Singly
<1> QED
  BY <1>7, <1>8, <1>9, <1>10, <1>11

\* A call whose process dies.
LEMMA EditDiesInv ==
  ASSUME ConfigInv, NEW a \in Admins, EditDies(a)
  PROVE  ConfigInv'
<1> USE DEF ConfigInv, EditDies, NoEdit
<1>1. ConfigTypes' /\ configDeaths' > 0
  <2>1. configDeaths' \in Nat /\ configDeaths' > 0
    BY DEF ConfigTypes
  <2>2. versions' \in Seq(Row) /\ overlapped' \in BOOLEAN
    BY DEF ConfigTypes
  <2>3. editing' = [b \in Admins |-> editing'[b]] /\ \A b \in Admins : editing'[b].valid \in BOOLEAN
    BY DEF ConfigTypes
  <2> QED
    BY <2>1, <2>2, <2>3 DEF ConfigTypes
<1>2. TargetsExist'
  BY DEF ConfigTypes, TargetsExist
<1>3. OneEditor'
  BY DEF ConfigTypes, OneEditor
<1> QED
  BY <1>1, <1>2, <1>3 DEF EditsKnow, Singly, SomeVersionIsActive, SerialEditsAreSound

\* Every step keeps the invariant.
LEMMA ConfigStepInv == ConfigInv /\ [ConfigNext]_configVars => ConfigInv'
<1> SUFFICES ASSUME ConfigInv, [ConfigNext]_configVars PROVE ConfigInv'
  OBVIOUS
<1>1. CASE UNCHANGED configVars
  <2> USE <1>1 DEF configVars, ConfigInv
  <2>1. ConfigTypes' /\ TargetsExist' /\ OneEditor' /\ EditsKnow'
    BY DEF ConfigTypes, TargetsExist, OneEditor, EditsKnow, Singly
  <2>2. SomeVersionIsActive'
    BY StaysActive
  <2>3. SerialEditsAreSound'
    BY DEF SerialEditsAreSound, WithStatus
  <2> QED
    BY <2>1, <2>2, <2>3
<1>2. CASE ConfigNext
  BY <1>2, CallsBeginInv, FindLatestInv, CreateDraftInv, UpdateDraftInv, ArchiveInv, MarkInv,
     EditDiesInv DEF ConfigNext
<1> QED
  BY <1>1, <1>2
-----------------------------------------------------------------------------
\* The inductive invariant holds for every set of administrators.
THEOREM ConfigInvariance == ConfigSpec => []ConfigInv
BY InitConfigInv, ConfigStepInv, PTL DEF ConfigSpec

\* Matches have a version to read whatever calls overlap or die; as long as none
\* did, one draft at most, and one active version, which was validated.
THEOREM MatchesHaveARulebook == ConfigSpec => []VersionsAreSound
<1>1. ConfigInv => VersionsAreSound
  BY DEF ConfigInv, VersionsAreSound
<1> QED
  BY <1>1, ConfigInvariance, PTL
-----------------------------------------------------------------------------
(* Push notifications.                                                     *)

Jobs == [at : {"none", "queued", "send", "record", "expire", "done", "exhausted", "dead-letter",
               "lost"},
         endpoint : Nat, result : {"none", "sent", "failed", "expired"}]

PushTypes ==
  /\ browser \in Nat
  /\ subscription \in [status : {"ACTIVE", "EXPIRED", "REVOKED"}, endpoint : Nat]
  /\ notice \in [Notices -> {"new", "create", "enqueue", "done", "dead"}]
  /\ log \in [Notices -> {"none", "QUEUED", "SENT", "FAILED", "DELIVERED", "CLICKED"}]
  /\ job \in [Notices -> Jobs]
  /\ beacon \in [Notices -> {"none", "mark", "done"}]
  /\ firmClicks \subseteq Notices
  /\ renewed \in BOOLEAN
  /\ attemptsMade \in [Notices -> 0..Attempts] /\ pushDeaths \in Nat

\* A job is enqueued by a dispatcher that is done, and only a job sends.
JobsFollowNotices ==
  \A n \in Notices :
    /\ job[n].at # "none" => notice[n] = "done"
    /\ n \in taken => job[n].at # "none"
    /\ job[n].at = "expire" => log[n] # "QUEUED" /\ job[n].result = "expired"

\* A job whose attempts are not used up runs again, and only a death loses one.
AttemptsFollow ==
  \A n \in Notices :
    /\ Running(n) \/ job[n].at \in {"none", "queued"} => attemptsMade[n] < Attempts
    /\ job[n].at \in {"exhausted", "dead-letter"} => attemptsMade[n] = Attempts
    /\ job[n].at = "lost" => pushDeaths > 0

\* Nobody is left to write over a firm click.
ClicksAreLast ==
  \A n \in firmClicks :
    /\ log[n] = "CLICKED" /\ job[n].at \in {"done", "exhausted", "dead-letter", "lost"}
    /\ beacon[n] # "mark" /\ notice[n] = "done"

\* What a job holds of the subscription is what it still says, unless it was
\* renewed; and an endpoint reported gone is one the browser has left behind.
EndpointsAge ==
  /\ subscription.endpoint <= browser
  /\ \A n \in Notices :
       /\ job[n].endpoint <= browser
       /\ Running(n) /\ ~ renewed => job[n].endpoint = subscription.endpoint
       /\ job[n].at \in {"record", "expire"} /\ job[n].result = "expired"
            => job[n].endpoint < browser

PushInv ==
  /\ PushTypes /\ JobsFollowNotices /\ AttemptsFollow /\ ClicksAreLast /\ EndpointsAge
  /\ QueuedIsPending /\ ExpiredIsGone
-----------------------------------------------------------------------------
\* Nothing was sent yet.
LEMMA InitPushInv == PushInit => PushInv
<1> SUFFICES ASSUME PushInit PROVE PushInv
  OBVIOUS
<1> USE DEF PushInit, NoJob
<1>1. PushTypes
  <2>1. job \in [Notices -> Jobs]
    BY DEF Jobs
  <2>2. attemptsMade \in [Notices -> 0..Attempts]
    BY AttemptsAssumption
  <2> QED BY <2>1, <2>2 DEF PushTypes
<1>2. JobsFollowNotices /\ AttemptsFollow /\ ClicksAreLast
  BY AttemptsAssumption DEF JobsFollowNotices, AttemptsFollow, ClicksAreLast, Running
<1>3. EndpointsAge
  BY DEF EndpointsAge, Running
<1>4. QueuedIsPending /\ ExpiredIsGone
  BY DEF QueuedIsPending, ExpiredIsGone
<1> QED
  BY <1>1, <1>2, <1>3, <1>4 DEF PushInv

\* The device: its endpoint is lost, renewed or given up.
LEMMA DeviceInv ==
  ASSUME PushInv, EndpointLost \/ Subscribe \/ Unsubscribe
  PROVE  PushInv'
<1> USE DEF PushInv, logVars, failVars
<1>1. CASE EndpointLost
  <2> USE <1>1 DEF EndpointLost
  <2>1. PushTypes' /\ JobsFollowNotices' /\ AttemptsFollow' /\ ClicksAreLast' /\ QueuedIsPending'
    BY NoticesAssumption DEF PushTypes, JobsFollowNotices, AttemptsFollow, ClicksAreLast, Running, QueuedIsPending
  <2>2. EndpointsAge' /\ ExpiredIsGone'
    <3>1. /\ browser \in Nat /\ browser' = browser + 1 /\ subscription.endpoint \in Nat
          /\ \A n \in Notices : job[n].endpoint \in Nat
      BY DEF PushTypes, Jobs
    <3>2. EndpointsAge'
      BY <3>1 DEF EndpointsAge, Running
    <3>3. ExpiredIsGone'
      BY <3>1 DEF ExpiredIsGone
    <3> QED
      BY <3>2, <3>3
  <2> QED
    BY <2>1, <2>2
<1>2. CASE Subscribe
  <2> USE <1>2 DEF Subscribe
  <2>1. PushTypes' /\ JobsFollowNotices' /\ AttemptsFollow' /\ ClicksAreLast' /\ QueuedIsPending'
    BY DEF PushTypes, JobsFollowNotices, AttemptsFollow, ClicksAreLast, Running, QueuedIsPending
  <2>2. EndpointsAge' /\ ExpiredIsGone'
    <3>1. browser \in Nat
      BY DEF PushTypes
    <3>2. /\ subscription'.endpoint = browser /\ subscription'.status = "ACTIVE"
          /\ browser' = browser /\ job' = job
          /\ ~ renewed' => ~ renewed /\ \A n \in Notices : ~ Running(n)
      OBVIOUS
    <3> HIDE DEF Subscribe
    <3>3. EndpointsAge'
      BY <3>1, <3>2 DEF EndpointsAge, Running
    <3>4. ExpiredIsGone'
      BY <3>2 DEF ExpiredIsGone
    <3> QED
      BY <3>3, <3>4
  <2> QED
    BY <2>1, <2>2
<1>3. CASE Unsubscribe
  <2> USE <1>3 DEF Unsubscribe
  <2>1. PushTypes' /\ JobsFollowNotices' /\ AttemptsFollow' /\ ClicksAreLast' /\ QueuedIsPending'
    BY DEF PushTypes, JobsFollowNotices, AttemptsFollow, ClicksAreLast, Running, QueuedIsPending
  <2>2. EndpointsAge' /\ ExpiredIsGone'
    BY DEF PushTypes, EndpointsAge, ExpiredIsGone, Running
  <2> QED
    BY <2>1, <2>2
<1> QED
  BY <1>1, <1>2, <1>3

\* The dispatcher, which writes the row before the job is on its way.
LEMMA DispatcherInv ==
  ASSUME PushInv, NEW n \in Notices, Dispatch(n) \/ CreateLog(n) \/ Enqueue(n) \/ DispatcherDies(n)
  PROVE  PushInv'
<1> USE DEF PushInv, deviceVars, logVars, failVars
<1>1. CASE Dispatch(n)
  BY <1>1 DEF Dispatch, PushTypes, JobsFollowNotices, AttemptsFollow, ClicksAreLast, EndpointsAge,
     QueuedIsPending, ExpiredIsGone, Running
<1>2. CASE CreateLog(n)
  BY <1>2 DEF CreateLog, Write, PushTypes, JobsFollowNotices, AttemptsFollow, ClicksAreLast, EndpointsAge,
     QueuedIsPending, ExpiredIsGone, Running
<1>3. CASE Enqueue(n)
  <2> USE <1>3 DEF Enqueue, Works, NoJob
  <2>1. PushTypes'
    BY DEF PushTypes, Jobs
  <2>2. job'[n].at = "queued" /\ job'[n].endpoint = 0
    BY DEF PushTypes
  <2>3. \A m \in Notices \ {n} : job'[m] = job[m] /\ notice'[m] = notice[m]
    BY DEF PushTypes
  <2>4. JobsFollowNotices' /\ AttemptsFollow' /\ ClicksAreLast'
    BY <2>2, <2>3 DEF PushTypes, JobsFollowNotices, AttemptsFollow, ClicksAreLast, Running
  <2>5. EndpointsAge' /\ QueuedIsPending' /\ ExpiredIsGone'
    BY <2>2, <2>3 DEF PushTypes, EndpointsAge, QueuedIsPending, ExpiredIsGone, Running
  <2> QED
    BY <2>1, <2>4, <2>5
<1>4. CASE DispatcherDies(n)
  <2> USE <1>4 DEF DispatcherDies, Dies
  <2>1. PushTypes' /\ AttemptsFollow'
    BY DEF PushTypes, AttemptsFollow, Running
  <2>2. JobsFollowNotices' /\ ClicksAreLast' /\ EndpointsAge' /\ QueuedIsPending' /\ ExpiredIsGone'
    BY DEF PushTypes, JobsFollowNotices, AttemptsFollow, ClicksAreLast, EndpointsAge,
       QueuedIsPending, ExpiredIsGone, Running
  <2> QED
    BY <2>1, <2>2
<1> QED
  BY <1>1, <1>2, <1>3, <1>4

\* The worker takes a job, with the subscription as it is.
LEMMA TakeJobInv ==
  ASSUME PushInv, NEW n \in Notices, TakeJob(n)
  PROVE  PushInv'
<1> USE DEF PushInv, deviceVars, logVars, failVars, TakeJob, Works, NoJob
<1>1. \A m \in Notices \ {n} : job'[m] = job[m]
  BY DEF PushTypes
<1>2. \/ /\ job'[n].at = "send" /\ job'[n].endpoint = subscription.endpoint
         /\ skipped' = skipped
      \/ /\ job'[n].at = "done" /\ job'[n].endpoint = 0
         /\ n \in skipped' /\ skipped \subseteq skipped'
  BY DEF PushTypes
<1>3. PushTypes'
  BY DEF PushTypes, Jobs
<1>4. JobsFollowNotices' /\ AttemptsFollow' /\ ClicksAreLast'
  BY <1>1, <1>2 DEF PushTypes, JobsFollowNotices, AttemptsFollow, ClicksAreLast, Running
<1>5. EndpointsAge'
  BY <1>1, <1>2 DEF PushTypes, EndpointsAge, Running
<1>6. QueuedIsPending' /\ ExpiredIsGone'
  BY <1>1, <1>2 DEF PushTypes, QueuedIsPending, ExpiredIsGone
<1> QED
  BY <1>3, <1>4, <1>5, <1>6

\* The answer of the push service.
LEMMA SendInv ==
  ASSUME PushInv, NEW n \in Notices, Send(n)
  PROVE  PushInv'
<1>1. PICK answer \in Answers(n) :
        /\ Works(n, "send", [at |-> "record", endpoint |-> job[n].endpoint, result |-> answer])
        /\ \E arrived \in BOOLEAN :
             /\ answer = "sent" => arrived
             /\ arrived => job[n].endpoint = browser
             /\ taken' = IF arrived THEN taken \union {n} ELSE taken
             /\ beacon' = [beacon EXCEPT ![n] = IF arrived /\ @ = "done" THEN "none" ELSE @]
  BY DEF Send
<1> USE DEF PushInv, deviceVars, logVars, failVars
<1>2. /\ \A m \in Notices \ {n} : job'[m] = job[m]
      /\ job[n].at = "send"
      /\ job'[n].at = "record" /\ job'[n].endpoint = job[n].endpoint
      /\ job'[n].result = answer
      /\ answer = "expired" => job[n].endpoint # browser
      /\ answer \in {"sent", "failed", "expired"}
  BY <1>1 DEF Works, Answers, PushTypes
<1>3. /\ taken' \subseteq taken \union {n}
      /\ \A m \in Notices : beacon'[m] \in {"none", "mark", "done"}
                              /\ (beacon'[m] = "mark" => beacon[m] = "mark")
      /\ beacon' \in [Notices -> {"none", "mark", "done"}]
  BY <1>1 DEF PushTypes
<1>4. UNCHANGED <<deviceVars, logVars, notice, skipped, failVars>>
  BY DEF Send
<1>5. PushTypes'
  BY <1>1, <1>2, <1>3, <1>4 DEF PushTypes, Jobs, Works
<1>6. JobsFollowNotices' /\ AttemptsFollow' /\ ClicksAreLast'
  <2>1. JobsFollowNotices'
    BY <1>2, <1>3, <1>4 DEF JobsFollowNotices
  <2>2. n \notin firmClicks
    BY <1>2 DEF ClicksAreLast
  <2>3. ASSUME NEW m \in firmClicks
        PROVE  /\ log'[m] = "CLICKED"
               /\ job'[m].at \in {"done", "exhausted", "dead-letter", "lost"}
               /\ beacon'[m] # "mark" /\ notice'[m] = "done"
    <3>1. /\ m \in Notices \ {n} /\ job[m].at \in {"done", "exhausted", "dead-letter", "lost"}
          /\ beacon[m] # "mark" /\ notice[m] = "done" /\ log[m] = "CLICKED"
      BY <2>2, <2>3 DEF ClicksAreLast, PushTypes
    <3> QED
      BY <1>2, <1>3, <1>4, <3>1
  <2>4. ClicksAreLast'
    BY <1>4, <2>3 DEF ClicksAreLast
  <2>5. AttemptsFollow'
    BY <1>2, <1>4 DEF AttemptsFollow, Running
  <2> QED
    BY <2>1, <2>4, <2>5
<1>7. EndpointsAge'
  <2>1. browser \in Nat /\ \A m \in Notices : job[m].endpoint \in Nat
    BY DEF PushTypes, Jobs
  <2>2. ASSUME NEW m \in Notices
        PROVE  /\ job'[m].endpoint <= browser
               /\ Running(m)' /\ ~ renewed => job'[m].endpoint = subscription.endpoint
               /\ job'[m].at \in {"record", "expire"} /\ job'[m].result = "expired"
                    => job'[m].endpoint < browser
    <3>1. CASE m = n
      BY <1>2, <2>1, <3>1 DEF EndpointsAge, Running
    <3>2. CASE m # n
      BY <1>2, <3>2 DEF EndpointsAge, Running
    <3> QED
      BY <3>1, <3>2
  <2> QED
    BY <1>4, <2>2 DEF EndpointsAge
<1>8. QueuedIsPending' /\ ExpiredIsGone'
  BY <1>2, <1>4 DEF PushTypes, QueuedIsPending, ExpiredIsGone
<1> QED
  BY <1>5, <1>6, <1>7, <1>8

\* How it went, written to the row by its id.
LEMMA RecordInv ==
  ASSUME PushInv, NEW n \in Notices, Record(n)
  PROVE  PushInv'
<1> USE DEF PushInv, deviceVars, logVars, failVars, Record, Works, Write
<1>1. /\ \A m \in Notices \ {n} : job'[m] = job[m] /\ log'[m] = log[m]
      /\ job[n].at = "record" /\ job'[n].endpoint = job[n].endpoint
      /\ job'[n].result = job[n].result
      /\ job'[n].at = IF job[n].result = "expired" THEN "expire" ELSE "done"
      /\ log'[n] \in {"SENT", "FAILED"}
  BY DEF PushTypes, Jobs
<1>2. PushTypes'
  <2>1. job' \in [Notices -> Jobs]
    BY DEF PushTypes, Jobs
  <2>2. log' \in [Notices -> {"none", "QUEUED", "SENT", "FAILED", "DELIVERED", "CLICKED"}]
    BY DEF PushTypes
  <2> QED
    BY <2>1, <2>2 DEF PushTypes
<1>3. JobsFollowNotices' /\ AttemptsFollow' /\ ClicksAreLast'
  BY <1>1 DEF JobsFollowNotices, AttemptsFollow, ClicksAreLast, Running
<1>4. EndpointsAge'
  BY <1>1 DEF EndpointsAge, Running
<1>5. QueuedIsPending' /\ ExpiredIsGone'
  BY <1>1 DEF QueuedIsPending, ExpiredIsGone
<1> QED
  BY <1>2, <1>3, <1>4, <1>5

\* The subscription given up by its id.
LEMMA MarkExpiredInv ==
  ASSUME PushInv, NEW n \in Notices, MarkExpired(n)
  PROVE  PushInv'
<1> USE DEF PushInv, logVars, failVars, MarkExpired, Works
<1>1. /\ \A m \in Notices \ {n} : job'[m] = job[m]
      /\ job[n].at = "expire" /\ job'[n].at = "done" /\ job'[n].endpoint = job[n].endpoint
      /\ subscription'.endpoint = subscription.endpoint
  BY DEF PushTypes, Jobs
<1>2. PushTypes'
  BY DEF PushTypes, Jobs
<1>3. JobsFollowNotices' /\ AttemptsFollow' /\ ClicksAreLast'
  BY <1>1 DEF JobsFollowNotices, AttemptsFollow, ClicksAreLast, Running
<1>4. EndpointsAge'
  BY <1>1 DEF EndpointsAge, Running
<1>5. QueuedIsPending' /\ ExpiredIsGone'
  BY <1>1 DEF QueuedIsPending, ExpiredIsGone, EndpointsAge, JobsFollowNotices, Running
<1> QED
  BY <1>2, <1>3, <1>4, <1>5

\* A run that throws leaves the row as it is, and is tried again or given up.
LEMMA RunThrowsInv ==
  ASSUME PushInv, NEW n \in Notices, RunThrows(n)
  PROVE  PushInv'
<1> USE DEF PushInv, deviceVars, logVars, NoJob
<1>1. /\ \A m \in Notices \ {n} : job'[m] = job[m] /\ attemptsMade'[m] = attemptsMade[m]
      /\ attemptsMade'[n] = attemptsMade[n] + 1
      /\ attemptsMade' = [attemptsMade EXCEPT ![n] = attemptsMade[n] + 1]
      /\ job'[n] = [NoJob EXCEPT !.at = AfterFailure(attemptsMade[n] + 1)]
      /\ job' = [job EXCEPT ![n] = [NoJob EXCEPT !.at = AfterFailure(attemptsMade[n] + 1)]]
      /\ Running(n) \/ job[n].at = "queued"
      /\ UNCHANGED <<deviceVars, logVars, notice, taken, beacon, skipped, pushDeaths>>
  BY DEF PushTypes, RunThrows
<1>2. attemptsMade[n] \in Nat /\ attemptsMade[n] < Attempts /\ Attempts \in Nat
  BY <1>1, AttemptsAssumption DEF PushTypes, AttemptsFollow
<1>3. PICK at \in {"queued", "exhausted"} :
        /\ at = AfterFailure(attemptsMade[n] + 1)
        /\ at = "queued" => attemptsMade[n] + 1 < Attempts
        /\ at = "exhausted" => attemptsMade[n] + 1 = Attempts
  BY <1>2 DEF AfterFailure
<1>4. job'[n].at = at /\ job'[n].endpoint = 0
  BY <1>1, <1>3
<1>5. PushTypes'
  <2>1. job' \in [Notices -> Jobs]
    BY <1>1, <1>3 DEF PushTypes, Jobs
  <2>2. attemptsMade' \in [Notices -> 0..Attempts]
    BY <1>1, <1>2 DEF PushTypes
  <2> QED BY <1>1, <2>1, <2>2 DEF PushTypes
<1>6. JobsFollowNotices' /\ ClicksAreLast'
  <2>1. n \notin firmClicks
    BY <1>1 DEF ClicksAreLast, Running
  <2> QED BY <1>1, <1>4, <2>1 DEF JobsFollowNotices, ClicksAreLast, Running, PushTypes
<1>7. AttemptsFollow'
  BY <1>1, <1>3, <1>4 DEF AttemptsFollow, Running
<1>8. EndpointsAge'
  BY <1>1, <1>4 DEF PushTypes, EndpointsAge, Running
<1>9. QueuedIsPending' /\ ExpiredIsGone'
  BY <1>1, <1>3, <1>4 DEF QueuedIsPending, ExpiredIsGone
<1> QED
  BY <1>5, <1>6, <1>7, <1>8, <1>9

\* A job given up is handed over, or lost with the process; one whose process
\* dies in a run is taken again, or lost.
LEMMA LeavesQueueInv ==
  ASSUME PushInv, NEW n \in Notices, HandToDeadLetters(n) \/ WorkerDies(n)
  PROVE  PushInv'
<1> USE DEF PushInv, deviceVars, logVars, failVars, NoJob
<1>1. PICK at \in {"queued", "dead-letter", "lost"} :
        /\ job' = [job EXCEPT ![n] = [NoJob EXCEPT !.at = at]]
        /\ \/ Running(n) /\ at # "dead-letter"
           \/ job[n].at = "exhausted" /\ at # "queued"
        /\ at = "lost" => pushDeaths' = pushDeaths + 1
  <2>1. CASE HandToDeadLetters(n)
    BY <2>1 DEF HandToDeadLetters, Works
  <2>2. CASE WorkerDies(n)
    <3>1. \E at \in {"queued", "lost"} :
            /\ job' = [job EXCEPT ![n] = [NoJob EXCEPT !.at = at]]
            /\ Running(n) \/ (job[n].at = "exhausted" /\ at = "lost")
      BY <2>2, Zenon DEF WorkerDies
    <3>2. pushDeaths' = pushDeaths + 1
      BY <2>2 DEF WorkerDies, Dies
    <3>3. CASE job' = [job EXCEPT ![n] = [NoJob EXCEPT !.at = "queued"]] /\ Running(n)
      BY <3>3
    <3>4. CASE /\ job' = [job EXCEPT ![n] = [NoJob EXCEPT !.at = "lost"]]
               /\ Running(n) \/ job[n].at = "exhausted"
      BY <3>2, <3>4
    <3> QED BY <3>1, <3>3, <3>4
  <2> QED BY <2>1, <2>2
<1>2. /\ UNCHANGED <<deviceVars, logVars, notice, taken, beacon, skipped, attemptsMade>>
      /\ pushDeaths' \in {pushDeaths, pushDeaths + 1}
  BY DEF HandToDeadLetters, WorkerDies, Dies
<1>3. /\ \A m \in Notices \ {n} : job'[m] = job[m]
      /\ job'[n].at = at /\ job'[n].endpoint = 0
  BY <1>1 DEF PushTypes
<1>4. PushTypes'
  <2>1. job' \in [Notices -> Jobs]
    BY <1>1 DEF PushTypes, Jobs
  <2> QED BY <1>2, <2>1 DEF PushTypes
<1>5. JobsFollowNotices' /\ ClicksAreLast'
  <2>1. n \in firmClicks => job[n].at = "exhausted"
    BY <1>1 DEF ClicksAreLast, Running
  <2> QED BY <1>1, <1>2, <1>3, <2>1 DEF JobsFollowNotices, ClicksAreLast, Running, PushTypes
<1>6. AttemptsFollow'
  BY <1>1, <1>2, <1>3 DEF AttemptsFollow, Running, PushTypes
<1>7. EndpointsAge'
  BY <1>2, <1>3 DEF PushTypes, EndpointsAge, Running
<1>8. QueuedIsPending' /\ ExpiredIsGone'
  BY <1>1, <1>2, <1>3 DEF QueuedIsPending, ExpiredIsGone, AttemptsFollow, PushTypes
<1> QED
  BY <1>4, <1>5, <1>6, <1>7, <1>8

\* The beacons of the device.
LEMMA BeaconsInv ==
  ASSUME PushInv, NEW n \in Notices, ReadDelivered(n) \/ MarkDelivered(n) \/ MarkClicked(n)
  PROVE  PushInv'
<1> USE DEF PushInv, deviceVars, logVars, failVars, Write
<1>1. CASE ReadDelivered(n)
  BY <1>1 DEF ReadDelivered, Deliverable, PushTypes, JobsFollowNotices, AttemptsFollow, ClicksAreLast,
     EndpointsAge, QueuedIsPending, ExpiredIsGone, Running
<1>2. CASE MarkDelivered(n)
  BY <1>2 DEF MarkDelivered, PushTypes, JobsFollowNotices, AttemptsFollow, ClicksAreLast, EndpointsAge,
     QueuedIsPending, ExpiredIsGone, Running
<1>3. CASE MarkClicked(n)
  <2> USE <1>3 DEF MarkClicked
  <2>1. PushTypes' /\ JobsFollowNotices' /\ EndpointsAge' /\ QueuedIsPending' /\ ExpiredIsGone'
    BY DEF PushTypes, JobsFollowNotices, EndpointsAge, QueuedIsPending, ExpiredIsGone, Running
  <2>2. ClicksAreLast'
    BY DEF PushTypes, Jobs, JobsFollowNotices, ClicksAreLast, Running
  <2>3. AttemptsFollow'
    BY DEF AttemptsFollow, Running
  <2> QED
    BY <2>1, <2>2, <2>3
<1> QED
  BY <1>1, <1>2, <1>3

\* Every step keeps the invariant.
LEMMA PushStepInv == PushInv /\ [PushNext]_pushVars => PushInv'
<1> SUFFICES ASSUME PushInv, [PushNext]_pushVars PROVE PushInv'
  OBVIOUS
<1>1. CASE UNCHANGED pushVars
  BY <1>1 DEF pushVars, deviceVars, logVars, failVars, PushInv, PushTypes, JobsFollowNotices, AttemptsFollow, ClicksAreLast,
     EndpointsAge, QueuedIsPending, ExpiredIsGone, Running
<1>2. CASE PushNext
  BY <1>2, DeviceInv, DispatcherInv, TakeJobInv, SendInv, RecordInv, MarkExpiredInv, RunThrowsInv,
     LeavesQueueInv, BeaconsInv DEF PushNext
<1> QED
  BY <1>1, <1>2
-----------------------------------------------------------------------------
\* The inductive invariant holds for any notices and attempts, and however often
\* the subscription is renewed and a process dies.
THEOREM PushInvariance == PushSpec => []PushInv
BY InitPushInv, PushStepInv, PTL DEF PushSpec

\* However the attempts of a job end, a row that says QUEUED is somebody's to send
\* or lies among the dead letters, unless a process died with it; no firm click
\* is written over, and no endpoint given up that the browser still has, but for
\* the exceptions the property names.
THEOREM EveryNoticeIsAccountedFor == PushSpec => []NoticesAreAccountedFor
<1>1. PushInv => NoticesAreAccountedFor
  BY DEF PushInv, NoticesAreAccountedFor, FirmClicksStand, ClicksAreLast
<1> QED
  BY <1>1, PushInvariance, PTL

-----------------------------------------------------------------------------
(* The first-deposit bonus.                                                *)

\* The bonus of a deposit is credited, or about to be.
Awarded(d) ==
  \/ Book!Done(Bonus(d))
  \/ \E h \in Handlers : handling[h].at = "credit" /\ handling[h].deposit = d

\* Only what was confirmed is published, heard and rewarded.
ConfirmedFirst ==
  \A d \in Deposit :
    /\ published[d] > 0 => Confirmed(d)
    /\ \A s \in Subscribers : inbox[s][d] <= published[d]
    /\ Awarded(d) => Confirmed(d)

\* A player's deposits are counted after they were confirmed, so that the
\* second of two that race finds the first.
OneAwardPerPlayer ==
  \A d, e \in Deposit : Awarded(d) /\ Awarded(e) /\ Player[d] = Player[e] => d = e

BonusTypes == EventsTypeOK /\ PromotionsTypeOK

HandledAreConfirmed ==
  \A h \in Handlers : handling[h].at # "idle" => Confirmed(handling[h].deposit)

BonusInv == BonusTypes /\ ConfirmedFirst /\ OneAwardPerPlayer /\ HandledAreConfirmed

\* A deposit, or a bonus, is credited when its key is spent.
LEMMA CreditKeys ==
  ASSUME NEW d
  PROVE  /\ Confirmed(d) <=> <<<<"deposit-confirm", d>>, "only">> \in posted
         /\ Confirmed(d)' <=> <<<<"deposit-confirm", d>>, "only">> \in posted'
         /\ Book!Done(Bonus(d)) <=> <<<<"signup-bonus", d>>, "only">> \in posted
         /\ Book!Done(Bonus(d))' <=> <<<<"signup-bonus", d>>, "only">> \in posted'
         /\ Book!KeysOf(DepositCredit(d)) = {<<<<"deposit-confirm", d>>, "only">>}
         /\ Book!KeysOf(Bonus(d)) = {<<<<"signup-bonus", d>>, "only">>}
BY DEF Confirmed, DepositCredit, Bonus, Movement, Book!Done, Book!KeysOf, Book!LegsOf,
       Book!KeyOf

\* A movement that is posted leaves every bucket between nothing and what a
\* column holds.
LEMMA PostKeepsBalances ==
  ASSUME balance \in [Users -> [Buckets -> 0..MaxInt]],
         NEW q, q.amount \in Nat, Book!Post(q)
  PROVE  balance' \in [Users -> [Buckets -> 0..MaxInt]]
<1>1. /\ balance' = Book!Applied(q, balance)
      /\ Book!Affordable(q, balance) /\ Book!Fits(balance')
  BY DEF Book!Post
<1>2. Buckets = Book!Buckets
  BY DEF Buckets, Book!Buckets
<1>3. ASSUME NEW u \in Users, NEW b \in Buckets
      PROVE  balance'[u][b] \in 0..MaxInt
  <2>1. balance[u][b] \in 0..MaxInt
    OBVIOUS
  <2>2. balance'[u][b] = balance[u][b] + (IF Book!Gets(q, u, b) THEN q.amount ELSE 0)
                                       - (IF Book!Pays(q, u, b) THEN q.amount ELSE 0)
    BY <1>1, <1>2 DEF Book!Applied
  <2>3. Book!Pays(q, u, b) => balance[u][b] >= q.amount
    BY <1>1, <1>2 DEF Book!Affordable
  <2>4. balance'[u][b] <= MaxInt
    BY <1>1, <1>2 DEF Book!Fits
  <2>5. CASE Book!Pays(q, u, b)
    BY <2>1, <2>2, <2>3, <2>4, <2>5, OpeningAssumption
  <2>6. CASE ~ Book!Pays(q, u, b)
    BY <2>1, <2>2, <2>4, <2>6, OpeningAssumption
  <2> QED BY <2>5, <2>6
<1>4. balance' = [u \in Users |-> [b \in Buckets |-> balance'[u][b]]]
  BY <1>1, <1>2 DEF Book!Applied
<1> QED BY <1>3, <1>4

\* What is posted at most adds keys; what is replayed or refused changes nothing.
LEMMA PostOnceEffect ==
  ASSUME balance \in [Users -> [Buckets -> 0..MaxInt]],
         NEW q, q.amount \in Nat, Book!PostOnce(q)
  PROVE  /\ balance' \in [Users -> [Buckets -> 0..MaxInt]]
         /\ posted' = posted \union Book!KeysOf(q)
<1>1. CASE Book!Done(q)
  BY <1>1 DEF Book!PostOnce, Book!Done, Book!bookVars
<1>2. CASE ~ Book!Done(q)
  BY <1>2, PostKeepsBalances DEF Book!PostOnce, Book!Post
<1> QED BY <1>1, <1>2

\* A deposit that is credited, and the bonus on it, credit whole amounts.
LEMMA CreditAmounts ==
  ASSUME NEW d \in Deposit
  PROVE  DepositCredit(d).amount \in Nat /\ Bonus(d).amount \in Nat
<1>1. Paid[d] \in Nat /\ Paid[d] > 0
  BY PaidAssumption
<1>2. DepositCredit(d).amount = Paid[d] /\ Bonus(d).amount = BonusCents(d)
  BY DEF DepositCredit, Bonus, Movement
<1>3. ASSUME NEW x \in Nat, NEW y \in Nat PROVE (2 * x * y + 100) \div 200 \in Nat
  OBVIOUS
<1> QED BY <1>1, <1>2, <1>3, PromotionsAssumption DEF BonusCents

PromotionsSpec ==
  /\ EventsInit /\ PromotionsInit
  /\ [][PromotionsNext \/ (EventsNext /\ UNCHANGED handling)]_<<moneyVars, busVars, handling>>

\* Nothing was deposited yet.
LEMMA InitBonusInv == EventsInit /\ PromotionsInit => BonusInv
<1> SUFFICES ASSUME EventsInit, PromotionsInit PROVE BonusInv
  OBVIOUS
<1>1. /\ balance = Opening /\ posted = {} /\ faults = 0
      /\ published = [d \in Deposit |-> 0]
      /\ inbox = [s \in Subscribers |-> [d \in Deposit |-> 0]]
      /\ handling = [h \in Handlers |-> NoEvent]
  BY DEF EventsInit, PromotionsInit, Book!Init
<1>2. BonusTypes
  <2>1. 0 \in 0..Publications /\ 0 \in 0..MaxFaults
    BY PublicationsAssumption, FaultsAssumption
  <2>2. published \in [Deposit -> 0..Publications]
    BY <1>1, <2>1
  <2>3. inbox \in [Subscribers -> [Deposit -> 0..Publications]]
    BY <1>1, <2>1
  <2> QED
    BY <1>1, <2>1, <2>2, <2>3, OpeningAssumption DEF BonusTypes, EventsTypeOK, PromotionsTypeOK
<1>3. \A d \in Deposit : ~ Awarded(d)
  BY <1>1, CreditKeys DEF Awarded, NoEvent
<1> QED
  BY <1>1, <1>2, <1>3
  DEF BonusInv, ConfirmedFirst, OneAwardPerPlayer, HandledAreConfirmed, NoEvent

\* Whatever else is posted, a credited deposit stays credited, and a bonus
\* stays given.
LEMMA PostedGrows ==
  ASSUME posted \subseteq posted', NEW d
  PROVE  (Confirmed(d) => Confirmed(d)') /\ (Book!Done(Bonus(d)) => Book!Done(Bonus(d))')
BY CreditKeys

\* The bus confirms deposits and hands their events out; it awards nothing.
LEMMA EventsKeepBonusInv == BonusInv /\ EventsNext /\ UNCHANGED handling => BonusInv'
<1> SUFFICES ASSUME BonusInv, UNCHANGED handling, NEW d \in Deposit,
                    \/ CreditDeposit(d) \/ Publish(d)
                    \/ \E s \in Subscribers : LoseEvent(s, d)
             PROVE  BonusInv'
  BY DEF EventsNext
<1>1. CASE CreditDeposit(d)
  <2>1. /\ balance' \in [Users -> [Buckets -> 0..MaxInt]]
        /\ posted' = posted \union {<<<<"deposit-confirm", d>>, "only">>}
        /\ UNCHANGED <<published, inbox, faults>>
    BY <1>1, PostOnceEffect, CreditAmounts, CreditKeys
    DEF CreditDeposit, BonusInv, BonusTypes, EventsTypeOK, busVars
  <2>2. \A e : Awarded(e)' <=> Awarded(e)
    BY <2>1, CreditKeys DEF Awarded
  <2>3. \A e : Confirmed(e) => Confirmed(e)'
    BY <2>1, PostedGrows
  <2>4. BonusTypes'
    BY <2>1 DEF BonusInv, BonusTypes, EventsTypeOK, PromotionsTypeOK
  <2>5. ConfirmedFirst'
    BY <2>1, <2>2, <2>3 DEF BonusInv, ConfirmedFirst
  <2> QED
    BY <2>2, <2>3, <2>4, <2>5 DEF BonusInv, OneAwardPerPlayer, HandledAreConfirmed
<1>2. ASSUME UNCHANGED moneyVars, BonusTypes',
             \A e \in Deposit :
               /\ published'[e] > 0 => published[e] > 0 \/ Confirmed(e)
               /\ \A s \in Subscribers : inbox'[s][e] <= published'[e]
      PROVE  BonusInv'
  <2>1. \A e : (Awarded(e)' <=> Awarded(e)) /\ (Confirmed(e)' <=> Confirmed(e))
    BY <1>2, CreditKeys DEF Awarded, moneyVars
  <2>2. ConfirmedFirst'
    BY <1>2, <2>1 DEF BonusInv, ConfirmedFirst
  <2> QED
    BY <1>2, <2>1, <2>2 DEF BonusInv, OneAwardPerPlayer, HandledAreConfirmed
<1>3. /\ balance \in [Users -> [Buckets -> 0..MaxInt]]
      /\ published \in [Deposit -> 0..Publications]
      /\ inbox \in [Subscribers -> [Deposit -> 0..Publications]]
      /\ faults \in 0..MaxFaults /\ Publications \in Nat /\ MaxFaults \in Nat
      /\ PromotionsTypeOK'
      /\ \A e \in Deposit : \A s \in Subscribers : inbox[s][e] <= published[e]
  BY PublicationsAssumption, FaultsAssumption
  DEF BonusInv, BonusTypes, EventsTypeOK, PromotionsTypeOK, ConfirmedFirst
<1>4. CASE Publish(d)
  <2>1. /\ published' = [published EXCEPT ![d] = @ + 1]
        /\ published[d] < Publications /\ Confirmed(d)
        /\ inbox' = [s \in Subscribers |-> [inbox[s] EXCEPT ![d] = @ + 1]]
        /\ UNCHANGED <<balance, posted, faults>>
    BY <1>4 DEF Publish, moneyVars
  <2>2. ASSUME NEW s \in Subscribers, NEW e \in Deposit
        PROVE  /\ inbox'[s][e] = inbox[s][e] + (IF e = d THEN 1 ELSE 0)
               /\ published'[e] = published[e] + (IF e = d THEN 1 ELSE 0)
    BY <1>3, <2>1
  <2>3. ASSUME NEW s \in Subscribers, NEW e \in Deposit
        PROVE  inbox'[s][e] \in 0..Publications /\ inbox'[s][e] <= published'[e]
    BY <1>3, <2>1, <2>2
  <2>4. published' \in [Deposit -> 0..Publications]
    BY <1>3, <2>1
  <2>5. inbox' \in [Subscribers -> [Deposit -> 0..Publications]]
    BY <1>3, <2>1, <2>3
  <2>6. BonusTypes'
    BY <1>3, <2>1, <2>4, <2>5 DEF BonusTypes, EventsTypeOK
  <2>7. \A e \in Deposit : published'[e] > 0 => published[e] > 0 \/ Confirmed(e)
    BY <1>3, <2>1
  <2> QED BY <1>2, <2>1, <2>3, <2>6, <2>7 DEF moneyVars
<1>5. ASSUME NEW s \in Subscribers, LoseEvent(s, d) PROVE BonusInv'
  <2>1. /\ inbox' = [inbox EXCEPT ![s][d] = @ - 1] /\ inbox[s][d] > 0
        /\ faults' = faults + 1 /\ faults < MaxFaults
        /\ UNCHANGED <<balance, posted, published>>
    BY <1>5 DEF LoseEvent, Take, Fault, moneyVars
  <2>2. ASSUME NEW x \in Subscribers, NEW e \in Deposit
        PROVE  inbox'[x][e] = inbox[x][e] \/ (inbox'[x][e] = inbox[x][e] - 1 /\ inbox[x][e] > 0)
    BY <1>3, <2>1
  <2>3. ASSUME NEW x \in Subscribers, NEW e \in Deposit
        PROVE  inbox'[x][e] \in 0..Publications /\ inbox'[x][e] <= published'[e]
    BY <1>3, <2>1, <2>2
  <2>4. inbox' \in [Subscribers -> [Deposit -> 0..Publications]]
    BY <1>3, <2>1, <2>3
  <2>5. BonusTypes'
    BY <1>3, <2>1, <2>4 DEF BonusTypes, EventsTypeOK
  <2> QED BY <1>2, <2>1, <2>3, <2>5 DEF moneyVars
<1> QED BY <1>1, <1>4, <1>5

\* A handler takes an event of a confirmed deposit.
LEMMA BeginKeepsBonusInv ==
  ASSUME BonusInv, NEW h \in Handlers, NEW d \in Deposit, BeginBonus(h, d)
  PROVE  BonusInv'
<1>1. /\ handling[h].at = "idle" /\ inbox["promotions"][d] > 0
      /\ inbox' = [inbox EXCEPT !["promotions"][d] = @ - 1]
      /\ \/ handling' = [handling EXCEPT ![h] = [at |-> "count", deposit |-> d]]
         \/ handling' = [handling EXCEPT ![h] = NoEvent]
      /\ UNCHANGED <<balance, posted, published, faults>>
  BY DEF BeginBonus, Take, moneyVars
<1>2. /\ balance \in [Users -> [Buckets -> 0..MaxInt]]
      /\ published \in [Deposit -> 0..Publications]
      /\ inbox \in [Subscribers -> [Deposit -> 0..Publications]]
      /\ faults \in 0..MaxFaults /\ Publications \in Nat /\ "promotions" \in Subscribers
      /\ handling \in [Handlers -> {NoEvent} \union [at : {"count", "credit"}, deposit : Deposit]]
      /\ \A e \in Deposit : \A s \in Subscribers : inbox[s][e] <= published[e]
  BY PublicationsAssumption, PromotionsAssumption
  DEF BonusInv, BonusTypes, EventsTypeOK, PromotionsTypeOK, ConfirmedFirst
<1>3. ASSUME NEW s \in Subscribers, NEW e \in Deposit
      PROVE  inbox'[s][e] \in 0..Publications /\ inbox'[s][e] <= published'[e]
  <2>1. inbox'[s][e] = inbox[s][e] \/ (inbox'[s][e] = inbox[s][e] - 1 /\ inbox[s][e] > 0)
    BY <1>1, <1>2
  <2> QED BY <1>1, <1>2, <2>1
<1>4. BonusTypes'
  <2>1. inbox' \in [Subscribers -> [Deposit -> 0..Publications]]
    BY <1>1, <1>2, <1>3
  <2>2. PromotionsTypeOK'
    <3>1. CASE handling' = [handling EXCEPT ![h] = [at |-> "count", deposit |-> d]]
      BY <1>2, <3>1 DEF PromotionsTypeOK
    <3>2. CASE handling' = [handling EXCEPT ![h] = NoEvent]
      BY <1>2, <3>2 DEF PromotionsTypeOK
    <3> QED BY <1>1, <3>1, <3>2
  <2> QED BY <1>1, <1>2, <2>1, <2>2 DEF BonusTypes, EventsTypeOK
<1>5. \A e : (Confirmed(e)' <=> Confirmed(e)) /\ (Book!Done(Bonus(e))' <=> Book!Done(Bonus(e)))
  BY <1>1, CreditKeys
<1>6. \A x \in Handlers : handling'[x] = handling[x] \/ handling'[x].at # "credit"
  BY <1>1, <1>2 DEF NoEvent
<1>7. \A e : Awarded(e)' => Awarded(e)
  BY <1>5, <1>6 DEF Awarded
<1>8. Confirmed(d)
  <2>1. inbox["promotions"][d] <= published[d]
    BY <1>2
  <2>2. published[d] > 0
    BY <1>1, <1>2, <2>1
  <2> QED BY <2>2 DEF BonusInv, ConfirmedFirst
<1>9. ConfirmedFirst'
  BY <1>1, <1>3, <1>5, <1>7 DEF BonusInv, ConfirmedFirst
<1>10. HandledAreConfirmed'
  <2>1. \A x \in Handlers : \/ handling'[x] = handling[x]
                            \/ handling'[x].at = "idle"
                            \/ handling'[x].deposit = d
    BY <1>1, <1>2 DEF NoEvent
  <2> QED BY <1>5, <1>8, <2>1 DEF BonusInv, HandledAreConfirmed
<1> QED BY <1>4, <1>7, <1>9, <1>10 DEF BonusInv, OneAwardPerPlayer

\* Only the count awards a bonus, and it counts every deposit that was.
LEMMA CountKeepsBonusInv ==
  ASSUME BonusInv, NEW h \in Handlers, CountDeposits(h)
  PROVE  BonusInv'
<1> DEFINE d == handling[h].deposit
<1>1. /\ handling[h].at = "count" /\ d \in Deposit /\ Confirmed(d)
      /\ UNCHANGED <<balance, posted, published, inbox, faults>>
      /\ BonusTypes
      /\ handling \in [Handlers -> {NoEvent} \union [at : {"count", "credit"}, deposit : Deposit]]
  BY DEF CountDeposits, moneyVars, busVars, BonusInv, BonusTypes, PromotionsTypeOK,
         HandledAreConfirmed, NoEvent
<1>2. \A e : (Confirmed(e)' <=> Confirmed(e)) /\ (Book!Done(Bonus(e))' <=> Book!Done(Bonus(e)))
  BY <1>1, CreditKeys
<1>3. CASE IsFirstConfirmedDeposit(d)
  <2>1. handling' = [handling EXCEPT ![h] = [at |-> "credit", deposit |-> d]]
    <3>1. [handling[h] EXCEPT !.at = "credit"] = [at |-> "credit", deposit |-> d]
      BY <1>1 DEF NoEvent
    <3>2. handling' = [handling EXCEPT ![h] = [handling[h] EXCEPT !.at = "credit"]]
      BY <1>1, <1>3 DEF CountDeposits
    <3> QED BY <3>1, <3>2
  <2>2. BonusTypes'
    BY <1>1, <2>1 DEF BonusTypes, EventsTypeOK, PromotionsTypeOK
  <2>3. \A e : Awarded(e)' => Awarded(e) \/ e = d
    BY <1>1, <1>2, <2>1 DEF Awarded
  <2>4. \A e \in Deposit : Awarded(e) /\ Player[e] = Player[d] => e = d
    BY <1>3 DEF BonusInv, ConfirmedFirst, IsFirstConfirmedDeposit, DepositsOf
  <2>5. OneAwardPerPlayer'
    BY <2>3, <2>4 DEF BonusInv, OneAwardPerPlayer
  <2>6. ConfirmedFirst'
    BY <1>1, <1>2, <2>3 DEF BonusInv, ConfirmedFirst
  <2>7. HandledAreConfirmed'
    <3>1. \A x \in Handlers : handling'[x] = handling[x] \/ handling'[x].deposit = d
      BY <1>1, <2>1
    <3> QED BY <1>1, <1>2, <3>1 DEF BonusInv, HandledAreConfirmed
  <2> QED BY <2>2, <2>5, <2>6, <2>7 DEF BonusInv
<1>4. CASE ~ IsFirstConfirmedDeposit(d)
  <2>1. handling' = [handling EXCEPT ![h] = NoEvent]
    BY <1>1, <1>4 DEF CountDeposits
  <2>2. BonusTypes'
    BY <1>1, <2>1 DEF BonusTypes, EventsTypeOK, PromotionsTypeOK
  <2>3. \A e : Awarded(e)' => Awarded(e)
    BY <1>1, <1>2, <2>1 DEF Awarded, NoEvent
  <2>4. ConfirmedFirst'
    BY <1>1, <1>2, <2>3 DEF BonusInv, ConfirmedFirst
  <2>5. HandledAreConfirmed'
    <3>1. \A x \in Handlers : handling'[x] = handling[x] \/ handling'[x].at = "idle"
      BY <1>1, <2>1 DEF NoEvent
    <3> QED BY <1>2, <3>1 DEF BonusInv, HandledAreConfirmed
  <2> QED BY <2>2, <2>3, <2>4, <2>5 DEF BonusInv, OneAwardPerPlayer
<1> QED BY <1>3, <1>4

\* The bonus that is credited was awarded before.
LEMMA CreditKeepsBonusInv ==
  ASSUME BonusInv, NEW h \in Handlers, CreditBonus(h) \/ HandlerDies(h)
  PROVE  BonusInv'
<1> DEFINE d == handling[h].deposit
<1>1. /\ handling[h].at # "idle" /\ d \in Deposit /\ Confirmed(d)
      /\ handling' = [handling EXCEPT ![h] = NoEvent]
      /\ UNCHANGED <<published, inbox>>
      /\ handling \in [Handlers -> {NoEvent} \union [at : {"count", "credit"}, deposit : Deposit]]
  BY DEF CreditBonus, HandlerDies, busVars, BonusInv, BonusTypes, PromotionsTypeOK,
         HandledAreConfirmed, NoEvent
<1>2. /\ balance' \in [Users -> [Buckets -> 0..MaxInt]]
      /\ posted \subseteq posted'
      /\ \A k \in posted' : k \in posted \/ (handling[h].at = "credit"
                                              /\ k = <<<<"signup-bonus", d>>, "only">>)
      /\ faults' \in 0..MaxFaults
  <2>1. CASE HandlerDies(h)
    BY <2>1, FaultsAssumption
    DEF HandlerDies, Fault, moneyVars, BonusInv, BonusTypes, EventsTypeOK
  <2>2. CASE CreditBonus(h)
    <3>1. CASE UNCHANGED moneyVars
      BY <2>2, <3>1 DEF CreditBonus, busVars, moneyVars, BonusInv, BonusTypes, EventsTypeOK
    <3>2. CASE Book!PostOnce(Bonus(d))
      <4>1. handling[h].at = "credit" /\ faults' = faults
        BY <2>2 DEF CreditBonus, busVars
      <4>2. /\ balance \in [Users -> [Buckets -> 0..MaxInt]]
            /\ faults \in 0..MaxFaults /\ Bonus(d).amount \in Nat
        BY <1>1, CreditAmounts DEF BonusInv, BonusTypes, EventsTypeOK
      <4>3. /\ balance' \in [Users -> [Buckets -> 0..MaxInt]]
            /\ posted' = posted \union {<<<<"signup-bonus", d>>, "only">>}
        BY <3>2, <4>2, PostOnceEffect, CreditKeys
      <4> QED BY <4>1, <4>2, <4>3
    <3> QED BY <2>2, <3>1, <3>2 DEF CreditBonus
  <2> QED BY <2>1, <2>2
<1>3. BonusTypes'
  BY <1>1, <1>2 DEF BonusInv, BonusTypes, EventsTypeOK, PromotionsTypeOK
<1>4. \A e : (Confirmed(e)' <=> Confirmed(e)) /\ (Awarded(e)' => Awarded(e))
  BY <1>1, <1>2, CreditKeys DEF Awarded, NoEvent
<1>5. ConfirmedFirst'
  BY <1>1, <1>4 DEF BonusInv, ConfirmedFirst
<1>6. HandledAreConfirmed'
  <2>1. \A x \in Handlers : handling'[x] = handling[x] \/ handling'[x].at = "idle"
    BY <1>1 DEF NoEvent
  <2> QED BY <1>4, <2>1 DEF BonusInv, HandledAreConfirmed
<1> QED BY <1>3, <1>4, <1>5, <1>6 DEF BonusInv, OneAwardPerPlayer

\* Every step keeps the invariant: of the bus, of the money, of the handlers.
LEMMA BonusStepInv ==
  BonusInv /\ [PromotionsNext \/ (EventsNext /\ UNCHANGED handling)]_<<moneyVars, busVars, handling>>
    => BonusInv'
<1>1. BonusInv /\ UNCHANGED <<moneyVars, busVars, handling>> => BonusInv'
  <2> SUFFICES ASSUME BonusInv, UNCHANGED <<balance, posted, published, inbox, faults, handling>>
               PROVE  BonusInv'
    BY DEF moneyVars, busVars
  <2>1. \A e : (Confirmed(e)' <=> Confirmed(e)) /\ (Awarded(e)' <=> Awarded(e))
    BY CreditKeys DEF Awarded
  <2>2. BonusTypes'
    BY DEF BonusInv, BonusTypes, EventsTypeOK, PromotionsTypeOK
  <2> QED BY <2>1, <2>2
    DEF BonusInv, ConfirmedFirst, OneAwardPerPlayer, HandledAreConfirmed
<1> QED
  BY <1>1, EventsKeepBonusInv, BeginKeepsBonusInv, CountKeepsBonusInv, CreditKeepsBonusInv
  DEF PromotionsNext

\* However a player's deposits race and however often their events are
\* published, one of them at most is rewarded.
THEOREM OneBonusAtMost == PromotionsSpec => []OneBonusPerPlayer
<1>1. BonusInv => OneBonusPerPlayer
  BY DEF BonusInv, OneAwardPerPlayer, OneBonusPerPlayer, Awarded
<1> QED BY <1>1, InitBonusInv, BonusStepInv, PTL DEF PromotionsSpec
-----------------------------------------------------------------------------
(* The gateway router.                                                     *)

\* The members of a finite set of numbers have the ranks from 1 to as many as
\* there are.
LEMMA EveryRankIsHeld ==
  ASSUME NEW S, S \subseteq Nat, IsFiniteSet(S)
  PROVE  /\ Cardinality(S) \in Nat
         /\ \A i \in 1..Cardinality(S) : \E x \in S : Rank(S, x) = i
<1> DEFINE n == Cardinality(S)
           Below(x) == {y \in S : y <= x}
           f == [x \in S |-> Rank(S, x)]
<1>1. n \in Nat /\ IsFiniteSet(1..n) /\ Cardinality(1..n) = n
  BY FS_CardinalityType, FS_Interval
<1>2. ASSUME NEW x \in S
      PROVE  /\ IsFiniteSet(Below(x)) /\ Below(x) \subseteq S
             /\ Rank(S, x) \in 1..n
  <2>1. Below(x) \subseteq S /\ x \in Below(x)
    OBVIOUS
  <2>2. IsFiniteSet(Below(x)) /\ Cardinality(Below(x)) <= n
    BY <2>1, FS_Subset
  <2>3. Cardinality(Below(x)) \in Nat
    BY <2>2, FS_CardinalityType
  <2>4. Cardinality(Below(x)) # 0
    BY <2>1, <2>2, FS_EmptySet
  <2>5. Rank(S, x) = Cardinality(Below(x))
    BY DEF Rank
  <2>6. ASSUME NEW k \in Nat, k <= n, k # 0 PROVE k \in 1..n
    BY <1>1, <2>6
  <2> HIDE DEF Below, n
  <2> QED BY <2>1, <2>2, <2>3, <2>4, <2>5, <2>6
<1>3. ASSUME NEW x \in S, NEW y \in S, x < y PROVE Rank(S, x) # Rank(S, y)
  <2>1. Below(x) \subseteq Below(y) /\ y \in Below(y) /\ y \notin Below(x)
    <3>1. x \in Nat /\ y \in Nat /\ x < y /\ ~ (y <= x) /\ y <= y
      BY <1>3
    <3>2. ASSUME NEW z \in S, z <= x PROVE z <= y
      BY <1>3, <3>1, <3>2
    <3> QED BY <3>1, <3>2
  <2>2. Cardinality(Below(x)) = Cardinality(Below(y)) => Below(x) = Below(y)
    BY <1>2, <2>1, FS_Subset
  <2> QED BY <2>1, <2>2 DEF Rank
<1>4. f \in Injection(S, 1..n)
  <2>1. f \in [S -> 1..n]
    BY <1>2
  <2>2. ASSUME NEW x \in S, NEW y \in S, f[x] = f[y] PROVE x = y
    <3>1. x < y \/ y < x \/ x = y
      OBVIOUS
    <3> QED BY <1>3, <2>2, <3>1
  <2> QED BY <2>1, <2>2 DEF Injection, IsInjective
<1>5. f \in Surjection(S, 1..n)
  BY <1>1, <1>4, FS_Injection
<1> QED BY <1>1, <1>5 DEF Surjection

\* Ascending lists every member of a finite set of numbers once, in order.
LEMMA AscendingOrders ==
  ASSUME NEW S, S \subseteq Nat, IsFiniteSet(S)
  PROVE  /\ Cardinality(S) \in Nat
         /\ Ascending(S) \in [1..Cardinality(S) -> S]
         /\ \A i, j \in 1..Cardinality(S) : Ascending(S)[i] = Ascending(S)[j] => i = j
<1>1. /\ Cardinality(S) \in Nat
      /\ \A i \in 1..Cardinality(S) : \E x \in S : Rank(S, x) = i
  BY EveryRankIsHeld
<1>2. \A i \in 1..Cardinality(S) : Ascending(S)[i] \in S /\ Rank(S, Ascending(S)[i]) = i
  BY <1>1 DEF Ascending
<1>3. Ascending(S) \in [1..Cardinality(S) -> S]
  BY <1>2 DEF Ascending
<1> QED BY <1>1, <1>2, <1>3, Zenon

\* Division leaves one remainder.
LEMMA OneRemainder ==
  ASSUME NEW n \in Nat, n > 0, NEW c \in Nat, NEW q \in Nat, NEW r \in Nat, r < n,
         c = n * q + r
  PROVE  c % n = r
BY SMTT(60)

\* The turn after this one.
LEMMA NextTurn ==
  ASSUME NEW n \in Nat, n > 0, NEW c \in Nat
  PROVE  /\ c % n \in Nat /\ c % n < n
         /\ (c + 1) % n = IF (c % n) + 1 < n THEN (c % n) + 1 ELSE 0
<1>1. c % n \in Nat /\ c % n < n
  OBVIOUS
<1>2. c = n * (c \div n) + (c % n) /\ c \div n \in Nat
  OBVIOUS
<1>3. PICK q \in Nat, r \in Nat : r = c % n /\ c = n * q + r /\ r < n
  BY <1>1, <1>2
<1>4. n * (q + 1) = n * q + n
  OBVIOUS
<1>5. CASE r + 1 < n
  <2>1. c + 1 = n * q + (r + 1)
    BY <1>3
  <2> QED BY <1>3, <1>5, <2>1, OneRemainder
<1>6. CASE r + 1 = n
  <2>1. c + 1 = n * (q + 1) + 0
    BY <1>3, <1>4, <1>6
  <2>2. (c + 1) % n = 0
    BY <2>1, OneRemainder
  <2> QED BY <1>3, <1>6, <2>2
<1> QED BY <1>3, <1>5, <1>6

\* What a sequence says of its elements.
LEMMA SeqFacts ==
  ASSUME NEW S, NEW s \in Seq(S)
  PROVE  /\ Len(s) \in Nat /\ DOMAIN s = 1..Len(s) /\ s \in [1..Len(s) -> S]
         /\ s # <<>> <=> Len(s) > 0
         /\ s # <<>> => Head(s) \in S /\ Head(s) = s[1]
BY EmptySeq

Statuses == {"none", "ONLINE", "DEGRADED", "OFFLINE"}
Orders == Seq(Gateways) \ {<<>>}
RouterSteps == {"turn", "filter", "try", "check", "announce"}
Handled == [at : RouterSteps, rest : Orders, previous : Statuses, status : Statuses]

\* A payment that is being handled has gateways to go to.
RouterTypes ==
  /\ active \subseteq Gateways /\ alarmed \subseteq Gateways
  /\ roundRobinCounter \in 0..Cardinality(Gateways)
  /\ turns \in Seq(Gateways)
  /\ served \in [Gateways -> Nat] /\ jumps \in Nat
  /\ health \in [Gateways -> Statuses]
  /\ payment \in [Payments -> {NoPayment} \union Handled]
  /\ \A p \in Payments :
       payment[p].at = "turn" => Len(payment[p].rest) <= Cardinality(Gateways)
  /\ overlapping \subseteq Payments /\ doubtful \subseteq Gateways
  /\ routerLeft \in [switches : Nat, checks : Nat, restarts : Nat]

\* The place, of n, that lies d places before c.
Before(c, d, n) == IF c >= d THEN c - d ELSE (c - d) + n

\* The turns ts, read backwards, are the places before c in the order of the
\* gateways in act.
Follow(ts, c, act) ==
  ts # <<>> =>
    /\ c < Cardinality(act)
    /\ Len(ts) <= Cardinality(act)
    /\ \A i \in 1..Len(ts) :
         ts[i] = Ascending(act)[Before(c, Len(ts) - i + 1, Cardinality(act)) + 1]

HadTurn(ts, g) == \E i \in DOMAIN ts : ts[i] = g

\* The turns a gateway had in the rounds before this one.
Laps(s, ts, g) == s[g] - (IF HadTurn(ts, g) THEN 1 ELSE 0)

\* The round ts with a turn of g; one that is full is followed by another.
WithTurn(ts, g, act) == IF Len(ts) < Cardinality(act) THEN Append(ts, g) ELSE <<g>>

\* The counts t are s with a turn of g, less k.
Counted(t, s, g, act, k) == \A h \in act : t[h] = s[h] + (IF h = g THEN 1 ELSE 0) - k

Even(s, ts, act, j) == \A g, h \in act : Laps(s, ts, g) <= Laps(s, ts, h) + j

\* The round follows the counter, and gateways have had equally many rounds but
\* for the jumps.
TurnsFollow ==
  /\ Follow(turns, roundRobinCounter, active)
  /\ Even(served, turns, active, jumps)
-----------------------------------------------------------------------------
\* The active gateways, in order.
LEMMA AscendingFacts ==
  ASSUME NEW act \in SUBSET Gateways
  PROVE  LET n == Cardinality(act)
         IN  /\ n \in Nat /\ n <= Cardinality(Gateways) /\ Cardinality(Gateways) \in Nat
             /\ act # {} <=> n > 0
             /\ IsFiniteSet(act)
             /\ Ascending(act) \in Seq(Gateways) /\ Len(Ascending(act)) = n
             /\ Ascending(act) \in [1..n -> act]
             /\ \A i, j \in 1..n : Ascending(act)[i] = Ascending(act)[j] => i = j
<1> DEFINE n == Cardinality(act)
<1>1. /\ IsFiniteSet(act) /\ act \subseteq Nat /\ n <= Cardinality(Gateways)
      /\ Cardinality(Gateways) \in Nat
  BY GatewaysAssumption, FS_Subset, FS_CardinalityType
<1>2. /\ n \in Nat /\ Ascending(act) \in [1..n -> act]
      /\ \A i, j \in 1..n : Ascending(act)[i] = Ascending(act)[j] => i = j
  BY <1>1, AscendingOrders
<1>3. n = 0 <=> act = {}
  BY <1>1, FS_EmptySet
<1> HIDE DEF n
<1>4. Ascending(act) \in Seq(Gateways) /\ Len(Ascending(act)) = n
  BY <1>2
<1>5. act # {} <=> n > 0
  BY <1>2, <1>3
<1> USE DEF n
<1> QED BY <1>1, <1>2, <1>4, <1>5, Zenon

\* A rotated order is one of the same gateways, and begins where it was cut.
LEMMA RotatedFacts ==
  ASSUME NEW s \in Orders, NEW i \in 0..Len(s) - 1
  PROVE  Rotated(s, i) \in Orders /\ Head(Rotated(s, i)) = s[i + 1]
<1> DEFINE a == SubSeq(s, i + 1, Len(s))
           b == SubSeq(s, 1, i)
<1>1. s \in Seq(Gateways) /\ Len(s) \in Nat
  BY DEF Orders
<1>2. a \in Seq(Gateways) /\ Len(a) = Len(s) - i /\ a[1] = s[i + 1] /\ b \in Seq(Gateways)
  BY <1>1
<1> HIDE DEF a, b
<1>3. a \o b \in Seq(Gateways) /\ a \o b # <<>> /\ Head(a \o b) = a[1]
  BY <1>1, <1>2
<1> QED BY <1>2, <1>3 DEF Rotated, Orders, a, b

\* The turns of a round are those of different active gateways ...
LEMMA TurnsDiffer ==
  ASSUME NEW act \in SUBSET Gateways, NEW ts \in Seq(Gateways), NEW c \in Nat,
         Follow(ts, c, act), NEW i \in DOMAIN ts
  PROVE  ts[i] \in act /\ \A j \in DOMAIN ts : ts[i] = ts[j] => i = j
<1> DEFINE n == Cardinality(act)
           m == Len(ts)
           Placed(k) == Before(c, m - k + 1, n) + 1
<1>1. /\ m \in Nat /\ DOMAIN ts = 1..m /\ i \in 1..m /\ ts # <<>>
  BY SeqFacts
<1>2. c < n /\ m <= n /\ \A k \in 1..m : ts[k] = Ascending(act)[Placed(k)]
  BY <1>1 DEF Follow
<1>3. /\ n \in Nat /\ Ascending(act) \in [1..n -> act]
      /\ \A x, y \in 1..n : Ascending(act)[x] = Ascending(act)[y] => x = y
  BY AscendingFacts
<1> HIDE DEF n, m
<1>4. \A k \in 1..m : Placed(k) \in 1..n
  BY <1>1, <1>2, <1>3 DEF Before
<1>5. ASSUME NEW j \in 1..m, ts[i] = ts[j] PROVE i = j
  <2>1. Placed(i) = Placed(j)
    <3> HIDE DEF Placed
    <3> QED BY <1>1, <1>2, <1>3, <1>4, <1>5
  <2>2. PICK k \in 1..n, l \in 1..n : k = m - i + 1 /\ l = m - j + 1
    BY <1>1, <1>2, <1>3
  <2>3. Before(c, k, n) = Before(c, l, n)
    <3>1. Before(c, k, n) \in Int /\ Before(c, l, n) \in Int
      BY <1>3 DEF Before
    <3> QED BY <2>1, <2>2, <3>1
  <2>4. k = l
    BY <1>2, <1>3, <2>3 DEF Before
  <2> QED BY <1>1, <2>2, <2>4
<1>6. ts[i] \in act
  <2> HIDE DEF Placed
  <2> QED BY <1>1, <1>2, <1>3, <1>4
<1> QED BY <1>1, <1>5, <1>6

\* ... and of all of them once there are as many turns.
LEMMA FullRound ==
  ASSUME NEW act \in SUBSET Gateways, NEW ts \in Seq(Gateways), NEW c \in Nat,
         Follow(ts, c, act), Len(ts) = Cardinality(act), NEW g \in act
  PROVE  HadTurn(ts, g)
<1>1. /\ Cardinality(act) \in Nat /\ IsFiniteSet(act)
      /\ DOMAIN ts = 1..Len(ts) /\ ts \in [1..Len(ts) -> Gateways]
  BY AscendingFacts, SeqFacts
<1>2. ts \in [1..Len(ts) -> act]
  BY <1>1, TurnsDiffer
<1>3. ts \in Injection(1..Len(ts), act)
  BY <1>1, <1>2, TurnsDiffer DEF Injection, IsInjective
<1>4. IsFiniteSet(1..Len(ts)) /\ Cardinality(1..Len(ts)) = Cardinality(act)
  BY <1>1, FS_Interval
<1>5. ts \in Surjection(1..Len(ts), act)
  BY <1>1, <1>3, <1>4, FS_Injection
<1> QED BY <1>1, <1>5 DEF Surjection, HadTurn

\* The next turn is that of the counter's place; a round that is full is
\* followed by a new one.
LEMMA TurnFollows ==
  ASSUME NEW act \in SUBSET Gateways, act # {}, NEW ts \in Seq(Gateways), NEW c \in Nat,
         Follow(ts, c, act),
         NEW g, g = Ascending(act)[(c % Cardinality(act)) + 1]
  PROVE  /\ g \in act /\ WithTurn(ts, g, act) \in Seq(Gateways)
         /\ Follow(WithTurn(ts, g, act), (c + 1) % Cardinality(act), act)
<1> DEFINE n == Cardinality(act)
           new == WithTurn(ts, g, act)
           r == c % n
           d == (c + 1) % n
           kept == IF Len(ts) < n THEN ts ELSE <<>>
<1>1. n \in Nat /\ n > 0 /\ Ascending(act) \in [1..n -> act]
  BY AscendingFacts
<1>2. r \in Nat /\ r < n /\ d = IF r + 1 < n THEN r + 1 ELSE 0
  BY <1>1, NextTurn
<1>3. kept \in Seq(Gateways) /\ Len(kept) \in Nat /\ new = Append(kept, g)
  <2>1. Append(<<>>, g) = <<g>> /\ <<>> \in Seq(Gateways)
    OBVIOUS
  <2>2. kept \in Seq(Gateways) /\ new = Append(kept, g)
    <3> HIDE DEF n
    <3>1. CASE Len(ts) < n
      BY <3>1 DEF n, WithTurn
    <3>2. CASE ~ (Len(ts) < n)
      BY <2>1, <3>2 DEF n, WithTurn
    <3> QED BY <3>1, <3>2
  <2> HIDE DEF kept
  <2> QED BY <2>2, SeqFacts
<1>4. /\ Len(kept) < n
      /\ kept # <<>> => r = c
      /\ \A i \in 1..Len(kept) :
           kept[i] = Ascending(act)[Before(c, Len(kept) - i + 1, n) + 1]
  <2>1. CASE kept = <<>>
    BY <1>1, <2>1
  <2>2. CASE kept # <<>>
    <3>1. kept = ts /\ Len(ts) < n /\ ts # <<>>
      BY <2>2
    <3>2. /\ c < n
          /\ \A i \in 1..Len(ts) :
               ts[i] = Ascending(act)[Before(c, Len(ts) - i + 1, n) + 1]
      BY <3>1 DEF Follow
    <3>3. r = c
      <4>1. c = n * 0 + c
        BY <1>1
      <4> QED BY <1>1, <3>2, <4>1, OneRemainder
    <3> HIDE DEF kept, r, n
    <3> QED BY <3>1, <3>2, <3>3
  <2> QED BY <2>1, <2>2
<1>5. g \in act /\ g = Ascending(act)[r + 1]
  BY <1>1, <1>2
<1> HIDE DEF n, r, d, kept, new
<1>6. PICK m \in Nat : m = Len(kept) /\ m < n
  BY <1>3, <1>4
<1>7. /\ new \in Seq(Gateways) /\ Len(new) = m + 1 /\ new # <<>>
      /\ \A i \in 1..m : new[i] = kept[i]
      /\ new[m + 1] = g
  BY <1>3, <1>5, <1>6
<1>8. /\ d < n /\ Before(d, 1, n) = r
      /\ \A k \in 1..n - 1 : Before(d, k + 1, n) = Before(r, k, n)
  <2>1. CASE r + 1 < n
    <3>1. d = r + 1
      BY <1>2, <2>1
    <3> QED BY <1>1, <1>2, <2>1, <3>1 DEF Before
  <2>2. CASE ~ (r + 1 < n)
    <3>1. d = 0 /\ r = n - 1
      BY <1>1, <1>2, <2>2
    <3> QED BY <1>1, <3>1 DEF Before
  <2> QED BY <2>1, <2>2
<1>9. ASSUME NEW i \in 1..m + 1
      PROVE  new[i] = Ascending(act)[Before(d, m + 1 - i + 1, n) + 1]
  <2>1. CASE i = m + 1
    <3>1. m + 1 - i + 1 = 1
      BY <2>1
    <3> QED BY <1>5, <1>7, <1>8, <2>1, <3>1
  <2>2. CASE i # m + 1
    <3>1. i \in 1..m /\ m > 0
      BY <2>2
    <3>2. PICK k \in 1..m : k = m - i + 1
      BY <3>1
    <3>3. k \in 1..n - 1 /\ m + 1 - i + 1 = k + 1
      BY <1>1, <1>6, <3>1, <3>2
    <3>4. r = c
      BY <1>3, <1>4, <1>6, <3>1, SeqFacts
    <3>5. kept[i] = Ascending(act)[Before(c, k, n) + 1]
      BY <1>4, <1>6, <3>1, <3>2
    <3>6. Before(d, k + 1, n) = Before(r, k, n)
      BY <1>8, <3>3
    <3> QED BY <1>7, <3>1, <3>3, <3>4, <3>5, <3>6
  <2> QED BY <2>1, <2>2
<1>10. Follow(new, d, act)
  BY <1>1, <1>6, <1>7, <1>8, <1>9 DEF Follow, n
<1> QED BY <1>5, <1>7, <1>10 DEF d, n, new

\* Whoever has its turn gains no round on the others by it.
LEMMA TurnIsEven ==
  ASSUME NEW act \in SUBSET Gateways, NEW ts \in Seq(Gateways), NEW c \in Nat,
         Follow(ts, c, act), NEW g \in act, NEW d \in Nat,
         WithTurn(ts, g, act) \in Seq(Gateways), Follow(WithTurn(ts, g, act), d, act),
         NEW s \in [Gateways -> Nat], NEW j \in Nat, Even(s, ts, act, j),
         NEW k \in Nat, NEW t, Counted(t, s, g, act, k)
  PROVE  Even(t, WithTurn(ts, g, act), act, j)
<1> DEFINE new == WithTurn(ts, g, act)
<1>1. Cardinality(act) \in Nat /\ Cardinality(act) > 0
  BY AscendingFacts
<1>2. ASSUME NEW i \in DOMAIN new, NEW l \in DOMAIN new, new[i] = new[l] PROVE i = l
  BY <1>2, TurnsDiffer
<1> HIDE DEF new
<1>3. Len(ts) \in Nat /\ DOMAIN ts = 1..Len(ts)
  BY SeqFacts
<1>4. CASE Len(ts) < Cardinality(act)
  <2>1. /\ new = Append(ts, g) /\ DOMAIN new = 1..Len(ts) + 1 /\ new[Len(ts) + 1] = g
        /\ \A i \in 1..Len(ts) : new[i] = ts[i]
    BY <1>3, <1>4 DEF new, WithTurn
  <2>2. ~ HadTurn(ts, g)
    <3>1. ASSUME NEW i \in DOMAIN ts, ts[i] = g PROVE FALSE
      <4>1. i \in 1..Len(ts) + 1 /\ i # Len(ts) + 1 /\ Len(ts) + 1 \in 1..Len(ts) + 1
        BY <1>3, <3>1
      <4> QED BY <1>2, <1>3, <2>1, <3>1, <4>1
    <3> QED BY <3>1 DEF HadTurn
  <2>3. \A h \in act : HadTurn(new, h) <=> HadTurn(ts, h) \/ h = g
    <3>1. ASSUME NEW h \in act, HadTurn(new, h) PROVE HadTurn(ts, h) \/ h = g
      <4>1. PICK i \in 1..Len(ts) + 1 : new[i] = h
        BY <2>1, <3>1 DEF HadTurn
      <4>2. i \in 1..Len(ts) \/ i = Len(ts) + 1
        BY <1>3
      <4> QED BY <1>3, <2>1, <4>1, <4>2 DEF HadTurn
    <3>2. ASSUME NEW h \in act, HadTurn(ts, h) \/ h = g PROVE HadTurn(new, h)
      <4>1. 1..Len(ts) \subseteq 1..Len(ts) + 1 /\ Len(ts) + 1 \in 1..Len(ts) + 1
        BY <1>3
      <4> QED BY <1>3, <2>1, <3>2, <4>1 DEF HadTurn
    <3> QED BY <3>1, <3>2
  <2>4. \A h \in act : Laps(t, new, h) = Laps(s, ts, h) - k /\ Laps(s, ts, h) \in Int
    <3>1. ASSUME NEW h \in act PROVE Laps(t, new, h) = Laps(s, ts, h) - k /\ Laps(s, ts, h) \in Int
      <4>1. s[h] \in Nat
        OBVIOUS
      <4> QED BY <2>2, <2>3, <4>1 DEF Laps, Counted
    <3> QED BY <3>1
  <2>5. ASSUME NEW x \in act, NEW y \in act PROVE Laps(t, new, x) <= Laps(t, new, y) + j
    <3>1. PICK a \in Int, b \in Int : a = Laps(s, ts, x) /\ b = Laps(s, ts, y)
      BY <2>4
    <3>2. a <= b + j
      BY <3>1 DEF Even
    <3>3. Laps(t, new, x) = a - k /\ Laps(t, new, y) = b - k
      BY <2>4, <3>1, Zenon
    <3>4. a - k <= (b - k) + j
      BY <3>2
    <3> QED BY <3>3, <3>4, Zenon
  <2> QED BY <2>5 DEF Even, new
<1>5. CASE ~ (Len(ts) < Cardinality(act))
  <2>1. Len(ts) = Cardinality(act)
    BY <1>1, <1>3, <1>5, SeqFacts DEF Follow
  <2>2. \A h \in act : HadTurn(ts, h)
    BY <2>1, FullRound
  <2>3. \A h \in act : HadTurn(new, h) <=> h = g
    BY <1>5 DEF HadTurn, new, WithTurn
  <2>4. \A h \in act : Laps(t, new, h) = (Laps(s, ts, h) + 1) - k /\ Laps(s, ts, h) \in Int
    <3>1. ASSUME NEW h \in act
          PROVE Laps(t, new, h) = (Laps(s, ts, h) + 1) - k /\ Laps(s, ts, h) \in Int
      <4>1. s[h] \in Nat
        OBVIOUS
      <4>2. PICK e \in {0, 1} : e = IF h = g THEN 1 ELSE 0
        OBVIOUS
      <4>3. Laps(s, ts, h) = s[h] - 1
        BY <2>2 DEF Laps
      <4>4. Laps(t, new, h) = t[h] - e
        BY <2>3, <4>2 DEF Laps
      <4>5. t[h] = s[h] + e - k
        BY <4>2 DEF Counted
      <4>6. (s[h] + e - k) - e = ((s[h] - 1) + 1) - k /\ s[h] - 1 \in Int
        BY <4>1, <4>2
      <4> QED BY <4>3, <4>4, <4>5, <4>6, Zenon
    <3> QED BY <3>1
  <2>5. ASSUME NEW x \in act, NEW y \in act PROVE Laps(t, new, x) <= Laps(t, new, y) + j
    <3>1. PICK a \in Int, b \in Int : a = Laps(s, ts, x) /\ b = Laps(s, ts, y)
      BY <2>4
    <3>2. a <= b + j
      BY <3>1 DEF Even
    <3>3. Laps(t, new, x) = (a + 1) - k /\ Laps(t, new, y) = (b + 1) - k
      BY <2>4, <3>1, Zenon
    <3>4. (a + 1) - k <= ((b + 1) - k) + j
      BY <3>2
    <3> QED BY <3>3, <3>4, Zenon
  <2> QED BY <2>5 DEF Even, new
<1> QED BY <1>4, <1>5

\* An upset of the order costs a gateway at most the turn it had in this round.
LEMMA JumpIsEven ==
  ASSUME NEW act \in SUBSET Gateways, NEW ts \in Seq(Gateways),
         NEW s \in [Gateways -> Nat], NEW j \in Nat, Even(s, ts, act, j)
  PROVE  Even(s, <<>>, act, j + 1)
<1>1. ASSUME NEW g \in act, NEW h \in act
      PROVE  Laps(s, <<>>, g) <= Laps(s, <<>>, h) + (j + 1)
  <2>1. s[g] \in Nat /\ s[h] \in Nat /\ Laps(s, ts, g) <= Laps(s, ts, h) + j
    BY DEF Even
  <2>2. Laps(s, <<>>, g) = s[g] /\ Laps(s, <<>>, h) = s[h]
    BY DEF Laps, HadTurn
  <2> QED BY <2>1, <2>2 DEF Laps
<1> QED BY <1>1 DEF Even

\* Nor is it more than a turn ahead within a round.
LEMMA EvenIsFair ==
  ASSUME NEW act \in SUBSET Gateways, NEW ts, NEW s \in [Gateways -> Nat], NEW j \in Nat,
         Even(s, ts, act, j), NEW g \in act, NEW h \in act
  PROVE  s[g] <= s[h] + 1 + j
<1>1. s[g] \in Nat /\ s[h] \in Nat /\ Laps(s, ts, g) <= Laps(s, ts, h) + j
  BY DEF Even
<1> QED BY <1>1 DEF Laps

\* an order.
LEMMA RoutableIsAnOrder ==
  ASSUME NEW order \in Orders
  PROVE  Routable(order) \in Orders
<1> DEFINE kept == {i \in DOMAIN order : health[order[i]] # "OFFLINE"}
           healthy == Ascending(kept)
<1>1. order \in Seq(Gateways) /\ DOMAIN order = 1..Len(order) /\ Len(order) \in Nat
  BY DEF Orders
<1>2. kept \subseteq Nat /\ IsFiniteSet(kept) /\ kept \subseteq DOMAIN order
  <2>1. IsFiniteSet(DOMAIN order)
    BY <1>1, FS_Interval
  <2> QED BY <1>1, <2>1, FS_Subset
<1> HIDE DEF kept
<1>3. Cardinality(kept) \in Nat /\ healthy \in [1..Cardinality(kept) -> kept]
  BY <1>2, AscendingOrders
<1> HIDE DEF healthy
<1>4. CASE healthy = <<>>
  BY <1>4 DEF Routable, healthy, kept
<1>5. CASE healthy # <<>>
  <2> DEFINE rest == [i \in DOMAIN healthy |-> order[healthy[i]]]
  <2>1. Routable(order) = rest
    BY <1>5 DEF Routable, healthy, kept
  <2>2. rest \in [1..Cardinality(kept) -> Gateways]
    <3>1. DOMAIN healthy = 1..Cardinality(kept)
      BY <1>3
    <3>2. ASSUME NEW i \in DOMAIN healthy PROVE order[healthy[i]] \in Gateways
      <4>1. healthy[i] \in DOMAIN order
        BY <1>2, <1>3
      <4> QED BY <1>1, <4>1
    <3> QED BY <3>1, <3>2
  <2>3. Cardinality(kept) # 0
    BY <1>3, <1>5
  <2>4. rest \in Seq(Gateways) /\ Len(rest) = Cardinality(kept)
    BY <1>3, <2>2
  <2> QED BY <2>1, <2>3, <2>4 DEF Orders
<1> QED BY <1>4, <1>5

Announces(p, g) == payment[p].at = "announce" /\ Head(payment[p].rest) = g

\* The row that a check has read, or else written.
Known(p) == IF payment[p].at = "check" THEN payment[p].previous ELSE payment[p].status

\* Two checks at one gateway overlap.
OverlapsAreSeen ==
  \A p, q \in Payments, g \in Gateways :
    Checks(p, g) /\ Checks(q, g) /\ p # q => p \in overlapping

\* A check alone at its gateway knows the gateway's row.
RowsAreKnown ==
  \A p \in Payments \ overlapping, g \in Gateways : Checks(p, g) => health[g] = Known(p)

\* Where there is no doubt, one call at most has an alarm to announce, and it
\* knows the last one.
AlarmsFollow ==
  \A g \in Gateways \ doubtful :
    /\ \A p \in Payments :
         Announces(p, g) =>
           /\ health[g] = payment[p].status
           /\ g \in alarmed <=> payment[p].previous = "OFFLINE"
    /\ \A p, q \in Payments : Announces(p, g) /\ Announces(q, g) => p = q
    /\ (\A p \in Payments : ~ Announces(p, g)) => (g \in alarmed <=> health[g] = "OFFLINE")

ChecksFollow == OverlapsAreSeen /\ RowsAreKnown /\ AlarmsFollow

RouterInv == RouterTypes /\ TurnsFollow /\ ChecksFollow

RouterSpec == RouterInit /\ [][RouterNext]_routerVars
-----------------------------------------------------------------------------
\* No payment was routed yet.
LEMMA InitRouterInv == RouterInit => RouterInv
<1> SUFFICES ASSUME RouterInit PROVE RouterInv
  OBVIOUS
<1> USE DEF RouterInit
<1>1. RouterTypes
  <2>1. roundRobinCounter \in 0..Cardinality(Gateways)
    <3>1. 0 \in 0..Cardinality(Gateways)
      BY GatewaysAssumption, FS_CardinalityType
    <3> QED BY <3>1, Zenon
  <2>2. turns \in Seq(Gateways)
    OBVIOUS
  <2>3. active \subseteq Gateways /\ alarmed \subseteq Gateways /\ jumps \in Nat
    OBVIOUS
  <2>4. served \in [Gateways -> Nat]
    BY DEF NoTurns
  <2>5. health \in [Gateways -> Statuses]
    BY DEF Statuses
  <2>6. payment \in [Payments -> {NoPayment} \union Handled]
    OBVIOUS
  <2>7. \A p \in Payments : payment[p].at = "idle"
    BY DEF NoPayment
  <2>8. routerLeft \in [switches : Nat, checks : Nat, restarts : Nat]
    BY RouterBoundsAssumption
  <2> QED BY <2>1, <2>2, <2>3, <2>4, <2>5, <2>6, <2>7, <2>8 DEF RouterTypes
<1>2. TurnsFollow
  <2>1. Even(NoTurns, <<>>, active, 0)
    BY DEF Even, Laps, HadTurn, NoTurns
  <2> QED BY <2>1 DEF TurnsFollow, Follow
<1>3. ChecksFollow
  <2>1. \A p \in Payments : payment[p].at = "idle"
    BY DEF NoPayment
  <2> QED BY <2>1 DEF ChecksFollow, OverlapsAreSeen, RowsAreKnown, AlarmsFollow, Checks, Announces
<1> QED BY <1>1, <1>2, <1>3 DEF RouterInv

\* What is left of a bound is a number.
LEMMA BoundsGoDown ==
  ASSUME NEW left \in [switches : Nat, checks : Nat, restarts : Nat]
  PROVE  /\ left.switches > 0 => [left EXCEPT !.switches = @ - 1] \in
                                   [switches : Nat, checks : Nat, restarts : Nat]
         /\ left.checks > 0 => [left EXCEPT !.checks = @ - 1] \in
                                 [switches : Nat, checks : Nat, restarts : Nat]
         /\ left.restarts > 0 => [left EXCEPT !.restarts = @ - 1] \in
                                   [switches : Nat, checks : Nat, restarts : Nat]
<1>1. left.switches \in Nat /\ left.checks \in Nat /\ left.restarts \in Nat
  OBVIOUS
<1>2. /\ left.switches > 0 => left.switches - 1 \in Nat
      /\ left.checks > 0 => left.checks - 1 \in Nat
      /\ left.restarts > 0 => left.restarts - 1 \in Nat
  BY <1>1
<1> QED BY <1>2

\* A payment is idle or is being handled.
LEMMA PaymentTypes ==
  ASSUME RouterTypes, NEW p \in Payments
  PROVE  \/ payment[p] = NoPayment /\ payment[p].at = "idle"
         \/ payment[p] \in Handled /\ payment[p].at # "idle" /\ payment[p].rest \in Orders
BY DEF RouterTypes, Handled, NoPayment, RouterSteps

\* What a payment turns to.
LEMMA HeadingTypes ==
  ASSUME NEW at \in RouterSteps, NEW rest \in Orders
  PROVE  /\ Heading(at, rest) \in Handled /\ Heading(at, rest).at = at
         /\ Heading(at, rest).rest = rest
BY DEF Heading, NoPayment, Handled, Statuses

\* A turn is counted, and the rounds that all have had are left out.
LEMMA ServeFacts ==
  ASSUME RouterTypes, NEW g \in active
  PROVE  /\ Serve(g) \in [Gateways -> Nat]
         /\ \E k \in Nat : Counted(Serve(g), served, g, active, k)
<1> DEFINE new == [served EXCEPT ![g] = @ + 1]
<1>1. active \subseteq Gateways /\ served \in [Gateways -> Nat]
  BY DEF RouterTypes
<1>2. new \in [Gateways -> Nat] /\ \A h \in active : new[h] = served[h] + (IF h = g THEN 1 ELSE 0)
  BY <1>1
<1> HIDE DEF new
<1>3. CASE \A h \in active : new[h] > 0
  <2>1. Serve(g) = [h \in Gateways |-> IF h \in active THEN new[h] - 1 ELSE new[h]]
    BY <1>3 DEF Serve, new
  <2>2. Serve(g) \in [Gateways -> Nat]
    BY <1>2, <1>3, <2>1
  <2>3. Counted(Serve(g), served, g, active, 1)
    BY <1>1, <1>2, <2>1 DEF Counted
  <2> QED BY <2>2, <2>3
<1>4. CASE ~ (\A h \in active : new[h] > 0)
  <2>1. Serve(g) = new
    BY <1>4 DEF Serve, new
  <2>2. Counted(Serve(g), served, g, active, 0)
    BY <1>1, <1>2, <2>1 DEF Counted
  <2> QED BY <1>2, <2>1, <2>2
<1> QED BY <1>3, <1>4

\* A payment takes the turn of the counter's place among the gateways it listed.
LEMMA TakeTurnFollows ==
  ASSUME RouterInv, NEW p \in Payments, TakeTurn(p)
  PROVE  /\ TurnsFollow'
         /\ turns' \in Seq(Gateways) /\ served' \in [Gateways -> Nat] /\ jumps' \in Nat
         /\ roundRobinCounter' \in 0..Cardinality(Gateways)
         /\ \E rest \in Orders : payment' = [payment EXCEPT ![p] = Heading("filter", rest)]
<1> DEFINE list == payment[p].rest
           n == Len(list)
           c == roundRobinCounter
           order == Rotated(list, c % n)
           g == Head(order)
<1>1. RouterTypes /\ TurnsFollow /\ payment[p].at = "turn"
  BY DEF TakeTurn, RouterInv
<1>2. list \in Orders /\ n <= Cardinality(Gateways)
  BY <1>1, PaymentTypes DEF RouterTypes
<1>3. Cardinality(Gateways) \in Nat /\ c \in Nat /\ n \in Nat /\ n > 0
  <2>1. Cardinality(Gateways) \in Nat /\ c \in Nat
    BY <1>1, GatewaysAssumption, FS_CardinalityType DEF RouterTypes
  <2> QED BY <1>2, <2>1, SeqFacts DEF Orders
<1>4. /\ TurnsTo(p, "filter", order) /\ roundRobinCounter' = (c + 1) % n
      /\ active' = active
      /\ IF list = Ascending(active)
         THEN /\ turns' = IF Len(turns) < n THEN Append(turns, g) ELSE <<g>>
              /\ served' = Serve(g) /\ jumps' = jumps
         ELSE turns' = <<>> /\ jumps' = jumps + 1 /\ served' = served
  BY DEF TakeTurn, CountActive
<1>5. c % n \in Nat /\ c % n < n /\ (c + 1) % n \in Nat /\ (c + 1) % n < n
  <2> HIDE DEF n, c
  <2> QED BY <1>3
<1> HIDE DEF n, c
<1>6. order \in Orders /\ g = list[(c % n) + 1]
  <2>1. c % n \in 0..n - 1
    BY <1>3, <1>5
  <2> QED BY <1>2, <2>1, RotatedFacts DEF n
<1> HIDE DEF order, g
<1>7. roundRobinCounter' \in 0..Cardinality(Gateways)
  BY <1>2, <1>3, <1>4, <1>5
<1>8. payment' = [payment EXCEPT ![p] = Heading("filter", order)]
  BY <1>4 DEF TurnsTo
<1>9. /\ active \in SUBSET Gateways /\ turns \in Seq(Gateways) /\ served \in [Gateways -> Nat]
      /\ jumps \in Nat /\ Follow(turns, c, active) /\ Even(served, turns, active, jumps)
  BY <1>1 DEF RouterTypes, TurnsFollow, c
<1>10. CASE list = Ascending(active)
  <2>1. Cardinality(active) = n /\ active # {}
    BY <1>3, <1>9, <1>10, AscendingFacts DEF n
  <2>2. g = Ascending(active)[(c % Cardinality(active)) + 1] /\ turns' = WithTurn(turns, g, active)
    BY <1>4, <1>6, <1>10, <2>1 DEF WithTurn
  <2>3. /\ g \in active /\ turns' \in Seq(Gateways)
        /\ Follow(turns', (c + 1) % Cardinality(active), active)
    BY <1>3, <1>9, <2>1, <2>2, TurnFollows
  <2>4. served' = Serve(g) /\ jumps' = jumps
    BY <1>4, <1>10
  <2>5. served' \in [Gateways -> Nat]
    BY <1>1, <2>3, <2>4, ServeFacts
  <2>6. PICK k \in Nat : Counted(served', served, g, active, k)
    BY <1>1, <2>3, <2>4, ServeFacts
  <2>7. Even(served', turns', active, jumps)
    BY <1>3, <1>5, <1>9, <2>1, <2>2, <2>3, <2>6, TurnIsEven
  <2>8. TurnsFollow'
    BY <1>4, <2>1, <2>3, <2>4, <2>7 DEF TurnsFollow
  <2> QED BY <1>6, <1>7, <1>8, <1>9, <2>3, <2>4, <2>5, <2>8
<1>11. CASE list # Ascending(active)
  <2>1. turns' = <<>> /\ jumps' = jumps + 1 /\ served' = served
    BY <1>4, <1>11
  <2>2. Even(served, <<>>, active, jumps + 1)
    BY <1>9, JumpIsEven
  <2>3. TurnsFollow'
    BY <1>4, <2>1, <2>2 DEF TurnsFollow, Follow
  <2>4. turns' \in Seq(Gateways) /\ jumps' \in Nat
    BY <1>9, <2>1
  <2> QED BY <1>6, <1>7, <1>8, <1>9, <2>1, <2>3, <2>4
<1> QED BY <1>10, <1>11
-----------------------------------------------------------------------------
\* A payment that turns away from a check it has no alarm to announce from, or
\* from none, leaves the others what they know.
LEMMA LeavesChecks ==
  ASSUME RouterInv, NEW p \in Payments, payment[p].at # "announce",
         NEW next, next.at \notin {"check", "announce"},
         payment' = [payment EXCEPT ![p] = next],
         overlapping' \in {overlapping, overlapping \ {p}},
         UNCHANGED <<health, alarmed, doubtful>>
  PROVE  ChecksFollow'
<1>1. payment \in [Payments -> {NoPayment} \union Handled] /\ ChecksFollow
  BY DEF RouterInv, RouterTypes
<1>2. \A q \in Payments, g \in Gateways : Checks(q, g)' => Checks(q, g) /\ q # p
  BY <1>1 DEF Checks
<1>3. \A q \in Payments, g \in Gateways : Announces(q, g)' <=> Announces(q, g)
  BY <1>1 DEF Announces
<1>4. \A q \in Payments : q # p => payment'[q] = payment[q]
  BY <1>1
<1>5. \A q \in Payments : q # p => (q \in overlapping' <=> q \in overlapping)
  OBVIOUS
<1>6. OverlapsAreSeen'
  BY <1>1, <1>2, <1>5 DEF OverlapsAreSeen, ChecksFollow
<1>7. RowsAreKnown'
  BY <1>1, <1>2, <1>4, <1>5 DEF RowsAreKnown, ChecksFollow, Known
<1>8. AlarmsFollow'
  <2>1. \A q \in Payments, g \in Gateways : Announces(q, g) => q # p
    BY DEF Announces
  <2> QED BY <1>1, <1>3, <1>4, <2>1 DEF AlarmsFollow, ChecksFollow
<1> QED BY <1>6, <1>7, <1>8 DEF ChecksFollow

\* A check reads the latest row; it overlaps those at the same gateway.
LEMMA CheckFollows ==
  ASSUME RouterInv, NEW p \in Payments, payment[p].at \notin {"check", "announce"},
         NEW rest \in Orders, Check(p, rest)
  PROVE  RouterTypes' /\ ChecksFollow'
<1> DEFINE g == Head(rest)
           next == [Heading("check", rest) EXCEPT !.previous = health[g]]
           others == {q \in Payments \ {p} : Checks(q, g)}
<1>1. /\ RouterTypes /\ ChecksFollow
      /\ payment' = [payment EXCEPT ![p] = next]
      /\ overlapping' = IF others = {} THEN overlapping
                        ELSE overlapping \union others \union {p}
      /\ UNCHANGED <<active, roundRobinCounter, turns, served, jumps, health, alarmed, doubtful>>
  BY DEF Check, RouterInv, orderVars, turnHistory, healthVars
<1>2. g \in Gateways /\ health[g] \in Statuses
  BY <1>1, SeqFacts DEF Orders, RouterTypes
<1>3. /\ next \in Handled /\ next.at = "check" /\ Head(next.rest) = g
      /\ next.previous = health[g]
  BY <1>2, HeadingTypes DEF Heading, NoPayment, Handled, RouterSteps, Statuses
<1> HIDE DEF g, next
<1>4. RouterTypes'
  <2>1. payment' \in [Payments -> {NoPayment} \union Handled]
    BY <1>1, <1>3 DEF RouterTypes
  <2>2. \A q \in Payments :
          payment'[q].at = "turn" => Len(payment'[q].rest) <= Cardinality(Gateways)
    BY <1>1, <1>3 DEF RouterTypes
  <2>3. routerLeft' \in [switches : Nat, checks : Nat, restarts : Nat]
    <3>1. routerLeft.checks > 0 /\ routerLeft' = [routerLeft EXCEPT !.checks = @ - 1]
      BY DEF Check
    <3> QED BY <1>1, <3>1, BoundsGoDown DEF RouterTypes
  <2>4. overlapping' \subseteq Payments
    BY <1>1 DEF RouterTypes
  <2> QED BY <1>1, <2>1, <2>2, <2>3, <2>4 DEF RouterTypes
<1>5. \A q \in Payments : q # p => payment'[q] = payment[q]
  BY <1>1 DEF RouterTypes
<1>6. payment'[p] = next
  BY <1>1 DEF RouterTypes
<1>7. \A q \in Payments, x \in Gateways :
        /\ q # p => (Checks(q, x)' <=> Checks(q, x))
        /\ Checks(p, x)' <=> x = g
        /\ Announces(q, x)' <=> Announces(q, x)
        /\ ~ Announces(p, x)
  BY <1>3, <1>5, <1>6 DEF Checks, Announces
<1>8. OverlapsAreSeen'
  <2>1. ASSUME NEW q \in Payments, NEW s \in Payments, NEW x \in Gateways, q # s,
               Checks(q, x)', Checks(s, x)'
        PROVE  q \in overlapping'
    <3>1. CASE q = p
      BY <1>1, <1>7, <2>1, <3>1
    <3>2. CASE s = p
      BY <1>1, <1>7, <2>1, <3>2
    <3>3. CASE q # p /\ s # p
      BY <1>1, <1>7, <2>1, <3>3 DEF ChecksFollow, OverlapsAreSeen
    <3> QED BY <3>1, <3>2, <3>3
  <2> QED BY <2>1 DEF OverlapsAreSeen
<1>9. RowsAreKnown'
  <2>1. ASSUME NEW q \in Payments \ overlapping', NEW x \in Gateways, Checks(q, x)'
        PROVE  health'[x] = Known(q)'
    <3>1. CASE q = p
      BY <1>1, <1>3, <1>6, <1>7, <2>1, <3>1 DEF Known
    <3>2. CASE q # p
      BY <1>1, <1>5, <1>7, <2>1, <3>2 DEF Known, RowsAreKnown, ChecksFollow
    <3> QED BY <3>1, <3>2
  <2> QED BY <2>1 DEF RowsAreKnown
<1>10. AlarmsFollow'
  BY <1>1, <1>5, <1>7 DEF AlarmsFollow, ChecksFollow
<1> QED BY <1>4, <1>8, <1>9, <1>10 DEF ChecksFollow

\* The answer is known to the check that wrote it, and in doubt if others were
\* at the gateway.
LEMMA AskFollows ==
  ASSUME RouterInv, NEW p \in Payments, AskGateway(p)
  PROVE  RouterTypes' /\ ChecksFollow'
<1> DEFINE g == Head(payment[p].rest)
<1>1. /\ RouterTypes /\ ChecksFollow /\ payment[p].at = "check"
      /\ UNCHANGED <<active, roundRobinCounter, turns, served, jumps, alarmed, overlapping,
                     routerLeft>>
  BY DEF AskGateway, RouterInv, orderVars, turnHistory
<1>2. PICK status \in {"ONLINE", "DEGRADED", "OFFLINE"} :
        /\ health' = [health EXCEPT ![g] = status]
        /\ payment' = [payment EXCEPT ![p].at = "announce", ![p].status = status]
        /\ doubtful' = IF p \in overlapping THEN doubtful \union {g} ELSE doubtful
  BY DEF AskGateway
<1>3. payment[p] \in Handled /\ payment[p].rest \in Orders /\ g \in Gateways
  BY <1>1, PaymentTypes, SeqFacts DEF Orders
<1> DEFINE next == [payment[p] EXCEPT !.at = "announce", !.status = status]
<1>4. /\ next \in Handled /\ next.at = "announce" /\ next.status = status
      /\ next.rest = payment[p].rest /\ next.previous = payment[p].previous
  BY <1>3 DEF Handled, RouterSteps, Statuses
<1>5. payment' = [payment EXCEPT ![p] = next]
  BY <1>1, <1>2 DEF RouterTypes
<1> HIDE DEF next, g
<1>6. RouterTypes'
  <2>1. health' \in [Gateways -> Statuses]
    BY <1>1, <1>2 DEF RouterTypes, Statuses
  <2>2. payment' \in [Payments -> {NoPayment} \union Handled]
    BY <1>1, <1>4, <1>5 DEF RouterTypes
  <2>3. \A q \in Payments :
          payment'[q].at = "turn" => Len(payment'[q].rest) <= Cardinality(Gateways)
    BY <1>1, <1>4, <1>5 DEF RouterTypes
  <2>4. doubtful' \subseteq Gateways
    BY <1>1, <1>2, <1>3 DEF RouterTypes
  <2> QED BY <1>1, <2>1, <2>2, <2>3, <2>4 DEF RouterTypes
<1>7. /\ \A q \in Payments : q # p => payment'[q] = payment[q]
      /\ payment'[p] = next
      /\ \A x \in Gateways : health'[x] = IF x = g THEN status ELSE health[x]
  BY <1>1, <1>2, <1>5 DEF RouterTypes
<1>8. \A q \in Payments, x \in Gateways :
        /\ Checks(q, x)' <=> Checks(q, x)
        /\ Announces(q, x)' <=> (Announces(q, x) \/ (q = p /\ x = g))
        /\ Checks(p, x) <=> x = g
        /\ ~ Announces(p, x)
        /\ Announces(q, x) => Checks(q, x)
  BY <1>1, <1>4, <1>7 DEF Checks, Announces, g
<1>9. OverlapsAreSeen'
  BY <1>1, <1>8 DEF OverlapsAreSeen, ChecksFollow
\* Where p does not overlap, it is alone at g.
<1>10. \A q \in Payments : q # p /\ Checks(q, g) => p \in overlapping /\ q \in overlapping
  BY <1>1, <1>3, <1>8 DEF OverlapsAreSeen, ChecksFollow
<1>11. RowsAreKnown'
  <2>1. ASSUME NEW q \in Payments \ overlapping', NEW x \in Gateways, Checks(q, x)'
        PROVE  health'[x] = Known(q)'
    <3>1. CASE q = p
      BY <1>4, <1>7, <1>8, <2>1, <3>1 DEF Known
    <3>2. CASE q # p
      <4>1. x # g /\ Checks(q, x)
        BY <1>1, <1>8, <1>10, <2>1, <3>2
      <4> QED BY <1>1, <1>7, <2>1, <3>2, <4>1 DEF Known, RowsAreKnown, ChecksFollow
    <3> QED BY <3>1, <3>2
  <2> QED BY <2>1 DEF RowsAreKnown
<1>12. AlarmsFollow'
  <2>1. ASSUME NEW x \in Gateways \ doubtful'
        PROVE  /\ \A q \in Payments :
                    Announces(q, x)' =>
                      /\ health'[x] = payment'[q].status
                      /\ x \in alarmed' <=> payment'[q].previous = "OFFLINE"
               /\ \A q, s \in Payments : Announces(q, x)' /\ Announces(s, x)' => q = s
               /\ (\A q \in Payments : ~ Announces(q, x)') =>
                    (x \in alarmed' <=> health'[x] = "OFFLINE")
    <3>1. x \notin doubtful
      BY <1>2, <2>1
    <3>2. CASE x = g
      <4>1. p \notin overlapping
        BY <1>2, <2>1, <3>2
      <4>2. \A q \in Payments : ~ Announces(q, g)
        BY <1>3, <1>8, <1>10, <4>1
      <4>3. g \in alarmed <=> health[g] = "OFFLINE"
        BY <1>1, <1>3, <3>1, <3>2, <4>2 DEF AlarmsFollow, ChecksFollow
      <4>4. health[g] = payment[p].previous
        BY <1>1, <1>3, <1>8, <4>1 DEF RowsAreKnown, ChecksFollow, Known
      <4>5. \A q \in Payments : Announces(q, x)' <=> q = p
        BY <1>8, <3>2, <4>2
      <4>6. health'[g] = payment'[p].status /\ payment'[p].previous = payment[p].previous
        BY <1>3, <1>4, <1>7
      <4> QED BY <1>1, <3>2, <4>3, <4>4, <4>5, <4>6
    <3>3. CASE x # g
      <4>1. \A q \in Payments : Announces(q, x)' <=> Announces(q, x)
        BY <1>8, <3>3
      <4>2. \A q \in Payments : Announces(q, x) => payment'[q] = payment[q]
        BY <1>7, <1>8
      <4>3. health'[x] = health[x]
        BY <1>7, <3>3
      <4> QED BY <1>1, <3>1, <4>1, <4>2, <4>3 DEF AlarmsFollow, ChecksFollow
    <3> QED BY <3>2, <3>3
  <2> QED BY <2>1 DEF AlarmsFollow
<1> QED BY <1>6, <1>9, <1>11, <1>12 DEF ChecksFollow

\* After a check a payment tries the next gateway, or is done.
LEMMA GoesOnTypes ==
  ASSUME RouterTypes, NEW p \in Payments, payment[p].at # "idle", GoesOn(p)
  PROVE  \E next \in {NoPayment} \union Handled :
           payment' = [payment EXCEPT ![p] = next] /\ next.at \in {"idle", "try"}
<1> DEFINE rest == payment[p].rest
<1>1. rest \in Orders /\ payment \in [Payments -> {NoPayment} \union Handled]
  BY PaymentTypes DEF RouterTypes
<1>2. CASE Len(rest) = 1
  <2>1. payment' = [payment EXCEPT ![p] = NoPayment]
    BY <1>1, <1>2 DEF GoesOn
  <2>2. NoPayment.at = "idle"
    BY DEF NoPayment
  <2> QED BY <2>1, <2>2
<1>3. CASE Len(rest) # 1
  <2>1. rest \in Seq(Gateways) /\ rest # <<>> /\ Len(rest) \in Nat /\ Len(rest) # 0
    BY <1>1, SeqFacts DEF Orders
  <2>2. Tail(rest) \in Seq(Gateways) /\ Len(Tail(rest)) = Len(rest) - 1
    BY <2>1, HeadTailProperties
  <2>3. PICK next \in Orders : next = Tail(rest)
    <3> DEFINE t == Tail(rest)
    <3>1. t \in Seq(Gateways) /\ Len(t) # 0
      BY <1>3, <2>1, <2>2
    <3> HIDE DEF t
    <3>2. t \in Orders
      BY <3>1, EmptySeq DEF Orders
    <3> QED BY <3>2 DEF t
  <2>4. payment' = [payment EXCEPT ![p] = Heading("try", next)]
    BY <1>1, <1>3, <2>3 DEF GoesOn
  <2>5. Heading("try", next) \in Handled /\ Heading("try", next).at = "try"
    BY HeadingTypes DEF RouterSteps
  <2> QED BY <2>4, <2>5
<1> QED BY <1>2, <1>3

\* What a check announces settles the doubt that only it can have.
LEMMA AnnounceFollows ==
  ASSUME RouterInv, NEW p \in Payments, Announce(p)
  PROVE  RouterTypes' /\ ChecksFollow'
<1> DEFINE g == Head(payment[p].rest)
           previous == payment[p].previous
           status == payment[p].status
<1>1. /\ RouterTypes /\ ChecksFollow /\ payment[p].at = "announce"
      /\ alarmed' = Announced(g, previous, status)
      /\ doubtful' = IF Due(p) /\ p \notin overlapping THEN doubtful \ {g} ELSE doubtful
      /\ overlapping' = overlapping \ {p}
      /\ UNCHANGED <<active, roundRobinCounter, turns, served, jumps, health, routerLeft>>
  BY DEF Announce, RouterInv, orderVars, turnHistory
<1>2. g \in Gateways /\ previous \in Statuses /\ status \in Statuses
  BY <1>1, PaymentTypes, SeqFacts DEF Orders, Handled
<1>3. PICK next \in {NoPayment} \union Handled :
        payment' = [payment EXCEPT ![p] = next] /\ next.at \in {"idle", "try"}
  BY <1>1, GoesOnTypes DEF Announce
<1>4. /\ \A q \in Payments : q # p => payment'[q] = payment[q]
      /\ payment'[p] = next
  BY <1>1, <1>3 DEF RouterTypes
<1> HIDE DEF g, previous, status
<1>5. RouterTypes'
  <2>1. alarmed' \subseteq Gateways
    BY <1>1, <1>2 DEF RouterTypes, Announced
  <2>2. payment' \in [Payments -> {NoPayment} \union Handled]
    BY <1>1, <1>3 DEF RouterTypes
  <2>3. \A q \in Payments :
          payment'[q].at = "turn" => Len(payment'[q].rest) <= Cardinality(Gateways)
    BY <1>1, <1>3, <1>4 DEF RouterTypes
  <2>4. doubtful' \subseteq Gateways /\ overlapping' \subseteq Payments
    BY <1>1 DEF RouterTypes
  <2> QED BY <1>1, <2>1, <2>2, <2>3, <2>4 DEF RouterTypes
<1>6. \A q \in Payments, x \in Gateways :
        /\ Checks(q, x)' <=> (Checks(q, x) /\ q # p)
        /\ Announces(q, x)' <=> (Announces(q, x) /\ q # p)
        /\ Announces(p, x) <=> x = g
        /\ Checks(p, x) <=> x = g
        /\ Announces(q, x) => Checks(q, x)
  BY <1>1, <1>3, <1>4 DEF Checks, Announces, g
<1>7. OverlapsAreSeen'
  BY <1>1, <1>6 DEF OverlapsAreSeen, ChecksFollow
<1>8. RowsAreKnown'
  BY <1>1, <1>4, <1>6 DEF RowsAreKnown, ChecksFollow, Known
<1>9. AlarmsFollow'
  <2>1. ASSUME NEW x \in Gateways \ doubtful'
        PROVE  /\ \A q \in Payments :
                    Announces(q, x)' =>
                      /\ health'[x] = payment'[q].status
                      /\ x \in alarmed' <=> payment'[q].previous = "OFFLINE"
               /\ \A q, s \in Payments : Announces(q, x)' /\ Announces(s, x)' => q = s
               /\ (\A q \in Payments : ~ Announces(q, x)') =>
                    (x \in alarmed' <=> health'[x] = "OFFLINE")
    <3>1. CASE x # g
      <4>1. x \notin doubtful
        BY <1>1, <2>1, <3>1
      <4>2. \A q \in Payments : Announces(q, x)' <=> Announces(q, x)
        BY <1>6, <3>1
      <4>3. \A q \in Payments : Announces(q, x) => payment'[q] = payment[q]
        BY <1>4, <1>6, <3>1
      <4>4. x \in alarmed' <=> x \in alarmed
        BY <1>1, <3>1 DEF Announced
      <4> QED BY <1>1, <4>1, <4>2, <4>3, <4>4 DEF AlarmsFollow, ChecksFollow
    <3>2. CASE x = g
      <4>1. health[g] = status /\ (x \in alarmed' <=> status = "OFFLINE")
        <5>1. CASE g \notin doubtful
          <6>1. health[g] = status /\ (g \in alarmed <=> previous = "OFFLINE")
            BY <1>1, <1>2, <1>6, <5>1 DEF AlarmsFollow, ChecksFollow, previous, status
          <6> QED BY <1>1, <3>2, <6>1 DEF Announced
        <5>2. CASE g \in doubtful
          <6>1. Due(p) /\ p \notin overlapping
            BY <1>1, <2>1, <3>2, <5>2
          <6>2. health[g] = status
            BY <1>1, <1>2, <1>6, <6>1 DEF RowsAreKnown, ChecksFollow, Known, status
          <6>3. (previous = "OFFLINE") # (status = "OFFLINE")
            BY <6>1 DEF Due, previous, status
          <6>4. CASE status = "OFFLINE"
            BY <1>1, <3>2, <6>2, <6>3, <6>4 DEF Announced
          <6>5. CASE status # "OFFLINE"
            BY <1>1, <3>2, <6>2, <6>3, <6>5 DEF Announced
          <6> QED BY <6>4, <6>5
        <5> QED BY <5>1, <5>2
      <4>2. ASSUME NEW q \in Payments, Announces(q, x)' PROVE FALSE
        <5>1. q # p /\ Checks(q, x) /\ Checks(p, x) /\ Announces(q, x) /\ Announces(p, x)
          BY <1>6, <3>2, <4>2
        <5>2. p \in overlapping
          BY <1>1, <5>1 DEF OverlapsAreSeen, ChecksFollow
        <5>3. x \notin doubtful
          BY <1>1, <2>1, <5>2
        <5> QED BY <1>1, <5>1, <5>3 DEF AlarmsFollow, ChecksFollow
      <4> QED BY <1>1, <3>2, <4>1, <4>2
    <3> QED BY <3>1, <3>2
  <2> QED BY <2>1 DEF AlarmsFollow
<1> QED BY <1>5, <1>7, <1>8, <1>9 DEF ChecksFollow

\* A process that dies takes the alarms that were due with it.
LEMMA RestartFollows ==
  ASSUME RouterInv, Restart
  PROVE  RouterInv'
<1>1. /\ RouterTypes /\ TurnsFollow /\ ChecksFollow
      /\ roundRobinCounter' = 0 /\ turns' = <<>> /\ jumps' = jumps + 1
      /\ payment' = [p \in Payments |-> NoPayment]
      /\ overlapping' = {}
      /\ doubtful' = doubtful \union
           {Head(payment[p].rest) : p \in {q \in Payments : payment[q].at = "announce" /\ Due(q)}}
      /\ UNCHANGED <<active, served, health, alarmed>>
  BY DEF Restart, RouterInv, healthVars
<1>2. RouterTypes'
  <2>1. 0 \in 0..Cardinality(Gateways)
    BY GatewaysAssumption, FS_CardinalityType
  <2>2. routerLeft' \in [switches : Nat, checks : Nat, restarts : Nat]
    <3>1. routerLeft.restarts > 0 /\ routerLeft' = [routerLeft EXCEPT !.restarts = @ - 1]
      BY DEF Restart
    <3> QED BY <1>1, <3>1, BoundsGoDown DEF RouterTypes
  <2>3. turns' \in Seq(Gateways) /\ jumps' \in Nat
    BY <1>1 DEF RouterTypes
  <2>4. /\ payment' \in [Payments -> {NoPayment} \union Handled]
        /\ \A p \in Payments : payment'[p].at # "turn"
    BY <1>1 DEF NoPayment
  <2>5. doubtful' \subseteq Gateways
    <3>1. ASSUME NEW p \in Payments, payment[p].at = "announce"
          PROVE  Head(payment[p].rest) \in Gateways
      BY <1>1, <3>1, PaymentTypes, SeqFacts DEF Orders
    <3> QED BY <1>1, <3>1 DEF RouterTypes
  <2>6. roundRobinCounter' \in 0..Cardinality(Gateways)
    BY <1>1, <2>1, Zenon
  <2> QED BY <1>1, <2>2, <2>3, <2>4, <2>5, <2>6 DEF RouterTypes
<1>3. TurnsFollow'
  <2>1. Even(served, <<>>, active, jumps + 1)
    BY <1>1, JumpIsEven DEF TurnsFollow, RouterTypes
  <2> QED BY <1>1, <2>1 DEF TurnsFollow, Follow
<1>4. \A p \in Payments, g \in Gateways : ~ Checks(p, g)' /\ ~ Announces(p, g)'
  BY <1>1 DEF Checks, Announces, NoPayment
<1>5. AlarmsFollow'
  <2>1. ASSUME NEW g \in Gateways \ doubtful' PROVE g \in alarmed' <=> health'[g] = "OFFLINE"
    <3>1. g \notin doubtful
      BY <1>1, <2>1
    <3>2. CASE \A p \in Payments : ~ Announces(p, g)
      BY <1>1, <3>1, <3>2 DEF AlarmsFollow, ChecksFollow
    <3>3. ASSUME NEW p \in Payments, Announces(p, g) PROVE g \in alarmed <=> health[g] = "OFFLINE"
      <4>1. ~ Due(p)
        BY <1>1, <2>1, <3>3 DEF Announces
      <4>2. /\ health[g] = payment[p].status
            /\ g \in alarmed <=> payment[p].previous = "OFFLINE"
        BY <1>1, <3>1, <3>3 DEF AlarmsFollow, ChecksFollow
      <4> QED BY <4>1, <4>2 DEF Due
    <3> QED BY <1>1, <3>2, <3>3
  <2> QED BY <1>4, <2>1 DEF AlarmsFollow
<1>6. ChecksFollow'
  BY <1>4, <1>5 DEF ChecksFollow, OverlapsAreSeen, RowsAreKnown
<1> QED BY <1>2, <1>3, <1>6 DEF RouterInv

\* A payment that turns to another step beside the checks.
LEMMA TurnsAway ==
  ASSUME RouterInv, NEW p \in Payments, payment[p].at # "announce",
         NEW next \in {NoPayment} \union Handled, next.at \notin {"check", "announce"},
         next.at = "turn" => Len(next.rest) <= Cardinality(Gateways),
         payment' = [payment EXCEPT ![p] = next],
         overlapping' \in {overlapping, overlapping \ {p}},
         UNCHANGED <<active, roundRobinCounter, turns, served, jumps, health, alarmed, doubtful,
                     routerLeft>>
  PROVE  RouterInv'
<1>1. RouterTypes /\ TurnsFollow
  BY DEF RouterInv
<1>2. ChecksFollow'
  BY LeavesChecks
<1>3. TurnsFollow'
  BY <1>1 DEF TurnsFollow
<1>4. RouterTypes'
  <2>1. payment' \in [Payments -> {NoPayment} \union Handled]
    BY <1>1 DEF RouterTypes
  <2>2. \A q \in Payments :
          payment'[q].at = "turn" => Len(payment'[q].rest) <= Cardinality(Gateways)
    BY <1>1 DEF RouterTypes
  <2>3. overlapping' \subseteq Payments
    BY <1>1 DEF RouterTypes
  <2> QED BY <1>1, <2>1, <2>2, <2>3 DEF RouterTypes
<1> QED BY <1>2, <1>3, <1>4 DEF RouterInv

\* Every step keeps the turns, the checks and their types.
LEMMA RouterStepInv == RouterInv /\ [RouterNext]_routerVars => RouterInv'
<1> SUFFICES ASSUME RouterInv, [RouterNext]_routerVars PROVE RouterInv'
  OBVIOUS
<1> USE DEF orderVars, turnHistory, healthVars, checkHistory
<1>1. RouterTypes /\ TurnsFollow /\ ChecksFollow
  BY DEF RouterInv
<1>2. UNCHANGED <<active, roundRobinCounter, turns, served, jumps>> => TurnsFollow'
  BY <1>1 DEF TurnsFollow
<1>3. CASE SetActive
  <2>1. /\ turns' = <<>> /\ served' = NoTurns /\ jumps' = 0
        /\ UNCHANGED <<roundRobinCounter, health, alarmed, payment, overlapping, doubtful>>
    BY <1>3 DEF SetActive
  <2>2. active' \subseteq Gateways
    BY <1>1, <1>3 DEF SetActive, RouterTypes
  <2>3. routerLeft' \in [switches : Nat, checks : Nat, restarts : Nat]
    <3>1. routerLeft.switches > 0 /\ routerLeft' = [routerLeft EXCEPT !.switches = @ - 1]
      BY <1>3 DEF SetActive
    <3> QED BY <1>1, <3>1, BoundsGoDown DEF RouterTypes
  <2>4. turns' \in Seq(Gateways) /\ served' \in [Gateways -> Nat] /\ jumps' \in Nat
    BY <2>1 DEF NoTurns
  <2>5. RouterTypes'
    BY <1>1, <2>1, <2>2, <2>3, <2>4, Zenon DEF RouterTypes
  <2>6. Even(NoTurns, <<>>, active', 0)
    BY <2>2 DEF Even, Laps, HadTurn, NoTurns
  <2>7. TurnsFollow'
    BY <2>1, <2>6 DEF TurnsFollow, Follow
  <2>8. ChecksFollow'
    BY <1>1, <2>1 DEF ChecksFollow, OverlapsAreSeen, RowsAreKnown, AlarmsFollow, Checks,
                      Announces, Known
  <2> QED BY <2>5, <2>7, <2>8 DEF RouterInv
<1>4. CASE Restart
  BY <1>4, RestartFollows
<1>5. ASSUME NEW p \in Payments, ListCandidates(p) PROVE RouterInv'
  <2>1. /\ Ascending(active) \in Orders /\ Len(Ascending(active)) <= Cardinality(Gateways)
    <3>1. active \in SUBSET Gateways /\ active # {}
      BY <1>1, <1>5 DEF RouterTypes, ListCandidates
    <3>2. /\ Ascending(active) \in Seq(Gateways)
          /\ Len(Ascending(active)) = Cardinality(active) /\ Cardinality(active) > 0
          /\ Cardinality(active) <= Cardinality(Gateways)
      BY <3>1, AscendingFacts
    <3> QED BY <3>2, SeqFacts DEF Orders
  <2>2. /\ payment' = [payment EXCEPT ![p] = Heading("turn", Ascending(active))]
        /\ payment[p].at = "idle"
        /\ UNCHANGED <<active, roundRobinCounter, turns, served, jumps, health, alarmed,
                       overlapping, doubtful, routerLeft>>
    BY <1>5 DEF ListCandidates, TurnsTo
  <2> QED BY <2>1, <2>2, HeadingTypes, TurnsAway DEF RouterSteps
<1>6. ASSUME NEW p \in Payments, TakeTurn(p) PROVE RouterInv'
  <2>1. /\ TurnsFollow'
        /\ turns' \in Seq(Gateways) /\ served' \in [Gateways -> Nat] /\ jumps' \in Nat
        /\ roundRobinCounter' \in 0..Cardinality(Gateways)
    BY <1>6, TakeTurnFollows
  <2>2. PICK rest \in Orders : payment' = [payment EXCEPT ![p] = Heading("filter", rest)]
    BY <1>6, TakeTurnFollows
  <2>3. /\ payment[p].at = "turn"
        /\ UNCHANGED <<active, health, alarmed, overlapping, doubtful, routerLeft>>
    BY <1>6 DEF TakeTurn
  <2>4. Heading("filter", rest) \in Handled /\ Heading("filter", rest).at = "filter"
    BY HeadingTypes DEF RouterSteps
  <2>5. ChecksFollow'
    BY <2>2, <2>3, <2>4, LeavesChecks
  <2>6. /\ payment' \in [Payments -> {NoPayment} \union Handled]
        /\ \A q \in Payments :
             payment'[q].at = "turn" => Len(payment'[q].rest) <= Cardinality(Gateways)
    BY <1>1, <2>2, <2>4 DEF RouterTypes
  <2>7. RouterTypes'
    BY <1>1, <2>1, <2>3, <2>6, Zenon DEF RouterTypes
  <2> QED BY <2>1, <2>5, <2>7 DEF RouterInv
<1>7. ASSUME NEW p \in Payments, FilterHealthy(p) PROVE RouterInv'
  <2>1. /\ payment' = [payment EXCEPT ![p] = Heading("try", Routable(payment[p].rest))]
        /\ payment[p].at = "filter"
        /\ UNCHANGED <<active, roundRobinCounter, turns, served, jumps, health, alarmed,
                       overlapping, doubtful, routerLeft>>
    BY <1>7 DEF FilterHealthy, TurnsTo
  <2>2. Routable(payment[p].rest) \in Orders
    BY <1>1, <2>1, PaymentTypes, RoutableIsAnOrder
  <2> QED BY <2>1, <2>2, HeadingTypes, TurnsAway DEF RouterSteps
<1>8. ASSUME NEW p \in Payments, Served(p) PROVE RouterInv'
  <2>1. /\ payment' = [payment EXCEPT ![p] = NoPayment]
        /\ payment[p].at = "try"
        /\ UNCHANGED <<active, roundRobinCounter, turns, served, jumps, health, alarmed,
                       overlapping, doubtful, routerLeft>>
    BY <1>8 DEF Served
  <2>2. NoPayment.at = "idle"
    BY DEF NoPayment
  <2> QED BY <2>1, <2>2, TurnsAway
<1>9. ASSUME NEW p \in Payments, Exhausted(p) \/ TestConnection(p) PROVE RouterInv'
  <2>1. PICK rest \in Orders : Check(p, rest) /\ payment[p].at \in {"idle", "try"}
    <3>1. CASE Exhausted(p)
      BY <1>1, <3>1, PaymentTypes DEF Exhausted
    <3>2. CASE TestConnection(p)
      <4>1. PICK g \in Gateways : Check(p, <<g>>) /\ payment[p].at = "idle"
        BY <3>2 DEF TestConnection
      <4>2. <<g>> \in Orders
        BY DEF Orders
      <4> QED BY <4>1, <4>2
    <3> QED BY <1>9, <3>1, <3>2
  <2>2. RouterTypes' /\ ChecksFollow'
    BY <2>1, CheckFollows
  <2>3. UNCHANGED <<active, roundRobinCounter, turns, served, jumps>>
    BY <2>1 DEF Check
  <2> QED BY <1>2, <2>2, <2>3 DEF RouterInv
<1>10. ASSUME NEW p \in Payments, AskGateway(p) PROVE RouterInv'
  <2>1. UNCHANGED <<active, roundRobinCounter, turns, served, jumps>>
    BY <1>10 DEF AskGateway
  <2> QED BY <1>2, <1>10, <2>1, AskFollows DEF RouterInv
<1>11. ASSUME NEW p \in Payments, CheckThrows(p) PROVE RouterInv'
  <2>1. /\ payment[p].at = "check" /\ overlapping' = overlapping \ {p}
        /\ UNCHANGED <<active, roundRobinCounter, turns, served, jumps, health, alarmed,
                       doubtful, routerLeft>>
    BY <1>11 DEF CheckThrows
  <2>2. PICK next \in {NoPayment} \union Handled :
          payment' = [payment EXCEPT ![p] = next] /\ next.at \in {"idle", "try"}
    BY <1>1, <1>11, <2>1, GoesOnTypes DEF CheckThrows
  <2> QED BY <2>1, <2>2, TurnsAway
<1>12. ASSUME NEW p \in Payments, Announce(p) PROVE RouterInv'
  <2>1. UNCHANGED <<active, roundRobinCounter, turns, served, jumps>>
    BY <1>12 DEF Announce
  <2> QED BY <1>2, <1>12, <2>1, AnnounceFollows DEF RouterInv
<1>13. CASE UNCHANGED routerVars
  <2>1. UNCHANGED <<active, roundRobinCounter, turns, served, jumps, health, alarmed, payment,
                    overlapping, doubtful, routerLeft>>
    BY <1>13 DEF routerVars
  <2>2. RouterTypes'
    BY <1>1, <2>1, Zenon DEF RouterTypes
  <2>3. ChecksFollow'
    BY <1>1, <2>1 DEF ChecksFollow, OverlapsAreSeen, RowsAreKnown, AlarmsFollow, Checks,
                      Announces, Known
  <2> QED BY <1>2, <2>1, <2>2, <2>3 DEF RouterInv
<1> QED BY <1>3, <1>4, <1>5, <1>6, <1>7, <1>8, <1>9, <1>10, <1>11, <1>12, <1>13 DEF RouterNext
-----------------------------------------------------------------------------
\* The inductive invariant holds for any credentials and payments, and however
\* the listing of candidates, the counter, checks and alarms interleave.
THEOREM RouterInvariance == RouterSpec => []RouterInv
BY InitRouterInv, RouterStepInv, PTL DEF RouterSpec

\* While the active gateways stay the same, none has a second turn in a round,
\* and none gets ahead of another by more than a turn for each time that the
\* counter was upset, and one.
THEOREM TurnsAreFair == RouterSpec => []RoundRobinIsFair
<1>1. ASSUME RouterInv PROVE RoundRobinIsFair
  <2>1. /\ active \in SUBSET Gateways /\ turns \in Seq(Gateways)
        /\ roundRobinCounter \in Nat /\ served \in [Gateways -> Nat] /\ jumps \in Nat
        /\ Follow(turns, roundRobinCounter, active) /\ Even(served, turns, active, jumps)
    <3>1. Cardinality(Gateways) \in Nat
      BY GatewaysAssumption, FS_CardinalityType
    <3> QED BY <1>1, <3>1 DEF RouterInv, RouterTypes, TurnsFollow
  <2>2. \A i, j \in DOMAIN turns : turns[i] = turns[j] => i = j
    BY <2>1, TurnsDiffer
  <2>3. \A g, h \in active : served[g] <= served[h] + 1 + jumps
    BY <2>1, EvenIsFair
  <2> QED BY <2>2, <2>3 DEF RoundRobinIsFair
<1> QED BY <1>1, RouterInvariance, PTL

\* The last alarm about each gateway agrees with its last health row, once that
\* row's own alarm is out, unless checks of the gateway overlapped or a process
\* died before an alarm that was due.
THEOREM AlarmsStayCurrent == RouterSpec => []AlarmsAreCurrent
<1>1. ASSUME RouterInv, NEW g \in Gateways \ doubtful,
             \A p \in Payments : Checks(p, g) => payment[p].at = "check"
      PROVE  g \in alarmed <=> health[g] = "OFFLINE"
  <2>1. \A p \in Payments : ~ Announces(p, g)
    BY <1>1 DEF Announces, Checks
  <2> QED BY <1>1, <2>1 DEF RouterInv, ChecksFollow, AlarmsFollow
<1>2. RouterInv => AlarmsAreCurrent
  BY <1>1 DEF AlarmsAreCurrent
<1> QED BY <1>2, RouterInvariance, PTL

\* The router's state has the types its actions expect, and no more turns are
\* remembered than there are gateways.
THEOREM RouterTypeCorrect == RouterSpec => []RouterTypeOK
<1>1. ASSUME RouterInv PROVE RouterTypeOK
  <2>1. \A p \in Payments :
           /\ payment[p].at \in {"idle", "turn", "filter", "try", "check", "announce"}
           /\ payment[p].rest \in Seq(Gateways)
           /\ payment[p].previous \in Statuses /\ payment[p].status \in Statuses
    <3>1. NoPayment.rest \in Seq(Gateways) /\ NoPayment.previous \in Statuses
            /\ NoPayment.status \in Statuses
      BY EmptySeq DEF NoPayment, Statuses
    <3> QED BY <1>1, <3>1, PaymentTypes DEF RouterInv, Handled, RouterSteps, Orders
  <2>2. Len(turns) <= Cardinality(Gateways)
    <3>1. /\ Cardinality(Gateways) \in Nat /\ Cardinality(active) <= Cardinality(Gateways)
          /\ Cardinality(active) \in Nat /\ turns \in Seq(Gateways)
      BY <1>1, AscendingFacts DEF RouterInv, RouterTypes
    <3>2. CASE turns = <<>>
      BY <3>1, <3>2
    <3>3. CASE turns # <<>>
      <4>1. Len(turns) <= Cardinality(active) /\ Len(turns) \in Nat
        BY <1>1, <3>1, <3>3, SeqFacts DEF RouterInv, TurnsFollow, Follow
      <4> QED BY <3>1, <4>1
    <3> QED BY <3>2, <3>3
  <2> QED BY <1>1, <2>1, <2>2 DEF RouterInv, RouterTypes, RouterTypeOK, Statuses
<1> QED BY <1>1, RouterInvariance, PTL

-----------------------------------------------------------------------------
(* The types of the configuration, the notices and the invitations.        *)

\* A set of numbers that has a bound has a greatest.
LEMMA GreatestOfThem ==
  ASSUME NEW n \in Nat, NEW S \in SUBSET (0..n), S # {}
  PROVE  \E v \in S : \A w \in S : w <= v
<1>1. IsFiniteSet(S) /\ S \subseteq Nat
  <2>1. IsFiniteSet(0..n)
    BY FS_Interval
  <2>2. IsFiniteSet(S)
    BY <2>1, FS_Subset
  <2> QED
    BY <2>2
<1>2. PICK c : c = Cardinality(S)
  OBVIOUS
<1>3. PICK v \in S : Rank(S, v) = c
  <2>1. c \in Nat /\ c # 0
    BY <1>1, <1>2, FS_CardinalityType, FS_EmptySet
  <2>2. c \in 1..c
    BY <2>1
  <2> QED
    BY <1>1, <1>2, <2>2, EveryRankIsHeld
<1>4. {w \in S : w <= v} = S
  BY <1>1, <1>2, <1>3, FS_Subset DEF Rank
<1> QED
  BY <1>4

\* The draft is a version, or none; of several it is the newest.
LEMMA DraftIsAVersion == ASSUME versions \in Seq(Row) PROVE Draft \in 0..Len(versions)
<1> DEFINE drafts == WithStatus("DRAFT")
<1>1. Len(versions) \in Nat /\ drafts \in SUBSET (0..Len(versions))
  BY DEF WithStatus
<1>2. CASE drafts = {}
  BY <1>1, <1>2 DEF Draft
<1>3. CASE drafts # {}
  <2> HIDE DEF drafts
  <2>1. \E v \in drafts : \A w \in drafts : w <= v
    BY <1>1, <1>3, GreatestOfThem
  <2> QED
    BY <1>1, <1>3, <2>1 DEF Draft, drafts
<1> QED
  BY <1>2, <1>3

EditSet ==
  [at : {"idle", "latest", "create", "update", "archive", "mark"},
   target : 0..MaxVersions + 1, valid : BOOLEAN]

ConfigBounds ==
  /\ versions \in Seq(Row) /\ Len(versions) \in 1..MaxVersions
  /\ editing \in [Admins -> EditSet]
  /\ overlapped \in BOOLEAN /\ configDeaths \in 0..MaxConfigDeaths

\* One version, and nobody at work on it.
LEMMA InitConfigBounds == ConfigInit => ConfigBounds
<1> SUFFICES ASSUME ConfigInit PROVE ConfigBounds
  OBVIOUS
<1>1. versions \in Seq(Row) /\ Len(versions) = 1
  BY DEF ConfigInit, Row
<1>2. editing \in [Admins -> EditSet]
  BY ConfigAssumption DEF ConfigInit, NoEdit, EditSet
<1> QED
  <2>1. /\ Len(versions) \in 1..MaxVersions
        /\ overlapped = FALSE /\ configDeaths \in 0..MaxConfigDeaths
    BY <1>1, ConfigAssumption DEF ConfigInit
  <2> QED
    BY <1>1, <1>2, <2>1 DEF ConfigBounds

\* Whatever calls overlap, no call works on a version beyond the next, and no
\* write makes a row of what was none.
LEMMA ConfigStaysBounded == ConfigBounds /\ [ConfigNext]_configVars => ConfigBounds'
<1> SUFFICES ASSUME ConfigBounds, [ConfigNext]_configVars PROVE ConfigBounds'
  OBVIOUS
<1>1. /\ versions \in Seq(Row) /\ Len(versions) \in 1..MaxVersions
      /\ DOMAIN versions = 1..Len(versions) /\ \A v \in DOMAIN versions : versions[v] \in Row
      /\ editing \in [Admins -> EditSet]
      /\ overlapped \in BOOLEAN /\ configDeaths \in 0..MaxConfigDeaths
      /\ MaxVersions \in Nat \ {0} /\ MaxConfigDeaths \in Nat
  BY ConfigAssumption DEF ConfigBounds
<1>2. ASSUME NEW a \in Admins, NEW edit \in EditSet,
             editing' = [editing EXCEPT ![a] = edit]
      PROVE  editing' \in [Admins -> EditSet]
  BY <1>1, <1>2
<1>3. NoEdit \in EditSet
  BY <1>1 DEF NoEdit, EditSet
<1>4. ASSUME NEW a \in Admins, NEW edit \in EditSet, Begin(a, edit) PROVE ConfigBounds'
  <2>1. UNCHANGED versions /\ overlapped' \in BOOLEAN /\ UNCHANGED configDeaths
    BY <1>1, <1>4 DEF Begin
  <2>2. editing' \in [Admins -> EditSet]
    BY <1>2, <1>4 DEF Begin
  <2> QED
    BY <1>1, <2>1, <2>2 DEF ConfigBounds
<1>5. ASSUME NEW a \in Admins, NEW from, NEW edit \in EditSet, Goes(a, from, edit),
             versions' \in Seq(Row), Len(versions') \in 1..MaxVersions
      PROVE  ConfigBounds'
  <2>1. editing' \in [Admins -> EditSet] /\ UNCHANGED <<overlapped, configDeaths>>
    BY <1>2, <1>5 DEF Goes
  <2> QED
    BY <1>1, <1>5, <2>1 DEF ConfigBounds
<1>6. ASSUME NEW a \in Admins, UpsertDraft(a) \/ Restore(a) PROVE ConfigBounds'
  <2>1. PICK valid \in BOOLEAN : Edit(a, valid)
    BY <1>1, <1>6 DEF UpsertDraft, Restore, Row
  <2> DEFINE edit == [at |-> IF Draft = 0 THEN "latest" ELSE "update",
                      target |-> Draft, valid |-> valid]
  <2>2. Draft \in 0..MaxVersions + 1
    BY <1>1, DraftIsAVersion
  <2>3. edit \in EditSet
    BY <2>2 DEF EditSet
  <2>4. Begin(a, edit)
    BY <2>1 DEF Edit
  <2> HIDE DEF edit
  <2> QED
    BY <1>4, <2>3, <2>4
<1>7. ASSUME NEW a \in Admins, FindLatest(a) PROVE ConfigBounds'
  <2> DEFINE edit == [at |-> "create", target |-> Len(versions) + 1, valid |-> editing[a].valid]
  <2>1. edit \in EditSet
    BY <1>1 DEF EditSet
  <2>2. Goes(a, "latest", edit) /\ UNCHANGED versions
    BY <1>7 DEF FindLatest
  <2> HIDE DEF edit
  <2> QED
    BY <1>1, <1>5, <2>1, <2>2
<1>8. ASSUME NEW a \in Admins, CreateDraft(a) PROVE ConfigBounds'
  <2>1. /\ Len(versions) < MaxVersions /\ Goes(a, "create", NoEdit)
        /\ \/ versions' = versions
           \/ versions' = Append(versions, [status |-> "DRAFT", valid |-> editing[a].valid])
    BY <1>8 DEF CreateDraft
  <2>2. [status |-> "DRAFT", valid |-> editing[a].valid] \in Row
    BY <1>1 DEF EditSet, Row
  <2>3. versions' \in Seq(Row) /\ Len(versions') \in 1..MaxVersions
    BY <1>1, <2>1, <2>2
  <2> QED
    BY <1>3, <1>5, <2>1, <2>3
<1>9. ASSUME NEW f, DOMAIN f = DOMAIN versions, f = [v \in DOMAIN f |-> f[v]],
             \A v \in DOMAIN f : f[v] \in Row
      PROVE  f \in Seq(Row) /\ Len(f) \in 1..MaxVersions
  <2>1. f \in [1..Len(versions) -> Row]
    BY <1>1, <1>9
  <2>2. f \in Seq(Row)
    BY <1>1, <2>1
  <2>3. Len(f) = Len(versions)
    BY <1>1, <1>9, <2>2
  <2> QED
    BY <1>1, <2>2, <2>3
<1>10. ASSUME NEW a \in Admins, UpdateDraft(a) PROVE ConfigBounds'
  <2>1. Goes(a, "update", NoEdit)
    BY <1>10 DEF UpdateDraft
  <2>2. versions' = [versions EXCEPT ![editing[a].target].valid = editing[a].valid]
    BY <1>10 DEF UpdateDraft
  <2>3. \A v \in DOMAIN versions' : versions'[v] \in Row
    BY <1>1, <2>2 DEF Row, EditSet
  <2>4. DOMAIN versions' = DOMAIN versions /\ versions' = [v \in DOMAIN versions' |-> versions'[v]]
    BY <2>2
  <2> QED
    BY <1>3, <1>5, <1>9, <2>1, <2>3, <2>4
<1>11. ASSUME NEW a \in Admins, Activate(a) PROVE ConfigBounds'
  <2>1. PICK v \in DOMAIN versions : Begin(a, [at |-> "archive", target |-> v, valid |-> TRUE])
    BY <1>11 DEF Activate
  <2>2. [at |-> "archive", target |-> v, valid |-> TRUE] \in EditSet
    BY <1>1 DEF EditSet
  <2> QED
    BY <1>4, <2>1, <2>2
<1>12. ASSUME NEW a \in Admins, Archive(a) PROVE ConfigBounds'
  <2> DEFINE edit == [at |-> "mark", target |-> editing[a].target, valid |-> TRUE]
  <2>1. edit \in EditSet
    BY <1>1 DEF EditSet
  <2>2. Goes(a, "archive", edit) /\ versions' = ArchiveActive
    BY <1>12 DEF Archive
  <2>3. \A v \in DOMAIN versions' : versions'[v] \in Row
    BY <1>1, <2>2 DEF Row, ArchiveActive
  <2>4. DOMAIN versions' = DOMAIN versions /\ versions' = [v \in DOMAIN versions' |-> versions'[v]]
    BY <2>2 DEF ArchiveActive
  <2> HIDE DEF edit
  <2> QED
    BY <1>5, <1>9, <2>1, <2>2, <2>3, <2>4
<1>13. ASSUME NEW a \in Admins, Mark(a) PROVE ConfigBounds'
  <2>1. Goes(a, "mark", NoEdit) /\ versions' = MarkActive(editing[a].target)
    BY <1>13 DEF Mark
  <2>2. \A v \in DOMAIN versions' : versions'[v] \in Row
    BY <1>1, <2>1 DEF Row, MarkActive
  <2>3. DOMAIN versions' = DOMAIN versions /\ versions' = [v \in DOMAIN versions' |-> versions'[v]]
    BY <2>1 DEF MarkActive
  <2> QED
    BY <1>3, <1>5, <1>9, <2>1, <2>2, <2>3
<1>14. ASSUME NEW a \in Admins, EditDies(a) PROVE ConfigBounds'
  <2>1. /\ editing' = [editing EXCEPT ![a] = NoEdit] /\ configDeaths' \in 0..MaxConfigDeaths
        /\ UNCHANGED <<versions, overlapped>>
    BY <1>1, <1>14 DEF EditDies
  <2> QED
    BY <1>1, <1>2, <1>3, <2>1 DEF ConfigBounds
<1>15. CASE UNCHANGED configVars
  BY <1>15 DEF configVars, ConfigBounds
<1> QED
  BY <1>6, <1>7, <1>8, <1>10, <1>11, <1>12, <1>13, <1>14, <1>15 DEF ConfigNext

\* Whatever calls overlap, a call works on a version there is, or the next.
THEOREM ConfigTypeCorrect == ConfigSpec => []ConfigTypeOK
<1>1. ConfigBounds => ConfigTypeOK
  BY DEF ConfigBounds, ConfigTypeOK, EditSet, Row
<1> QED
  BY InitConfigBounds, ConfigStaysBounded, <1>1, PTL DEF ConfigSpec

PushBounds ==
  /\ browser \in 0..MaxEndpoints /\ pushDeaths \in 0..MaxPushDeaths
  /\ taken \subseteq Notices /\ skipped \subseteq Notices

\* No more endpoints and deaths than their bounds, and only notices are sent or
\* skipped.
LEMMA PushStaysBounded == PushBounds /\ [PushNext]_pushVars => PushBounds'
<1> SUFFICES ASSUME PushBounds, [PushNext]_pushVars PROVE PushBounds'
  OBVIOUS
<1> USE NoticesAssumption DEF PushBounds, failVars
<1>1. CASE EndpointLost
  BY <1>1 DEF EndpointLost
<1>2. CASE Subscribe \/ Unsubscribe \/ UNCHANGED pushVars
  BY <1>2 DEF Subscribe, Unsubscribe, pushVars, deviceVars
<1>3. ASSUME NEW n \in Notices, DispatcherDies(n) \/ WorkerDies(n) PROVE PushBounds'
  BY <1>3 DEF DispatcherDies, WorkerDies, Dies, deviceVars
<1>4. ASSUME NEW n \in Notices, TakeJob(n) \/ Send(n) PROVE PushBounds'
  BY <1>4 DEF TakeJob, Send, deviceVars
<1>5. ASSUME NEW n \in Notices,
             \/ Dispatch(n) \/ CreateLog(n) \/ Enqueue(n) \/ Record(n) \/ MarkExpired(n)
             \/ RunThrows(n) \/ HandToDeadLetters(n)
             \/ ReadDelivered(n) \/ MarkDelivered(n) \/ MarkClicked(n)
      PROVE  PushBounds'
  BY <1>5 DEF Dispatch, CreateLog, Enqueue, Record, MarkExpired, RunThrows, HandToDeadLetters,
    ReadDelivered, MarkDelivered, MarkClicked, deviceVars
<1> QED
  BY <1>1, <1>2, <1>3, <1>4, <1>5 DEF PushNext

\* What a job or a subscription holds of an endpoint is one the browser has had.
THEOREM PushTypeCorrect == PushSpec => []PushTypeOK
<1>1. PushInit => PushBounds
  BY NoticesAssumption DEF PushInit, PushBounds
<1>2. PushInv /\ PushBounds => PushTypeOK
  <2> SUFFICES ASSUME PushInv, PushBounds PROVE PushTypeOK
    OBVIOUS
  <2>1. PushTypes /\ EndpointsAge
    BY DEF PushInv
  <2>2. subscription.endpoint \in 0..MaxEndpoints
    BY <2>1, NoticesAssumption DEF PushTypes, EndpointsAge, PushBounds
  <2>3. ASSUME NEW n \in Notices PROVE job[n] \in Jobs /\ job[n].endpoint \in 0..MaxEndpoints
    BY <2>1, NoticesAssumption DEF PushTypes, EndpointsAge, PushBounds, Jobs
  <2>4. subscription \in
          [status : {"ACTIVE", "EXPIRED", "REVOKED"}, endpoint : 0..MaxEndpoints]
    BY <2>1, <2>2 DEF PushTypes
  <2> QED
    BY <2>1, <2>3, <2>4 DEF PushTypes, PushBounds, PushTypeOK, Jobs
<1> QED
  BY <1>1, <1>2, PushStaysBounded, PushInvariance, PTL DEF PushSpec

InviteBounds == expired \subseteq Invites /\ inviteDeaths \in 0..MaxInviteDeaths

\* Only invitations expire, and no more calls die than the bound says.
LEMMA InvitesStayBounded == InviteBounds /\ [InvitesNext]_inviteVars => InviteBounds'
<1> SUFFICES ASSUME InviteBounds, [InvitesNext]_inviteVars PROVE InviteBounds'
  OBVIOUS
<1> USE InvitesAssumption DEF InviteBounds
<1>1. ASSUME NEW i \in Invites, InviteExpires(i) PROVE InviteBounds'
  BY <1>1 DEF InviteExpires
<1>2. ASSUME NEW k \in Clerks, ClerkDies(k) PROVE InviteBounds'
  BY <1>2 DEF ClerkDies
<1>3. ASSUME NEW k \in Clerks, NEW step, NEW i \in Invites, Starts(k, step, i) PROVE InviteBounds'
  BY <1>3 DEF Starts
<1>4. ASSUME NEW k \in Clerks, NEW from, NEW call, Continues(k, from, call) PROVE InviteBounds'
  BY <1>4 DEF Continues
<1>5. ASSUME NEW k \in Clerks,
             \/ CreateAccount(k) \/ MarkAccepted(k) \/ Promote(k) \/ CreateProfile(k)
             \/ MarkApproved(k) \/ MarkRejected(k) \/ RotateToken(k) \/ MarkRevoked(k)
      PROVE  InviteBounds'
  BY <1>4, <1>5 DEF CreateAccount, MarkAccepted, Promote, CreateProfile, MarkApproved,
    MarkRejected, RotateToken, MarkRevoked
<1>6. ASSUME NEW k \in Clerks, NEW i \in Invites,
             Accept(k, i) \/ Approve(k, i) \/ Reject(k, i) \/ Regenerate(k, i) \/ Revoke(k, i)
      PROVE  InviteBounds'
  BY <1>3, <1>6 DEF Accept, Approve, Reject, Regenerate, Revoke
<1>7. CASE UNCHANGED inviteVars
  BY <1>7 DEF inviteVars
<1> QED
  BY <1>1, <1>2, <1>5, <1>6, <1>7 DEF InvitesNext

\* Whoever a call or a row names is an invitation or a candidate, or nobody.
THEOREM InvitesTypeCorrect == InvitesSpec => []InvitesTypeOK
<1>1. InvitesInit => InviteBounds
  BY InvitesAssumption DEF InvitesInit, InviteBounds
<1>2. InvitesInv /\ InviteBounds => InvitesTypeOK
  <2> SUFFICES ASSUME InvitesInv, InviteBounds PROVE InvitesTypeOK
    OBVIOUS
  <2>1. \A k \in Clerks : clerk[k] \in Calls
    BY DEF InvitesInv, InvitesTypes
  <2> QED
    BY <2>1 DEF InvitesInv, InvitesTypes, InviteBounds, InvitesTypeOK, Calls, Steps, Rows
<1> QED
  BY <1>1, <1>2, InvitesStayBounded, InvitesInvariance, PTL DEF InvitesSpec
-----------------------------------------------------------------------------
(* Office: what holds of each service by itself holds of them together.    *)

\* They begin together.
LEMMA ServicesBegin ==
  OfficeInit =>
    /\ SessionsInit /\ SignInInit /\ ConfigInit /\ InvitesInit
    /\ EventsInit /\ PromotionsInit /\ RouterInit /\ PushInit /\ AccountsInit
BY DEF OfficeInit

\* A step of Office is a step of one of them, and leaves what the others keep.
LEMMA OneServiceSteps ==
  [OfficeNext]_officeVars =>
    /\ [SessionsNext]_sessionVars /\ [SignInNext]_signInVars
    /\ [ConfigNext]_configVars /\ [InvitesNext]_inviteVars
    /\ [PromotionsNext \/ (EventsNext /\ UNCHANGED handling)]_<<moneyVars, busVars, handling>>
    /\ [RouterNext]_routerVars /\ [PushNext]_pushVars /\ [AccountsNext]_accountsVars
BY DEF OfficeNext, officeVars, promotionVars, InSessions, InSignIn, InGameConfig, InInvites,
  InPromotions, InRouter, InPush, InAccounts

\* Office implements the specification of each of its services.
THEOREM OfficeRunsItsServices ==
  OfficeSpec => /\ SessionsSpec /\ SignInSpec /\ ConfigSpec /\ InvitesSpec
                /\ PromotionsSpec /\ RouterSpec /\ PushSpec /\ AccountsSpec
BY ServicesBegin, OneServiceSteps, PTL
DEF OfficeSpec, SessionsSpec, SignInSpec, ConfigSpec, InvitesSpec, PromotionsSpec, RouterSpec,
  PushSpec, AccountsSpec

\* Every safety property that the services have by themselves, they have in
\* Office.
THEOREM OfficeIsSound ==
  OfficeSpec => /\ DeadFamiliesStayDead
                /\ [](SignInIsBounded /\ VersionsAreSound /\ ManagersAreSound)
                /\ [](OneBonusPerPlayer /\ RoundRobinIsFair /\ AlarmsAreCurrent)
                /\ [](NoticesAreAccountedFor /\ IdentitiesAreSafe)
BY OfficeRunsItsServices, RevokedFamiliesStayRevoked, SignInAlwaysBounded, MatchesHaveARulebook,
   ManagersAreMadeWhole, OneBonusAtMost, TurnsAreFair, AlarmsStayCurrent,
   EveryNoticeIsAccountedFor, NobodyIsLockedOut, PTL

\* The types of all of them.
THEOREM OfficeTypeCorrect == OfficeSpec => []OfficeTypeOK
<1>1. OfficeInit => service \in Services
  BY DEF OfficeInit
<1>2. service \in Services /\ [OfficeNext]_officeVars => (service \in Services)'
  BY DEF OfficeNext, officeVars, InSessions, InSignIn, InGameConfig, InInvites, InPromotions,
    InRouter, InPush, InAccounts
<1>3. OfficeSpec => [](service \in Services)
  BY <1>1, <1>2, PTL DEF OfficeSpec
<1>4. SignInSpec => []SignInTypeOK
  <2>1. SignInInv => SignInTypeOK
    BY DEF SignInInv
  <2> QED
    BY <2>1, SignInInvariance, PTL
<1>5. PromotionsSpec => [](EventsTypeOK /\ PromotionsTypeOK)
  <2>1. BonusInv => EventsTypeOK /\ PromotionsTypeOK
    BY DEF BonusInv, BonusTypes
  <2> QED
    BY <2>1, InitBonusInv, BonusStepInv, PTL DEF PromotionsSpec
<1>6. AccountsSpec => []AccountsTypeOK
  <2>1. AccountsInv => AccountsTypeOK
    BY DEF AccountsInv
  <2> QED
    BY <2>1, AccountsInvariance, PTL
<1>7. (/\ service \in Services
       /\ SessionsTypeOK /\ SignInTypeOK /\ ConfigTypeOK /\ InvitesTypeOK
       /\ EventsTypeOK /\ PromotionsTypeOK /\ RouterTypeOK /\ PushTypeOK /\ AccountsTypeOK)
        => OfficeTypeOK
  BY DEF OfficeTypeOK
<1> QED
  BY <1>3, <1>4, <1>5, <1>6, <1>7, OfficeRunsItsServices, SessionsTypeCorrect, ConfigTypeCorrect,
     InvitesTypeCorrect, RouterTypeCorrect, PushTypeCorrect, PTL
=============================================================================
