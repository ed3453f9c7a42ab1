--------------------------- MODULE ManagerInvites ---------------------------
(***************************************************************************)
(* ManagerInviteService: how a user becomes a manager.  An administrator's *)
(* invitation is accepted by a candidate, whose account it creates, and an *)
(* administrator approves or rejects the candidate.  Every operation reads *)
(* the invitation and updates it by id in later statements; nothing but    *)
(* the unique columns of ManagerProfile holds two of them apart.           *)
(***************************************************************************)
EXTENDS Naturals

CONSTANTS
  Invites,
  Candidates,     \* accounts that acceptances may create
  Clerks,         \* calls that may be handled at one time
  MaxInviteDeaths, \* bound: calls whose process dies
  Nobody

ASSUME InvitesAssumption == MaxInviteDeaths \in Nat /\ Nobody \notin Invites \union Candidates

VARIABLES
  invite,      \* [Invites -> [status, approval, acceptedBy]]
  expired,     \* invitations whose expiresAt has passed
  createdBy,   \* the invitation that created a candidate's account, or Nobody
  managers,    \* candidates whose role is MANAGER
  profile,     \* ManagerProfile.inviteId of a candidate, Nobody without a profile
  clerk,       \* [Clerks -> [at, invite, user]]
  crossed,     \* history: two calls have been under way at once
  inviteDeaths

accountVars == <<createdBy, managers, profile>>
inviteVars == <<invite, expired, accountVars, clerk, crossed, inviteDeaths>>

NoCall == [at |-> "idle", invite |-> Nobody, user |-> Nobody]

InvitesInit ==
  /\ invite = [i \in Invites |-> [status |-> "ACTIVE", approval |-> "none", acceptedBy |-> Nobody]]
  /\ expired = {}
  /\ createdBy = [u \in Candidates |-> Nobody]
  /\ managers = {}
  /\ profile = [u \in Candidates |-> Nobody]
  /\ clerk = [k \in Clerks |-> NoCall]
  /\ crossed = FALSE /\ inviteDeaths = 0

Starts(k, step, i) ==
  /\ clerk[k].at = "idle"
  /\ clerk' = [clerk EXCEPT ![k] = [at |-> step, invite |-> i, user |-> invite[i].acceptedBy]]
  /\ crossed' = (crossed \/ \E l \in Clerks \ {k} : clerk[l].at # "idle")
  /\ UNCHANGED <<invite, expired, accountVars, inviteDeaths>>

Continues(k, from, call) ==
  /\ clerk[k].at = from
  /\ clerk' = [clerk EXCEPT ![k] = call]
  /\ UNCHANGED <<expired, crossed, inviteDeaths>>

The(k) == clerk[k].invite
-----------------------------------------------------------------------------
Redeemable(i) == invite[i].status = "ACTIVE" /\ i \notin expired

\* accept, with the token the row holds now.
Accept(k, i) == Redeemable(i) /\ Starts(k, "account", i)

\* userManagementService.create commits on its own.
CreateAccount(k) ==
  \E u \in Candidates :
    /\ createdBy[u] = Nobody
    /\ Continues(k, "account", [at |-> "accepted", invite |-> The(k), user |-> u])
    /\ createdBy' = [createdBy EXCEPT ![u] = The(k)]
    /\ UNCHANGED <<invite, managers, profile>>

MarkAccepted(k) ==
  /\ Continues(k, "accepted", NoCall)
  /\ invite' = [invite EXCEPT ![The(k)] =
       [status |-> "USED", approval |-> "PENDING_REVIEW", acceptedBy |-> clerk[k].user]]
  /\ UNCHANGED accountVars
-----------------------------------------------------------------------------
\* Mutant: an invitation that was not accepted can be decided.
UnderReviewOrNew(i) == invite[i].approval \in {"none", "PENDING_REVIEW"}

UnderReview(i) == invite[i].approval = "PENDING_REVIEW" /\ invite[i].acceptedBy # Nobody

Approve(k, i) == UnderReview(i) /\ Starts(k, "promote", i)

\* Mutant: the profile is left to be created when the manager first asks for
\* it.
PromoteOnly(k) ==
  /\ Continues(k, "promote", [clerk[k] EXCEPT !.at = "approved"])
  /\ managers' = managers \union {clerk[k].user}
  /\ UNCHANGED <<invite, createdBy, profile>>

Promote(k) ==
  /\ Continues(k, "promote", [clerk[k] EXCEPT !.at = "profile"])
  /\ managers' = managers \union {clerk[k].user}
  /\ UNCHANGED <<invite, createdBy, profile>>

\* userId and inviteId are unique: a second profile fails, and the call with it.
ProfileConflicts(k) == profile[clerk[k].user] # Nobody \/ \E u \in Candidates : profile[u] = The(k)

CreateProfile(k) ==
  /\ Continues(k, "profile",
       IF ProfileConflicts(k) THEN NoCall ELSE [clerk[k] EXCEPT !.at = "approved"])
  /\ profile' = IF ProfileConflicts(k) THEN profile
                ELSE [profile EXCEPT ![clerk[k].user] = The(k)]
  /\ UNCHANGED <<invite, createdBy, managers>>

MarkApproved(k) ==
  /\ Continues(k, "approved", NoCall)
  /\ invite' = [invite EXCEPT ![The(k)].approval = "APPROVED"]
  /\ UNCHANGED accountVars

Reject(k, i) == UnderReview(i) /\ Starts(k, "rejected", i)

MarkRejected(k) ==
  /\ Continues(k, "rejected", NoCall)
  /\ invite' = [invite EXCEPT ![The(k)].approval = "REJECTED"]
  /\ UNCHANGED accountVars
-----------------------------------------------------------------------------
Regenerate(k, i) == invite[i].status # "USED" /\ Starts(k, "rotate", i)

\* The invitation is active again, whatever it has become.
RotateToken(k) ==
  /\ Continues(k, "rotate", NoCall)
  /\ invite' = [invite EXCEPT ![The(k)].status = "ACTIVE"]
  /\ UNCHANGED accountVars

Revoke(k, i) == invite[i].status # "USED" /\ Starts(k, "revoke", i)

MarkRevoked(k) ==
  /\ Continues(k, "revoke", NoCall)
  /\ invite' = [invite EXCEPT ![The(k)].status = "REVOKED"]
  /\ UNCHANGED accountVars

InviteExpires(i) ==
  /\ i \notin expired
  /\ expired' = expired \union {i}
  /\ UNCHANGED <<invite, accountVars, clerk, crossed, inviteDeaths>>

ClerkDies(k) ==
  /\ clerk[k].at # "idle"
  /\ inviteDeaths < MaxInviteDeaths
  /\ inviteDeaths' = inviteDeaths + 1
  /\ clerk' = [clerk EXCEPT ![k] = NoCall]
  /\ UNCHANGED <<invite, expired, accountVars, crossed>>

InvitesNext ==
  \/ \E i \in Invites : InviteExpires(i)
  \/ \E k \in Clerks :
       \/ CreateAccount(k) \/ MarkAccepted(k) \/ Promote(k) \/ CreateProfile(k)
       \/ MarkApproved(k) \/ MarkRejected(k) \/ RotateToken(k) \/ MarkRevoked(k) \/ ClerkDies(k)
       \/ \E i \in Invites :
            Accept(k, i) \/ Approve(k, i) \/ Reject(k, i) \/ Regenerate(k, i) \/ Revoke(k, i)

InvitesSpec == InvitesInit /\ [][InvitesNext]_inviteVars
-----------------------------------------------------------------------------
InvitesTypeOK ==
  /\ invite \in [Invites ->
       [status : {"ACTIVE", "USED", "REVOKED"},
        approval : {"none", "PENDING_REVIEW", "APPROVED", "REJECTED"},
        acceptedBy : Candidates \union {Nobody}]]
  /\ expired \subseteq Invites /\ managers \subseteq Candidates
  /\ createdBy \in [Candidates -> Invites \union {Nobody}]
  /\ profile \in [Candidates -> Invites \union {Nobody}]
  /\ \A k \in Clerks :
       /\ clerk[k].at \in {"idle", "account", "accepted", "promote", "profile", "approved",
                           "rejected", "rotate", "revoke"}
       /\ clerk[k].invite \in Invites \union {Nobody}
       /\ clerk[k].user \in Candidates \union {Nobody}
  /\ crossed \in BOOLEAN /\ inviteDeaths \in 0..MaxInviteDeaths

Accounts(i) == {u \in Candidates : createdBy[u] = i}

\* Whatever calls race or die: an invitation shown as approved has a manager's
\* profile behind it, of an account it created.
ApprovedHasProfile ==
  \A i \in Invites :
    invite[i].approval = "APPROVED" => \E u \in Accounts(i) : profile[u] = i /\ u \in managers

\* A manager has a profile, unless the approval is under way or died, or the
\* invitation was accepted twice: then the second candidate cannot have one.
ManagersHaveProfiles ==
  \A u \in managers :
    \/ profile[u] = createdBy[u]
    \/ \E k \in Clerks : clerk[k].at = "profile" /\ clerk[k].user = u
    \/ inviteDeaths > 0
    \/ \E v \in Candidates \ {u} : createdBy[v] = createdBy[u]

\* As long as no call overlapped another or died, an invitation creates one
\* account, and its verdict decides who is a manager.
SerialVerdictsStand ==
  ~ crossed /\ inviteDeaths = 0 /\ (\A k \in Clerks : clerk[k].at = "idle") =>
    \A i \in Invites :
      /\ Accounts(i) = {invite[i].acceptedBy} \ {Nobody}
      /\ Accounts(i) \intersect managers # {} <=> invite[i].approval = "APPROVED"

\* What makes a manager hangs together, though none of its steps is held
\* together with another by a transaction.
ManagersAreSound == ApprovedHasProfile /\ ManagersHaveProfiles /\ SerialVerdictsStand
=============================================================================
