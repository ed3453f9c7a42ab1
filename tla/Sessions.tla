------------------------------ MODULE Sessions ------------------------------
(***************************************************************************)
(* The refresh tokens of one user and what ends them.  A login starts a    *)
(* family of sessions; each refresh replaces the session it presents by a  *)
(* new one of the same family, and a refresh whose session is gone revokes *)
(* the family.  Redis holds a key for each session and a set of members    *)
(* for each family, the database a row for each family; logout, an         *)
(* administrator's block and the other mass revocations touch all three in *)
(* separate statements.  Access tokens and their blacklist are left out.   *)
(***************************************************************************)
EXTENDS Naturals, FiniteSets

CONSTANTS
  Families,  \* families, one per login
  Tokens,    \* session ids, one per refresh token issued
  Requests,  \* requests that may be handled at one time
  ConcurrentSessions, \* values the operators give allowConcurrentSessions
  SessionBounds, \* bounds to choose from: how many requests' process dies, and
                 \* which tokens' life may end
  NoToken

ASSUME NoTokenAssumption == NoToken \notin Families
ASSUME SessionBoundsAssumption ==
  SessionBounds \subseteq [deaths : Nat, expiring : SUBSET Tokens]

VARIABLES
  userStatus,  \* UserStatus, as far as canAuthenticate looks at it
  familyOf,    \* the family in each token's claims; NoToken before it is issued
  live,        \* auth:session keys in Redis
  members,     \* auth:family sets in Redis
  sessionRow,  \* SessionStatus of a family, "none" before its row
  held,        \* refresh tokens that were handed out and have not expired
  req,         \* [Requests -> what it is doing]
  contested,   \* history: families of which a session was being issued while
               \* they were revoked
  deaths,
  sessionBounds

redisVars == <<live, members>>
boundVars == <<deaths, sessionBounds>>
countVars == <<contested, boundVars>>
sessionVars == <<userStatus, familyOf, redisVars, sessionRow, held, req, countVars>>

\* token: presented or issued; todo: families to revoke; seen: smembers of the
\* first of them, or the session as it was read; login: whether a session is
\* issued when they are revoked.
NoRequest ==
  [at |-> "idle", token |-> NoToken, todo |-> {}, seen |-> {}, login |-> FALSE]

SessionsInit ==
  /\ userStatus = "ACTIVE"
  /\ familyOf = [t \in Tokens |-> NoToken]
  /\ live = {} /\ held = {}
  /\ members = [f \in Families |-> {}]
  /\ sessionRow = [f \in Families |-> "none"]
  /\ req = [r \in Requests |-> NoRequest]
  /\ contested = {} /\ deaths = 0 /\ sessionBounds \in SessionBounds

At(r, step) == req[r].at = step
Set(r, new) == req' = [req EXCEPT ![r] = new]
StepTo(q, step) == [q EXCEPT !.at = step]
Presenting(t) == [NoRequest EXCEPT !.token = t]
Family(r) == familyOf[req[r].token]
Fresh == {t \in Tokens : familyOf[t] = NoToken}
NewFamilies == Families \ {familyOf[t] : t \in Tokens}

\* The loop of a revocation takes one family after the other.
NextOf(r) == CHOOSE f \in req[r].todo : TRUE

\* A refresh that found its session has not added the next one yet; nor has a
\* login added its first.
Rotating(r) == req[r].at \in {"drop", "unset", "unlist", "reissue"} /\ req[r].todo = {}
Issuing(r, f) == (Rotating(r) \/ At(r, "add")) /\ Family(r) = f

\* The revocation of the families in todo, or what comes after it.
Revoking(q) ==
  IF q.todo # {} THEN StepTo([q EXCEPT !.seen = {}], "members")
  ELSE IF q.login THEN StepTo([q EXCEPT !.seen = {}], "issue") ELSE NoRequest
-----------------------------------------------------------------------------
\* login, as far as canAuthenticate, while there are ids for it.  Unless sessions
\* may be concurrent, the user's other sessions are revoked before one is issued.
Login(r) ==
  /\ At(r, "idle")
  /\ userStatus = "ACTIVE"
  /\ Fresh # {} /\ NewFamilies # {}
  /\ \E concurrent \in ConcurrentSessions :
       Set(r, StepTo([NoRequest EXCEPT !.login = TRUE], IF concurrent THEN "issue" ELSE "list"))
  /\ UNCHANGED <<userStatus, familyOf, redisVars, sessionRow, held, countVars>>

\* issueTokenPair stores the key and then adds it to the family's set.
StoreNew(r, f) ==
  /\ Fresh # {}
  /\ LET t == CHOOSE t \in Fresh : TRUE
     IN  /\ familyOf' = [familyOf EXCEPT ![t] = f]
         /\ live' = live \union {t}
         /\ Set(r, StepTo([req[r] EXCEPT !.token = t], "add"))
  /\ UNCHANGED <<userStatus, members, sessionRow, held, countVars>>

StoreFirst(r) ==
  /\ At(r, "issue")
  /\ NewFamilies # {}
  /\ StoreNew(r, CHOOSE f \in NewFamilies : TRUE)

StoreNext(r) ==
  /\ At(r, "reissue")
  /\ StoreNew(r, Family(r))

AddMember(r) ==
  /\ At(r, "add")
  /\ members' = [members EXCEPT ![Family(r)] = @ \union {req[r].token}]
  /\ Set(r, StepTo(req[r], "answer"))
  /\ UNCHANGED <<userStatus, familyOf, live, sessionRow, held, countVars>>

\* sessions.create after a login, sessions.touch after a refresh; then the
\* caller has the token.
Answer(r) ==
  /\ At(r, "answer")
  /\ sessionRow' = [sessionRow EXCEPT ![Family(r)] = IF @ = "none" THEN "ACTIVE" ELSE @]
  /\ held' = held \union {req[r].token}
  /\ Set(r, NoRequest)
  /\ UNCHANGED <<userStatus, familyOf, redisVars, countVars>>
-----------------------------------------------------------------------------
Refresh(r, t) ==
  /\ At(r, "idle")
  /\ t \in held
  /\ Set(r, StepTo(Presenting(t), "find"))
  /\ UNCHANGED <<userStatus, familyOf, redisVars, sessionRow, held, countVars>>

\* Mutant: a refresh only verifies the token.
FindAnySession(r) ==
  /\ At(r, "find")
  /\ Set(r, StepTo(req[r], "drop"))
  /\ UNCHANGED <<userStatus, familyOf, redisVars, sessionRow, held, countVars>>

\* A token whose session is gone was used before: the family is revoked.
FindSession(r) ==
  /\ At(r, "find")
  /\ IF req[r].token \in live
     THEN /\ Set(r, StepTo(req[r], "drop"))
          /\ contested' = contested \union
               {f \in {Family(r)} : \E q \in Requests : At(q, "delete") /\ NextOf(q) = f}
     ELSE /\ Set(r, Revoking([NoRequest EXCEPT !.todo = {Family(r)}]))
          /\ UNCHANGED contested
  /\ UNCHANGED <<userStatus, familyOf, redisVars, sessionRow, held, boundVars>>

\* revokeSession: get, del, and srem if it was found.  A refresh then issues the
\* next session, a logout goes on to close the row.
GetSession(r) ==
  /\ At(r, "drop")
  /\ Set(r, StepTo([req[r] EXCEPT !.seen = live \intersect {req[r].token}], "unset"))
  /\ UNCHANGED <<userStatus, familyOf, redisVars, sessionRow, held, countVars>>

UnsetSession(r) ==
  /\ At(r, "unset")
  /\ live' = live \ {req[r].token}
  /\ Set(r, StepTo(req[r], "unlist"))
  /\ UNCHANGED <<userStatus, familyOf, members, sessionRow, held, countVars>>

UnlistSession(r) ==
  /\ At(r, "unlist")
  /\ members' = [members EXCEPT ![Family(r)] = @ \ req[r].seen]
  /\ Set(r, IF req[r].todo = {} THEN StepTo([req[r] EXCEPT !.seen = {}], "reissue")
            ELSE StepTo([NoRequest EXCEPT !.todo = req[r].todo], "close"))
  /\ UNCHANGED <<userStatus, familyOf, live, sessionRow, held, countVars>>
-----------------------------------------------------------------------------
\* UserManagementService.block and unblock; a deletion ends sessions likewise.
Block(r) ==
  /\ At(r, "idle")
  /\ userStatus # "BLOCKED"
  /\ userStatus' = "BLOCKED"
  /\ Set(r, StepTo(NoRequest, "list"))
  /\ UNCHANGED <<familyOf, redisVars, sessionRow, held, countVars>>

Unblock ==
  /\ userStatus = "BLOCKED"
  /\ userStatus' = "ACTIVE"
  /\ UNCHANGED <<familyOf, redisVars, sessionRow, held, req, countVars>>

\* revokeAllSessions, a password change that revokes, and a password reset.
RevokeAll(r) ==
  /\ At(r, "idle")
  /\ Set(r, StepTo(NoRequest, "list"))
  /\ UNCHANGED <<userStatus, familyOf, redisVars, sessionRow, held, countVars>>

RevokeOne(r, f) ==
  /\ At(r, "idle")
  /\ sessionRow[f] # "none"
  /\ Set(r, Revoking([NoRequest EXCEPT !.todo = {f}]))
  /\ UNCHANGED <<userStatus, familyOf, redisVars, sessionRow, held, countVars>>

\* With an access token: its family is revoked, and the token itself.
Logout(r, t) ==
  /\ At(r, "idle")
  /\ t \in held
  /\ Set(r, Revoking([Presenting(t) EXCEPT !.todo = {familyOf[t]}]))
  /\ UNCHANGED <<userStatus, familyOf, redisVars, sessionRow, held, countVars>>

ListActive(r) ==
  /\ At(r, "list")
  /\ Set(r, Revoking([req[r] EXCEPT !.todo = {f \in Families : sessionRow[f] = "ACTIVE"}]))
  /\ UNCHANGED <<userStatus, familyOf, redisVars, sessionRow, held, countVars>>

\* revokeFamily: smembers, del of their keys, del of the set.
ReadMembers(r) ==
  /\ At(r, "members")
  /\ Set(r, StepTo([req[r] EXCEPT !.seen = members[NextOf(r)]], "delete"))
  /\ contested' = contested \union {f \in {NextOf(r)} : \E q \in Requests : Issuing(q, f)}
  /\ UNCHANGED <<userStatus, familyOf, redisVars, sessionRow, held, boundVars>>

\* Mutant: the members are counted, and their keys stay.
KeepKeys(r) ==
  /\ At(r, "delete")
  /\ Set(r, StepTo([req[r] EXCEPT !.seen = {}], "forget"))
  /\ UNCHANGED <<userStatus, familyOf, redisVars, sessionRow, held, countVars>>

DeleteKeys(r) ==
  /\ At(r, "delete")
  /\ live' = live \ req[r].seen
  /\ Set(r, StepTo([req[r] EXCEPT !.seen = {}], "forget"))
  /\ UNCHANGED <<userStatus, familyOf, members, sessionRow, held, countVars>>

\* A logout goes on with revokeSession of its own session.
DeleteSet(r) ==
  /\ At(r, "forget")
  /\ members' = [members EXCEPT ![NextOf(r)] = {}]
  /\ Set(r, StepTo(req[r], IF req[r].token = NoToken THEN "close" ELSE "drop"))
  /\ UNCHANGED <<userStatus, familyOf, live, sessionRow, held, countVars>>

CloseRow(r) ==
  /\ At(r, "close")
  /\ sessionRow' = [sessionRow EXCEPT ![NextOf(r)] = IF @ = "none" THEN @ ELSE "REVOKED"]
  /\ Set(r, Revoking([req[r] EXCEPT !.todo = @ \ {NextOf(r)}]))
  /\ UNCHANGED <<userStatus, familyOf, redisVars, held, countVars>>

\* The session's key and its token expire together.
Expire(t) ==
  /\ t \in sessionBounds.expiring \intersect held
  /\ held' = held \ {t}
  /\ live' = live \ {t}
  /\ UNCHANGED <<userStatus, familyOf, members, sessionRow, req, countVars>>

RequestDies(r) ==
  /\ ~ At(r, "idle")
  /\ deaths < sessionBounds.deaths
  /\ deaths' = deaths + 1
  /\ Set(r, NoRequest)
  /\ UNCHANGED <<userStatus, familyOf, redisVars, sessionRow, held, contested, sessionBounds>>

RequestStep(r) ==
  \/ StoreFirst(r) \/ StoreNext(r) \/ AddMember(r) \/ Answer(r)
  \/ FindSession(r) \/ GetSession(r) \/ UnsetSession(r) \/ UnlistSession(r)
  \/ ListActive(r) \/ ReadMembers(r) \/ DeleteKeys(r) \/ DeleteSet(r) \/ CloseRow(r)

SessionsNext ==
  \/ \E r \in Requests :
       \/ RequestStep(r) \/ RequestDies(r) \/ Login(r) \/ Block(r) \/ RevokeAll(r)
       \/ \E t \in Tokens : Refresh(r, t) \/ Logout(r, t)
       \/ \E f \in Families : RevokeOne(r, f)
  \/ Unblock
  \/ \E t \in Tokens : Expire(t)

SessionsSpec == SessionsInit /\ [][SessionsNext]_sessionVars
-----------------------------------------------------------------------------
SessionsTypeOK ==
  /\ userStatus \in {"ACTIVE", "BLOCKED"}
  /\ familyOf \in [Tokens -> Families \union {NoToken}]
  /\ live \subseteq Tokens /\ held \subseteq Tokens
  /\ members \in [Families -> SUBSET Tokens]
  /\ sessionRow \in [Families -> {"none", "ACTIVE", "REVOKED"}]
  /\ \A r \in Requests :
       /\ req[r].at \in {"idle", "issue", "reissue", "add", "answer", "find", "drop", "unset",
                         "unlist", "list", "members", "delete", "forget", "close"}
       /\ req[r].token \in Tokens \union {NoToken}
       /\ req[r].todo \subseteq Families /\ req[r].seen \subseteq Tokens
       /\ req[r].login \in BOOLEAN
  /\ contested \subseteq Families
  /\ sessionBounds \in SessionBounds /\ deaths \in 0..sessionBounds.deaths

\* No session of the family is live, and nobody is about to issue one.
Dead(f) ==
  /\ f \notin NewFamilies
  /\ \A t \in live : familyOf[t] # f
  /\ \A r \in Requests : Rotating(r) => Family(r) # f

\* A family of which no session is left stays dead, whatever tokens of it are
\* presented again and by how many requests at once.
DeadFamiliesStayDead == [][\A f \in Families : Dead(f) => Dead(f)']_sessionVars

\* Somebody is about to list the active families, to revoke them all; or a
\* token of the family is presented whose session is gone.
ToBeRevoked(f) ==
  \/ sessionRow[f] = "ACTIVE" /\ \E r \in Requests : At(r, "list")
  \/ \E r \in Requests : At(r, "find") /\ Family(r) = f /\ req[r].token \notin live

\* Whatever ends all of a user's sessions revokes every family it finds active,
\* and a token used twice gets its family revoked, unless a process died: the
\* row says so, and no session of the family is left that could be refreshed.
\* One that was being issued at the time may survive.
RevocationsFinish ==
  \A f \in Families :
    ToBeRevoked(f) ~>
      \/ sessionRow[f] = "REVOKED" /\ (f \in contested \/ \A t \in live : familyOf[t] # f)
      \/ deaths > 0
=============================================================================
