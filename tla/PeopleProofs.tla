---------------------------- MODULE PeopleProofs ----------------------------
(***************************************************************************)
(* Sessions, sign-in, managers' invitations and the identities of accounts,*)
(* proved for any families, tokens, callers, invitations and accounts, and *)
(* any number of calls that overlap or die.                                *)
(***************************************************************************)
EXTENDS Sessions, SignIn, ManagerInvites, Accounts, FiniteSetTheorems, TLAPS

-----------------------------------------------------------------------------
(* Sessions.                                                               *)

Bearing == {"find", "drop", "unset", "unlist", "reissue", "add", "answer"}
Looping == {"members", "delete", "forget", "close"}
Rotation == {"drop", "unset", "unlist", "reissue"}
RequestSet ==
  [at : {"idle", "issue", "list"} \union Bearing \union Looping,
   token : Tokens \union {NoToken}, todo : SUBSET Families, seen : SUBSET Tokens,
   login : BOOLEAN]

\* Whoever uses a session has its token, of a family that exists; whoever revokes
\* has a family left to revoke, and so has a logout that ends its own session.
Equipped(q) ==
  /\ q.at \in Bearing => q.token \in Tokens /\ familyOf[q.token] \in Families
  /\ q.token # NoToken => familyOf[q.token] \in Families
  /\ q.at \in Looping => q.todo # {}
  /\ q.at = "reissue" => q.todo = {}

\* What a step of a request writes besides the request.
SessionColumns ==
  /\ userStatus \in {"ACTIVE", "BLOCKED"}
  /\ live \subseteq Tokens /\ held \subseteq Tokens
  /\ members \in [Families -> SUBSET Tokens]
  /\ sessionRow \in [Families -> {"none", "ACTIVE", "REVOKED"}]
  /\ contested \subseteq Families
  /\ sessionBounds \in SessionBounds /\ deaths \in 0..sessionBounds.deaths
  /\ \A t \in held : familyOf[t] \in Families

SessionsTypes ==
  /\ familyOf \in [Tokens -> Families \union {NoToken}]
  /\ req \in [Requests -> RequestSet]
  /\ \A r \in Requests : Equipped(req[r])
  /\ SessionColumns

StayDead == \A f \in Families : Dead(f) => Dead(f)'
-----------------------------------------------------------------------------
\* Nobody has logged in, and nobody is about to.
LEMMA InitSessionsTypes == SessionsInit => SessionsTypes
BY SessionBoundsAssumption
DEF SessionsInit, SessionsTypes, SessionColumns, NoRequest, RequestSet, Bearing, Looping, Equipped

\* The request that takes a step, and what it has become.
LEMMA RequestChanges ==
  ASSUME req \in [Requests -> RequestSet], NEW r \in Requests, NEW q \in RequestSet, Set(r, q)
  PROVE  /\ req' \in [Requests -> RequestSet] /\ req'[r] = q
         /\ \A s \in Requests \ {r} : req'[s] = req[s]
BY DEF Set

\* A step that gives no token a family, and adds no session.  A request that
\* comes to rotate one has found it alive, or was rotating it already.
LEMMA TypedStep ==
  ASSUME SessionsTypes, NEW r \in Requests, NEW q \in RequestSet, Set(r, q), Equipped(q),
         UNCHANGED familyOf, SessionColumns', live' \subseteq live,
         q.at \in Rotation /\ q.todo = {} =>
           q.token \in live \/ (Rotating(r) /\ q.token = req[r].token)
  PROVE  SessionsTypes' /\ StayDead
<1>1. /\ req' \in [Requests -> RequestSet] /\ req'[r] = q
      /\ \A s \in Requests \ {r} : req'[s] = req[s]
  BY RequestChanges DEF SessionsTypes
<1>2. \A s \in Requests : Equipped(req'[s])
  BY <1>1 DEF SessionsTypes
<1>3. \A s \in Requests : Equipped(req[s])'
  BY <1>2 DEF Equipped
<1>4. SessionsTypes'
  BY <1>1, <1>3 DEF SessionsTypes
<1>5. ASSUME NEW f \in Families, Dead(f) PROVE Dead(f)'
  <2>1. NewFamilies' = NewFamilies
    BY DEF NewFamilies
  <2>2. \A t \in live' : familyOf'[t] # f
    BY <1>5 DEF Dead
  <2>3. ASSUME NEW s \in Requests, Rotating(s)' PROVE Family(s)' # f
    <3>1. CASE s = r
      BY <1>1, <1>5, <2>3, <3>1 DEF Dead, Family, Rotating, Rotation
    <3>2. CASE s # r
      BY <1>1, <1>5, <2>3, <3>2 DEF Dead, Family, Rotating
    <3> QED
      BY <3>1, <3>2
  <2> QED
    BY <1>5, <2>1, <2>2, <2>3 DEF Dead
<1> QED
  BY <1>4, <1>5 DEF StayDead

\* A request is one at every step it may go to.
LEMMA RequestsAreTyped ==
  ASSUME NEW q \in RequestSet, q.token # NoToken => familyOf[q.token] \in Families
  PROVE  /\ NoRequest \in RequestSet /\ Equipped(NoRequest) /\ NoRequest.at = "idle"
         /\ \A s \in {"issue", "list"} :
              /\ StepTo(q, s) \in RequestSet /\ Equipped(StepTo(q, s)) /\ StepTo(q, s).at = s
         /\ \A s \in Bearing :
              /\ StepTo(q, s) \in RequestSet /\ StepTo(q, s).at = s
              /\ StepTo(q, s).token = q.token /\ StepTo(q, s).todo = q.todo
              /\ /\ q.token \in Tokens /\ familyOf[q.token] \in Families
                 /\ s = "reissue" => q.todo = {}
                 => Equipped(StepTo(q, s))
         /\ \A s \in Looping :
              /\ StepTo(q, s) \in RequestSet /\ StepTo(q, s).at = s
              /\ q.todo # {} => Equipped(StepTo(q, s))
BY DEF RequestSet, NoRequest, StepTo, Equipped, Bearing, Looping

\* A request goes on to its next family only when there is one, and does not
\* rotate a session.
LEMMA RevokingIsTyped ==
  ASSUME NEW q \in RequestSet, q.token # NoToken => familyOf[q.token] \in Families
  PROVE  /\ Revoking(q) \in RequestSet /\ Equipped(Revoking(q))
         /\ Revoking(q).at \in {"members", "issue", "idle"}
<1> DEFINE p == [q EXCEPT !.seen = {}]
<1>1. p \in RequestSet /\ p.todo = q.todo /\ p.token = q.token
  BY DEF RequestSet
<1>2. CASE q.todo # {}
  <2>1. LET s == StepTo(p, "members") IN s \in RequestSet /\ Equipped(s) /\ s.at = "members"
    <3> HIDE DEF p
    <3> QED
      BY <1>1, <1>2, RequestsAreTyped DEF Looping
  <2> QED
    BY <1>2, <2>1 DEF Revoking
<1>3. CASE q.todo = {}
  <2>1. LET s == StepTo(p, "issue") IN s \in RequestSet /\ Equipped(s) /\ s.at = "issue"
    <3> HIDE DEF p
    <3> QED
      BY <1>1, RequestsAreTyped
  <2>2. NoRequest \in RequestSet /\ Equipped(NoRequest) /\ NoRequest.at = "idle"
    BY RequestsAreTyped
  <2> QED
    BY <1>3, <2>1, <2>2 DEF Revoking
<1> QED
  BY <1>2, <1>3

\* A session is stored under a token that had no family, hence was not handed
\* out: of a new family, or of the one whose session was rotated.
LEMMA StoreIsTyped ==
  ASSUME SessionsTypes, NEW r \in Requests, StoreFirst(r) \/ StoreNext(r)
  PROVE  SessionsTypes' /\ StayDead
<1>1. PICK g \in Families : StoreNew(r, g) /\ \A f \in Families : Dead(f) => f # g
  <2>1. CASE StoreFirst(r)
    <3>1. (CHOOSE f \in NewFamilies : TRUE) \in NewFamilies
      BY <2>1 DEF StoreFirst
    <3> QED
      BY <2>1, <3>1 DEF StoreFirst, NewFamilies, Dead
  <2>2. CASE StoreNext(r)
    <3>1. Family(r) \in Families /\ Rotating(r)
      BY <2>2 DEF StoreNext, At, SessionsTypes, Equipped, Bearing, Family, Rotating
    <3> QED
      BY <2>2, <3>1 DEF StoreNext, Dead
  <2> QED
    BY <2>1, <2>2
<1>2. PICK t \in Fresh : /\ familyOf' = [familyOf EXCEPT ![t] = g]
                         /\ live' = live \union {t}
                         /\ Set(r, StepTo([req[r] EXCEPT !.token = t], "add"))
  BY <1>1 DEF StoreNew
<1> DEFINE q == StepTo([req[r] EXCEPT !.token = t], "add")
<1>3. /\ t \in Tokens /\ familyOf[t] = NoToken /\ familyOf'[t] = g
      /\ familyOf' \in [Tokens -> Families \union {NoToken}]
      /\ \A u \in Tokens \ {t} : familyOf'[u] = familyOf[u]
      /\ \A u : familyOf[u] \in Families => familyOf'[u] \in Families
  BY <1>1, <1>2, NoTokenAssumption DEF Fresh, SessionsTypes
<1>4. q \in RequestSet /\ q.at = "add" /\ q.token = t
  <2> DEFINE p == [req[r] EXCEPT !.token = t]
  <2>1. p \in RequestSet /\ p.token = t
    BY <1>3 DEF SessionsTypes, RequestSet
  <2> HIDE DEF p
  <2>2. LET s == StepTo(p, "add") IN s \in RequestSet /\ s.at = "add" /\ s.token = t
    BY <2>1 DEF RequestSet, StepTo, Bearing
  <2> QED
    BY <2>2 DEF p
<1>5. Set(r, q)
  BY <1>2
<1> HIDE DEF q
<1>6. /\ req' \in [Requests -> RequestSet] /\ req'[r] = q
      /\ \A s \in Requests \ {r} : req'[s] = req[s]
  BY <1>4, <1>5, RequestChanges DEF SessionsTypes
<1>7. \A s \in Requests : Equipped(req[s])'
  BY <1>1, <1>3, <1>4, <1>6 DEF SessionsTypes, Equipped, Bearing, Looping
<1>8. SessionColumns'
  BY <1>1, <1>2, <1>3 DEF StoreNew, SessionsTypes, SessionColumns, countVars, boundVars
<1>9. ASSUME NEW f \in Families, Dead(f) PROVE Dead(f)'
  <2>1. f # g
    BY <1>1, <1>9
  <2>2. f \notin NewFamilies'
    <3>1. PICK u \in Tokens : familyOf[u] = f
      BY <1>9 DEF Dead, NewFamilies
    <3>2. familyOf'[u] = f
      BY <1>3, <3>1, NoTokenAssumption
    <3> QED
      BY <3>2 DEF NewFamilies
  <2>3. \A u \in live' : familyOf'[u] # f
    BY <1>2, <1>3, <1>9, <2>1 DEF Dead, SessionsTypes, SessionColumns
  <2>4. ASSUME NEW s \in Requests, Rotating(s)' PROVE Family(s)' # f
    <3>1. s # r /\ req'[s] = req[s] /\ Rotating(s) /\ req[s].token \in Tokens
      BY <1>4, <1>6, <2>4 DEF SessionsTypes, Equipped, Bearing, Rotating
    <3>2. familyOf[req[s].token] # f
      BY <1>9, <3>1 DEF Dead, Family
    <3> QED
      BY <1>3, <2>1, <3>1, <3>2 DEF Family
  <2> QED
    BY <2>2, <2>3, <2>4 DEF Dead
<1> QED
  BY <1>3, <1>6, <1>7, <1>8, <1>9 DEF SessionsTypes, StayDead

\* A refresh or a logout that uses the session it presented.
LEMMA SessionUsesStayTyped ==
  ASSUME SessionsTypes, NEW r \in Requests,
         \/ AddMember(r) \/ Answer(r)
         \/ FindSession(r) \/ GetSession(r) \/ UnsetSession(r) \/ UnlistSession(r)
  PROVE  SessionsTypes' /\ StayDead
<1> DEFINE q == req[r]
<1>1. q \in RequestSet /\ Equipped(q) /\ SessionColumns
  BY DEF SessionsTypes
<1>2. /\ q.at \in Bearing /\ q.token \in Tokens
      /\ Family(r) \in Families /\ familyOf[q.token] = Family(r)
  BY <1>1 DEF Equipped, Family, AddMember, Answer, FindSession, GetSession, UnsetSession,
       UnlistSession, At, Bearing
<1>3. /\ NoRequest \in RequestSet /\ Equipped(NoRequest) /\ NoRequest.at = "idle"
      /\ \A s \in Bearing :
           /\ StepTo(q, s) \in RequestSet /\ StepTo(q, s).at = s
           /\ StepTo(q, s).token = q.token /\ StepTo(q, s).todo = q.todo
           /\ s # "reissue" => Equipped(StepTo(q, s))
  BY <1>1, <1>2, RequestsAreTyped
<1>4. CASE AddMember(r)
  <2>1. Set(r, StepTo(q, "answer")) /\ UNCHANGED <<familyOf, live>>
    BY <1>4 DEF AddMember
  <2>2. SessionColumns'
    BY <1>1, <1>2, <1>4 DEF AddMember, SessionColumns, countVars, boundVars
  <2> QED
    BY <1>3, <2>1, <2>2, TypedStep DEF Bearing, Rotation
<1>5. CASE Answer(r)
  <2>1. Set(r, NoRequest) /\ UNCHANGED <<familyOf, live>>
    BY <1>5 DEF Answer, redisVars
  <2>2. SessionColumns'
    BY <1>1, <1>2, <1>5 DEF Answer, SessionColumns, redisVars, countVars, boundVars
  <2> QED
    BY <1>3, <2>1, <2>2, TypedStep DEF Rotation
<1>6. CASE FindSession(r)
  <2>1. UNCHANGED <<familyOf, live>> /\ SessionColumns'
    BY <1>1, <1>2, <1>6 DEF FindSession, SessionColumns, redisVars, boundVars
  <2>2. CASE req[r].token \in live
    <3>1. Set(r, StepTo(q, "drop"))
      BY <1>6, <2>2 DEF FindSession
    <3> QED
      BY <1>3, <2>1, <2>2, <3>1, TypedStep DEF Bearing
  <2>3. CASE req[r].token \notin live
    <3> DEFINE p == [NoRequest EXCEPT !.todo = {Family(r)}]
    <3>1. Set(r, Revoking(p))
      BY <1>6, <2>3 DEF FindSession
    <3>2. p \in RequestSet /\ p.token = NoToken
      BY <1>2, <1>3 DEF RequestSet, NoRequest
    <3> HIDE DEF p
    <3>3. /\ Revoking(p) \in RequestSet /\ Equipped(Revoking(p))
          /\ Revoking(p).at \in {"members", "issue", "idle"}
      BY <3>2, RevokingIsTyped
    <3> QED
      BY <2>1, <3>1, <3>3, TypedStep DEF Rotation
  <2> QED
    BY <2>2, <2>3
<1>7. CASE GetSession(r)
  <2> DEFINE p == [q EXCEPT !.seen = live \intersect {q.token}]
  <2>1. /\ Set(r, StepTo(p, "unset")) /\ UNCHANGED <<familyOf, live>> /\ q.at = "drop"
        /\ SessionColumns'
    BY <1>1, <1>7 DEF GetSession, At, SessionColumns, redisVars, countVars, boundVars
  <2>2. p \in RequestSet /\ p.token = q.token /\ p.todo = q.todo
    BY <1>1, <1>2 DEF RequestSet
  <2> HIDE DEF p
  <2>3. /\ StepTo(p, "unset") \in RequestSet /\ Equipped(StepTo(p, "unset"))
        /\ StepTo(p, "unset").token = q.token /\ StepTo(p, "unset").todo = q.todo
    BY <1>2, <2>2, RequestsAreTyped DEF Bearing
  <2> QED
    BY <2>1, <2>3, TypedStep DEF Rotating
<1>8. CASE UnsetSession(r)
  <2>1. /\ Set(r, StepTo(q, "unlist")) /\ UNCHANGED familyOf /\ live' \subseteq live
        /\ q.at = "unset"
    BY <1>8 DEF UnsetSession, At
  <2>2. SessionColumns'
    BY <1>1, <1>8 DEF UnsetSession, SessionColumns, countVars, boundVars
  <2>3. /\ StepTo(q, "unlist") \in RequestSet /\ Equipped(StepTo(q, "unlist"))
        /\ StepTo(q, "unlist").token = q.token /\ StepTo(q, "unlist").todo = q.todo
    BY <1>3 DEF Bearing
  <2> QED
    BY <2>1, <2>2, <2>3, TypedStep DEF Rotating
<1>9. CASE UnlistSession(r)
  <2>1. UNCHANGED <<familyOf, live>> /\ q.at = "unlist"
    BY <1>9 DEF UnlistSession, At
  <2>2. SessionColumns'
    BY <1>1, <1>2, <1>9 DEF UnlistSession, SessionColumns, countVars, boundVars
  <2>3. CASE q.todo = {}
    <3> DEFINE p == [q EXCEPT !.seen = {}]
    <3>1. Set(r, StepTo(p, "reissue"))
      BY <1>9, <2>3 DEF UnlistSession
    <3>2. p \in RequestSet /\ p.token = q.token /\ p.todo = {}
      BY <1>1, <2>3 DEF RequestSet
    <3> HIDE DEF p
    <3>3. /\ StepTo(p, "reissue") \in RequestSet /\ Equipped(StepTo(p, "reissue"))
          /\ StepTo(p, "reissue").token = q.token
      BY <1>2, <3>2, RequestsAreTyped DEF Bearing
    <3> QED
      BY <2>1, <2>2, <2>3, <3>1, <3>3, TypedStep DEF Rotating
  <2>4. CASE q.todo # {}
    <3> DEFINE p == [NoRequest EXCEPT !.todo = q.todo]
    <3>1. Set(r, StepTo(p, "close"))
      BY <1>9, <2>4 DEF UnlistSession
    <3>2. p \in RequestSet /\ p.token = NoToken /\ p.todo # {}
      BY <1>1, <1>3, <2>4 DEF RequestSet, NoRequest
    <3> HIDE DEF p
    <3>3. /\ StepTo(p, "close") \in RequestSet /\ Equipped(StepTo(p, "close"))
          /\ StepTo(p, "close").at = "close"
      BY <3>2, RequestsAreTyped DEF Looping
    <3> QED
      BY <2>1, <2>2, <3>1, <3>3, TypedStep DEF Rotation
  <2> QED
    BY <2>3, <2>4
<1> QED
  BY <1>4, <1>5, <1>6, <1>7, <1>8, <1>9

\* The steps of a revocation, and the death of a request.
LEMMA RevocationsStayTyped ==
  ASSUME SessionsTypes, NEW r \in Requests,
         \/ ListActive(r) \/ ReadMembers(r) \/ DeleteKeys(r) \/ DeleteSet(r) \/ CloseRow(r)
         \/ RequestDies(r)
  PROVE  SessionsTypes' /\ StayDead
<1> DEFINE q == req[r]
<1>1. /\ q \in RequestSet /\ Equipped(q) /\ SessionColumns
      /\ q.token # NoToken => familyOf[q.token] \in Families
  BY DEF SessionsTypes, Equipped
<1>2. q.at \in Looping => q.todo # {} /\ NextOf(r) \in Families /\ q.todo \subseteq Families
  BY <1>1 DEF Equipped, NextOf, RequestSet
<1>3. \A x \in SUBSET Families :
        LET p == Revoking([q EXCEPT !.todo = x])
        IN  p \in RequestSet /\ Equipped(p) /\ p.at \notin Rotation
  <2> TAKE x \in SUBSET Families
  <2>1. [q EXCEPT !.todo = x] \in RequestSet /\ [q EXCEPT !.todo = x].token = q.token
    BY <1>1 DEF RequestSet
  <2> HIDE DEF q
  <2> QED
    BY <1>1, <2>1, RevokingIsTyped DEF Rotation
<1>4. \A x \in SUBSET Tokens : \A s \in Looping :
        LET p == StepTo([q EXCEPT !.seen = x], s)
        IN  q.at \in Looping => p \in RequestSet /\ Equipped(p) /\ p.at \notin Rotation
  <2> TAKE x \in SUBSET Tokens
  <2> DEFINE p == [q EXCEPT !.seen = x]
  <2>1. p \in RequestSet /\ p.token = q.token /\ p.todo = q.todo
    BY <1>1 DEF RequestSet
  <2> HIDE DEF p
  <2>2. \A s \in Looping : q.at \in Looping =>
          StepTo(p, s) \in RequestSet /\ Equipped(StepTo(p, s)) /\ StepTo(p, s).at \notin Rotation
    BY <1>1, <1>2, <2>1, RequestsAreTyped DEF Rotation, Looping
  <2> QED
    BY <2>2 DEF p
<1>5. CASE ListActive(r)
  <2> DEFINE active == {f \in Families : sessionRow[f] = "ACTIVE"}
  <2>1. Set(r, Revoking([q EXCEPT !.todo = active])) /\ UNCHANGED <<familyOf, live>>
    BY <1>5 DEF ListActive, redisVars
  <2>2. SessionColumns'
    BY <1>1, <1>5 DEF ListActive, SessionColumns, redisVars, countVars, boundVars
  <2>3. active \in SUBSET Families
    OBVIOUS
  <2> HIDE DEF active
  <2> QED
    BY <1>3, <2>1, <2>2, <2>3, TypedStep
<1>6. CASE ReadMembers(r)
  <2>1. /\ q.at \in Looping /\ Set(r, StepTo([q EXCEPT !.seen = members[NextOf(r)]], "delete"))
        /\ UNCHANGED <<familyOf, live>>
    BY <1>6 DEF ReadMembers, At, Looping, redisVars
  <2>2. SessionColumns' /\ members[NextOf(r)] \in SUBSET Tokens
    BY <1>1, <1>2, <1>6, <2>1 DEF ReadMembers, SessionColumns, redisVars, boundVars
  <2> QED
    BY <1>4, <2>1, <2>2, TypedStep DEF Looping
<1>7. CASE DeleteKeys(r)
  <2>1. /\ q.at \in Looping /\ Set(r, StepTo([q EXCEPT !.seen = {}], "forget"))
        /\ UNCHANGED familyOf /\ live' \subseteq live
    BY <1>7 DEF DeleteKeys, At, Looping
  <2>2. SessionColumns'
    BY <1>1, <1>7 DEF DeleteKeys, SessionColumns, countVars, boundVars
  <2> QED
    BY <1>4, <2>1, <2>2, TypedStep DEF Looping
<1>8. CASE DeleteSet(r)
  <2>1. /\ q.at \in Looping /\ UNCHANGED <<familyOf, live>>
        /\ members' = [members EXCEPT ![NextOf(r)] = {}]
    BY <1>8 DEF DeleteSet, At, Looping
  <2>2. SessionColumns'
    BY <1>1, <1>2, <1>8, <2>1 DEF DeleteSet, SessionColumns, countVars, boundVars
  <2>3. CASE q.token = NoToken
    <3>1. Set(r, StepTo(q, "close"))
      BY <1>8, <2>3 DEF DeleteSet
    <3>2. /\ StepTo(q, "close") \in RequestSet /\ Equipped(StepTo(q, "close"))
          /\ StepTo(q, "close").at = "close"
      BY <1>1, <1>2, <2>1, RequestsAreTyped DEF Looping
    <3> QED
      BY <2>1, <2>2, <3>1, <3>2, TypedStep DEF Rotation
  <2>4. CASE q.token # NoToken
    <3>1. Set(r, StepTo(q, "drop"))
      BY <1>8, <2>4 DEF DeleteSet
    <3>2. q.token \in Tokens /\ familyOf[q.token] \in Families
      BY <1>1, <2>4 DEF RequestSet
    <3>3. /\ StepTo(q, "drop") \in RequestSet /\ Equipped(StepTo(q, "drop"))
          /\ StepTo(q, "drop").todo # {}
      BY <1>1, <1>2, <2>1, <3>2, RequestsAreTyped DEF Bearing
    <3> QED
      BY <2>1, <2>2, <3>1, <3>3, TypedStep
  <2> QED
    BY <2>3, <2>4
<1>9. CASE CloseRow(r)
  <2>1. /\ q.at \in Looping /\ Set(r, Revoking([q EXCEPT !.todo = @ \ {NextOf(r)}]))
        /\ UNCHANGED <<familyOf, live>>
    BY <1>9 DEF CloseRow, At, Looping, redisVars
  <2>2. SessionColumns'
    BY <1>1, <1>2, <1>9, <2>1 DEF CloseRow, SessionColumns, redisVars, countVars, boundVars
  <2>3. [q EXCEPT !.todo = @ \ {NextOf(r)}] = [q EXCEPT !.todo = q.todo \ {NextOf(r)}]
    OBVIOUS
  <2>4. q.todo \ {NextOf(r)} \in SUBSET Families
    BY <1>2, <2>1
  <2>5. LET p == Revoking([q EXCEPT !.todo = @ \ {NextOf(r)}])
        IN  p \in RequestSet /\ Equipped(p) /\ p.at \notin Rotation
    BY <1>3, <2>3, <2>4
  <2> QED
    BY <2>1, <2>2, <2>5, TypedStep
<1>10. CASE RequestDies(r)
  <2>1. Set(r, NoRequest) /\ UNCHANGED <<familyOf, live>>
    BY <1>10 DEF RequestDies, redisVars
  <2>2. SessionColumns'
    BY <1>1, <1>10, SessionBoundsAssumption DEF RequestDies, SessionColumns, redisVars
  <2>3. NoRequest \in RequestSet /\ Equipped(NoRequest) /\ NoRequest.at = "idle"
    BY <1>1, RequestsAreTyped
  <2> QED
    BY <2>1, <2>2, <2>3, TypedStep DEF Rotation
<1> QED
  BY <1>5, <1>6, <1>7, <1>8, <1>9, <1>10

\* The requests that begin: with a token that was handed out, or none.
LEMMA ArrivalsAreTyped ==
  ASSUME SessionsTypes, NEW r \in Requests,
         \/ Login(r) \/ Block(r) \/ RevokeAll(r)
         \/ \E t \in Tokens : Refresh(r, t) \/ Logout(r, t)
         \/ \E f \in Families : RevokeOne(r, f)
  PROVE  SessionsTypes' /\ StayDead
<1>1. /\ SessionColumns' /\ UNCHANGED <<familyOf, live>>
      /\ \A t \in held : t \in Tokens /\ familyOf[t] \in Families
  BY DEF Login, Block, RevokeAll, Refresh, Logout, RevokeOne, SessionsTypes, SessionColumns,
       redisVars, countVars, boundVars
<1>2. NoRequest \in RequestSet /\ NoRequest.token = NoToken /\ NoRequest.todo = {}
  BY DEF NoRequest, RequestSet
<1>3. ASSUME NEW q \in RequestSet, Equipped(q), Set(r, q), q.at \notin Rotation
      PROVE  SessionsTypes' /\ StayDead
  BY <1>1, <1>3, TypedStep
<1>4. CASE Login(r)
  <2> DEFINE p == [NoRequest EXCEPT !.login = TRUE]
  <2>1. PICK s \in {"issue", "list"} : Set(r, StepTo(p, s))
    BY <1>4 DEF Login
  <2>2. p \in RequestSet /\ p.token = NoToken
    BY <1>2 DEF RequestSet, NoRequest
  <2> HIDE DEF p
  <2>3. StepTo(p, s) \in RequestSet /\ Equipped(StepTo(p, s)) /\ StepTo(p, s).at = s
    BY <2>2, RequestsAreTyped
  <2> QED
    BY <1>3, <2>1, <2>3 DEF Rotation
<1>5. CASE Block(r) \/ RevokeAll(r)
  <2>1. Set(r, StepTo(NoRequest, "list"))
    BY <1>5 DEF Block, RevokeAll
  <2>2. /\ StepTo(NoRequest, "list") \in RequestSet /\ Equipped(StepTo(NoRequest, "list"))
        /\ StepTo(NoRequest, "list").at = "list"
    BY <1>2, RequestsAreTyped
  <2> QED
    BY <1>3, <2>1, <2>2 DEF Rotation
<1>6. ASSUME NEW t \in Tokens, Refresh(r, t) PROVE SessionsTypes' /\ StayDead
  <2>1. Set(r, StepTo(Presenting(t), "find")) /\ familyOf[t] \in Families
    BY <1>1, <1>6 DEF Refresh
  <2>2. Presenting(t) \in RequestSet /\ Presenting(t).token = t
    BY <1>2 DEF Presenting, RequestSet, NoRequest
  <2>3. /\ StepTo(Presenting(t), "find") \in RequestSet /\ Equipped(StepTo(Presenting(t), "find"))
        /\ StepTo(Presenting(t), "find").at = "find"
    BY <2>1, <2>2, RequestsAreTyped DEF Bearing
  <2> QED
    BY <1>3, <2>1, <2>3 DEF Rotation
<1>7. ASSUME NEW t \in Tokens, Logout(r, t) PROVE SessionsTypes' /\ StayDead
  <2> DEFINE p == [Presenting(t) EXCEPT !.todo = {familyOf[t]}]
  <2>1. Set(r, Revoking(p)) /\ familyOf[t] \in Families
    BY <1>1, <1>7 DEF Logout
  <2>2. p \in RequestSet /\ p.token = t
    BY <2>1 DEF Presenting, RequestSet, NoRequest
  <2> HIDE DEF p
  <2> QED
    BY <1>3, <2>1, <2>2, RevokingIsTyped DEF Rotation
<1>8. ASSUME NEW f \in Families, RevokeOne(r, f) PROVE SessionsTypes' /\ StayDead
  <2> DEFINE p == [NoRequest EXCEPT !.todo = {f}]
  <2>1. Set(r, Revoking(p))
    BY <1>8 DEF RevokeOne
  <2>2. p \in RequestSet /\ p.token = NoToken
    BY <1>2 DEF RequestSet, NoRequest
  <2> HIDE DEF p
  <2> QED
    BY <1>3, <2>1, <2>2, RevokingIsTyped DEF Rotation
<1> QED
  BY <1>4, <1>5, <1>6, <1>7, <1>8

\* What changes neither a family nor a request, and adds no session.
LEMMA OthersAreTyped ==
  ASSUME SessionsTypes, UNCHANGED sessionVars \/ Unblock \/ \E t \in Tokens : Expire(t)
  PROVE  SessionsTypes' /\ StayDead
<1>1. UNCHANGED <<familyOf, req>> /\ live' \subseteq live
  BY DEF sessionVars, redisVars, Unblock, Expire
<1>2. SessionColumns'
  BY DEF sessionVars, redisVars, countVars, boundVars, Unblock, Expire, SessionsTypes, SessionColumns
<1>3. \A r \in Requests : Equipped(req[r])'
  BY <1>1 DEF SessionsTypes, Equipped
<1>4. NewFamilies' = NewFamilies
  BY <1>1 DEF NewFamilies
<1>5. StayDead
  BY <1>1, <1>4 DEF StayDead, Dead, Family, Rotating
<1> QED
  BY <1>1, <1>2, <1>3, <1>5 DEF SessionsTypes

\* Every step keeps the types, what a request needs for its own, and dead
\* families dead.
LEMMA SessionsStep == SessionsTypes /\ [SessionsNext]_sessionVars => SessionsTypes' /\ StayDead
BY StoreIsTyped, SessionUsesStayTyped, RevocationsStayTyped, ArrivalsAreTyped, OthersAreTyped
DEF SessionsNext, RequestStep

\* Whatever overlaps or dies, a request that stores or rotates a session has one
\* of a family that exists.
THEOREM SessionsTypeCorrect == SessionsSpec => []SessionsTypeOK
<1>1. SessionsTypes => SessionsTypeOK
  <2> SUFFICES ASSUME SessionsTypes PROVE SessionsTypeOK
    OBVIOUS
  <2>1. \A r \in Requests : req[r] \in RequestSet
    BY DEF SessionsTypes
  <2> QED
    BY <2>1 DEF SessionsTypes, SessionColumns, SessionsTypeOK, RequestSet, Bearing, Looping
<1> QED
  BY InitSessionsTypes, SessionsStep, <1>1, PTL DEF SessionsSpec

\* A family of which no session is left, and none is being rotated, stays dead,
\* whatever tokens of it are presented again, by any number of requests at once.
THEOREM RevokedFamiliesStayRevoked == SessionsSpec => DeadFamiliesStayDead
<1>1. SessionsSpec => []SessionsTypes
  BY InitSessionsTypes, SessionsStep, PTL DEF SessionsSpec
<1>2. SessionsTypes /\ [SessionsNext]_sessionVars
        => [\A f \in Families : Dead(f) => Dead(f)']_sessionVars
  BY SessionsStep DEF StayDead
<1> QED
  BY <1>1, <1>2, PTL DEF SessionsSpec, DeadFamiliesStayDead
-----------------------------------------------------------------------------
(* Sign-in.                                                                *)

SignInSpec == SignInInit /\ [][SignInNext]_signInVars

Doing(step) == {c \in Callers : signIn[c] = step}
Number(step) == Cardinality(Doing(step))

\* A wrong password is counted, about to be, or died with its call; while the
\* user is not locked, the calls that are about to lock are all that lets more
\* than the limit through; once he is, only the calls that found him unlocked.
SignInInv ==
  /\ SignInTypeOK
  /\ CounterExpires
  /\ guesses <= attempts + Number("increment") + signInDeaths
  /\ ~locked =>
       guesses <= MAX_LOGIN_ATTEMPTS - 1 + Number("increment") + Number("lock") + signInDeaths
  /\ locked =>
       guesses + Number("verify") <= MAX_LOGIN_ATTEMPTS - 1 + Cardinality(Callers) + signInDeaths

\* Two finite sets without a common member.
LEMMA DisjointUnion ==
  ASSUME NEW S, NEW T, IsFiniteSet(S), IsFiniteSet(T), S \cap T = {}
  PROVE  /\ IsFiniteSet(S \cup T)
         /\ Cardinality(S \cup T) = Cardinality(S) + Cardinality(T)
         /\ Cardinality(S) \in Nat /\ Cardinality(T) \in Nat
<1>1. Cardinality(S \cap T) = 0
  BY FS_EmptySet, Zenon
<1>2. /\ IsFiniteSet(S \cup T)
      /\ Cardinality(S \cup T) = Cardinality(S) + Cardinality(T) - Cardinality(S \cap T)
  BY FS_Union
<1>3. Cardinality(S) \in Nat /\ Cardinality(T) \in Nat
  BY FS_CardinalityType
<1> QED BY <1>1, <1>2, <1>3

\* The calls at a step are finitely many, and those at different steps are
\* together no more than all.
LEMMA NumbersAdd ==
  /\ \A s : IsFiniteSet(Doing(s)) /\ Number(s) \in Nat
  /\ Cardinality(Callers) \in Nat
  /\ Number("increment") + Number("lock") + Number("verify") <= Cardinality(Callers)
<1>1. \A s : IsFiniteSet(Doing(s)) /\ Number(s) \in Nat
  BY SignInAssumption, FS_Subset, FS_CardinalityType DEF Doing, Number
<1>2. Cardinality(Callers) \in Nat
  BY SignInAssumption, FS_CardinalityType
<1>3. PICK T : T = Doing("increment") \cup Doing("lock")
  OBVIOUS
<1>4. IsFiniteSet(T) /\ Cardinality(T) = Number("increment") + Number("lock")
  <2>1. Doing("increment") \cap Doing("lock") = {}
    BY DEF Doing
  <2>2. IsFiniteSet(Doing("increment")) /\ IsFiniteSet(Doing("lock"))
    BY <1>1
  <2> QED BY <1>3, <2>1, <2>2, DisjointUnion, Zenon DEF Number
<1>5. /\ Cardinality(T \cup Doing("verify")) = Cardinality(T) + Number("verify")
      /\ Cardinality(T) \in Nat
  <2>1. T \cap Doing("verify") = {}
    BY <1>3 DEF Doing
  <2>2. IsFiniteSet(Doing("verify"))
    BY <1>1
  <2> QED BY <1>4, <2>1, <2>2, DisjointUnion, Zenon DEF Number
<1>6. Cardinality(T \cup Doing("verify")) <= Cardinality(Callers)
  <2>1. T \cup Doing("verify") \subseteq Callers
    BY <1>3 DEF Doing
  <2> QED BY <2>1, SignInAssumption, FS_Subset
<1> QED BY <1>1, <1>2, <1>4, <1>5, <1>6

\* A call that goes from one step to another takes one from the first and
\* gives one to the second.
LEMMA OneMoves ==
  ASSUME SignInTypeOK, NEW c \in Callers, NEW to,
         signIn' = [signIn EXCEPT ![c] = to], NEW s
  PROVE  /\ signIn[c] = s /\ to # s => Number(s)' = Number(s) - 1 /\ Number(s) > 0
         /\ signIn[c] # s /\ to = s => Number(s)' = Number(s) + 1
         /\ signIn[c] # s /\ to # s => Number(s)' = Number(s)
         /\ Number(s)' \in Nat
<1>1. signIn[c] = s /\ to # s => Doing(s)' = Doing(s) \ {c} /\ c \in Doing(s)
  BY DEF SignInTypeOK, Doing
<1>2. signIn[c] # s /\ to = s => Doing(s)' = Doing(s) \cup {c} /\ c \notin Doing(s)
  BY DEF SignInTypeOK, Doing
<1>3. signIn[c] # s /\ to # s => Doing(s)' = Doing(s)
  BY DEF SignInTypeOK, Doing
<1>4. signIn[c] = s /\ to = s => Doing(s)' = Doing(s)
  BY DEF SignInTypeOK, Doing
<1>5. IsFiniteSet(Doing(s)) /\ Cardinality(Doing(s)) \in Nat
  BY NumbersAdd DEF Number
<1>6. c \in Doing(s) => Cardinality(Doing(s) \ {c}) = Cardinality(Doing(s)) - 1
  BY <1>5, FS_RemoveElement, Zenon
<1>7. c \notin Doing(s) => Cardinality(Doing(s) \cup {c}) = Cardinality(Doing(s)) + 1
  BY <1>5, FS_AddElement
<1>8. Number(s) = Cardinality(Doing(s)) /\ Number(s)' = Cardinality(Doing(s)')
  BY DEF Number
<1> HIDE DEF Doing, Number
<1>9. IsFiniteSet(Doing(s) \ {c})
  BY <1>5, FS_RemoveElement, Zenon
<1>10. Cardinality(Doing(s) \ {c}) \in Nat
  BY <1>9, FS_CardinalityType, Zenon
<1>11. CASE signIn[c] = s /\ to # s
  <2>1. Number(s)' = Number(s) - 1
    BY <1>1, <1>6, <1>8, <1>11, Zenon
  <2>2. Number(s) \in Nat /\ Number(s)' \in Nat
    BY <1>1, <1>5, <1>8, <1>10, <1>11, Zenon
  <2> QED BY <1>11, <2>1, <2>2
<1>12. CASE signIn[c] # s /\ to = s
  <2>1. Number(s)' = Number(s) + 1
    BY <1>2, <1>7, <1>8, <1>12, Zenon
  <2>2. Number(s) \in Nat
    BY <1>5, <1>8, Zenon
  <2> QED BY <1>12, <2>1, <2>2
<1>13. CASE signIn[c] # s /\ to # s
  BY <1>3, <1>5, <1>8, <1>13
<1>14. CASE signIn[c] = s /\ to = s
  BY <1>4, <1>5, <1>8, <1>14
<1> QED BY <1>11, <1>12, <1>13, <1>14, Zenon

\* Where nothing moves, nothing changes.
LEMMA NoneMoves ==
  ASSUME UNCHANGED signIn, NEW s
  PROVE  Number(s)' = Number(s)
BY DEF Number, Doing

\* The counters stay what they are, and no more calls die than the bound says.
LEMMA SignInKeepsTypes == SignInTypeOK /\ [SignInNext]_signInVars => SignInTypeOK'
<1> SUFFICES ASSUME SignInTypeOK, [SignInNext]_signInVars PROVE SignInTypeOK'
  OBVIOUS
<1> USE SignInAssumption DEF SignInTypeOK, limiterVars, lockVars
<1>1. CASE WindowEnds
  <2>1. /\ hits' = 0 /\ expiring' = FALSE
        /\ UNCHANGED <<attempts, locked, signIn, guesses, signInDeaths>>
    BY <1>1 DEF WindowEnds
  <2>2. 0 \in 0..LoginMax + 1
    OBVIOUS
  <2> QED BY <2>1, <2>2, Zenon
<1>2. CASE LockLapses
  BY <1>2 DEF LockLapses
<1>3. ASSUME NEW c \in Callers, Hit(c) PROVE SignInTypeOK'
  BY <1>3 DEF Hit, Step
<1>4. ASSUME NEW c \in Callers, SetExpiry(c) PROVE SignInTypeOK'
  BY <1>4 DEF SetExpiry, Step
<1>5. ASSUME NEW c \in Callers, FindUser(c) PROVE SignInTypeOK'
  BY <1>5 DEF FindUser, Step
<1>6. ASSUME NEW c \in Callers, RightPassword(c) PROVE SignInTypeOK'
  BY <1>6 DEF RightPassword, Step
<1>7. ASSUME NEW c \in Callers, WrongPassword(c) PROVE SignInTypeOK'
  BY <1>7 DEF WrongPassword, Step
<1>8. ASSUME NEW c \in Callers, Reset(c) PROVE SignInTypeOK'
  BY <1>8 DEF Reset, Step
<1>9. ASSUME NEW c \in Callers, IncrementLoginAttempts(c) PROVE SignInTypeOK'
  BY <1>9 DEF IncrementLoginAttempts, Step
<1>10. ASSUME NEW c \in Callers, SetLockedUntil(c) PROVE SignInTypeOK'
  BY <1>10 DEF SetLockedUntil, Step
<1>11. ASSUME NEW c \in Callers, SignInDies(c) PROVE SignInTypeOK'
  BY <1>11 DEF SignInDies
<1>12. CASE UNCHANGED signInVars
  BY <1>12 DEF signInVars
<1> QED
  BY <1>1, <1>2, <1>3, <1>4, <1>5, <1>6, <1>7, <1>8, <1>9, <1>10, <1>11, <1>12 DEF SignInNext

\* A caller's own step leaves the others where they are.
LEMMA CounterKeepsExpiring ==
  SignInTypeOK /\ CounterExpires /\ [SignInNext]_signInVars => CounterExpires'
<1> SUFFICES ASSUME SignInTypeOK, CounterExpires, [SignInNext]_signInVars, hits' > 0
             PROVE  \/ expiring'
                    \/ \E c \in Callers : signIn'[c] = "expire"
                    \/ signInDeaths' > 0
  BY DEF CounterExpires
<1> USE SignInAssumption DEF limiterVars, lockVars
<1>1. ASSUME NEW c \in Callers, signIn[c] # "expire", NEW to,
             signIn' = [signIn EXCEPT ![c] = to],
             hits' = hits, expiring' = expiring, signInDeaths' = signInDeaths
      PROVE  \/ expiring'
             \/ \E x \in Callers : signIn'[x] = "expire"
             \/ signInDeaths' > 0
  BY <1>1 DEF CounterExpires, SignInTypeOK
<1>2. CASE WindowEnds
  BY <1>2 DEF WindowEnds
<1>3. CASE LockLapses
  BY <1>3 DEF LockLapses, CounterExpires
<1>4. ASSUME NEW c \in Callers, Hit(c)
      PROVE  expiring' \/ (\E x \in Callers : signIn'[x] = "expire") \/ signInDeaths' > 0
  <2>1. CASE hits = 0
    BY <1>4, <2>1 DEF Hit, Step, GivesExpiry, SignInTypeOK
  <2>2. CASE hits > 0
    BY <1>4, <2>2 DEF Hit, Step, CounterExpires, SignInTypeOK
  <2> QED BY <2>1, <2>2 DEF SignInTypeOK
<1>5. ASSUME NEW c \in Callers, SetExpiry(c) PROVE expiring'
  BY <1>5 DEF SetExpiry
<1>6. ASSUME NEW c \in Callers, SignInDies(c) PROVE signInDeaths' > 0
  BY <1>6 DEF SignInDies, SignInTypeOK
<1>7. ASSUME NEW c \in Callers,
             \/ FindUser(c) \/ RightPassword(c) \/ WrongPassword(c)
             \/ Reset(c) \/ IncrementLoginAttempts(c) \/ SetLockedUntil(c)
      PROVE  expiring' \/ (\E x \in Callers : signIn'[x] = "expire") \/ signInDeaths' > 0
  BY <1>1, <1>7 DEF FindUser, RightPassword, WrongPassword, Reset, IncrementLoginAttempts,
                    SetLockedUntil, Step
<1>8. CASE UNCHANGED signInVars
  BY <1>8 DEF signInVars, CounterExpires
<1> QED BY <1>2, <1>3, <1>4, <1>5, <1>6, <1>7, <1>8 DEF SignInNext

\* What is guessed is counted, and the lock is on its way when the limit is
\* reached.
LEMMA GuessesStayCounted ==
  SignInInv /\ [SignInNext]_signInVars =>
    /\ (guesses <= attempts + Number("increment") + signInDeaths)'
    /\ (~locked =>
         guesses <= MAX_LOGIN_ATTEMPTS - 1 + Number("increment") + Number("lock")
                      + signInDeaths)'
    /\ (locked =>
         guesses + Number("verify") <= MAX_LOGIN_ATTEMPTS - 1 + Cardinality(Callers)
                                         + signInDeaths)'
<1> DEFINE I == Number("increment")
           L == Number("lock")
           V == Number("verify")
           Good(a, l, g, d, i, k, v) ==
             /\ g <= a + i + d
             /\ ~l => g <= MAX_LOGIN_ATTEMPTS - 1 + i + k + d
             /\ l => g + v <= MAX_LOGIN_ATTEMPTS - 1 + Cardinality(Callers) + d
<1> SUFFICES ASSUME SignInInv, [SignInNext]_signInVars
             PROVE  Good(attempts', locked', guesses', signInDeaths', I', L', V')
  OBVIOUS
<1>1. Good(attempts, locked, guesses, signInDeaths, I, L, V)
  BY DEF SignInInv
<1>2. /\ I \in Nat /\ L \in Nat /\ V \in Nat
      /\ Cardinality(Callers) \in Nat /\ I + L + V <= Cardinality(Callers)
      /\ attempts \in Nat /\ guesses \in Nat /\ signInDeaths \in Nat /\ locked \in BOOLEAN
      /\ MAX_LOGIN_ATTEMPTS \in Nat \ {0}
  BY NumbersAdd, SignInAssumption DEF SignInInv, SignInTypeOK
<1>3. ASSUME NEW c \in Callers, NEW from, NEW to, Step(c, from, to)
      PROVE  /\ from # "increment" /\ to # "increment" => I' = I
             /\ from = "increment" /\ to # "increment" => I' = I - 1
             /\ from # "increment" /\ to = "increment" => I' = I + 1
             /\ from # "lock" /\ to # "lock" => L' = L
             /\ from = "lock" /\ to # "lock" => L' = L - 1 /\ L > 0
             /\ from # "lock" /\ to = "lock" => L' = L + 1
             /\ from # "verify" /\ to # "verify" => V' = V
             /\ from = "verify" /\ to # "verify" => V' = V - 1
             /\ from # "verify" /\ to = "verify" => V' = V + 1
             /\ I' \in Nat /\ L' \in Nat /\ V' \in Nat
  <2>1. SignInTypeOK /\ signIn[c] = from /\ signIn' = [signIn EXCEPT ![c] = to]
    BY <1>3 DEF Step, SignInInv
  <2> QED BY <2>1, OneMoves, Zenon
<1>4. UNCHANGED signIn => I' = I /\ L' = L /\ V' = V
  BY NoneMoves
<1> HIDE DEF I, L, V
<1> USE DEF limiterVars, lockVars
<1>5. CASE WindowEnds \/ UNCHANGED signInVars
  BY <1>1, <1>4, <1>5 DEF WindowEnds, signInVars
<1>6. CASE LockLapses
  BY <1>2, <1>4, <1>6 DEF LockLapses
<1>7. ASSUME NEW c \in Callers, Hit(c) \/ SetExpiry(c)
      PROVE  Good(attempts', locked', guesses', signInDeaths', I', L', V')
  <2>1. /\ I' = I /\ L' = L /\ V' = V
        /\ UNCHANGED <<attempts, locked, guesses, signInDeaths>>
    BY <1>3, <1>7 DEF Hit, SetExpiry, Step
  <2> QED BY <1>1, <2>1, Zenon
<1>8. ASSUME NEW c \in Callers, FindUser(c)
      PROVE  Good(attempts', locked', guesses', signInDeaths', I', L', V')
  <2>1. /\ I' = I /\ L' = L /\ (locked => V' = V)
        /\ UNCHANGED <<attempts, locked, guesses, signInDeaths>>
    <3>1. Step(c, "find", IF locked THEN "idle" ELSE "verify")
      BY <1>8 DEF FindUser
    <3> QED BY <1>3, <3>1, <1>8 DEF FindUser
  <2> QED BY <1>1, <1>2, <2>1
<1>9. ASSUME NEW c \in Callers, RightPassword(c)
      PROVE  Good(attempts', locked', guesses', signInDeaths', I', L', V')
  <2>1. /\ I' = I /\ L' = L /\ V' = V - 1
        /\ UNCHANGED <<attempts, locked, guesses, signInDeaths>>
    <3>1. Step(c, "verify", "reset")
      BY <1>9 DEF RightPassword
    <3> QED BY <1>3, <3>1, <1>9 DEF RightPassword
  <2> QED BY <1>1, <1>2, <2>1
<1>10. ASSUME NEW c \in Callers, WrongPassword(c)
       PROVE  Good(attempts', locked', guesses', signInDeaths', I', L', V')
  <2>1. /\ I' = I + 1 /\ L' = L /\ V' = V - 1 /\ guesses' = guesses + 1
        /\ UNCHANGED <<attempts, locked, signInDeaths>>
    <3>1. Step(c, "verify", "increment")
      BY <1>10 DEF WrongPassword
    <3> QED BY <1>3, <3>1, <1>10 DEF WrongPassword
  <2> QED BY <1>1, <1>2, <2>1
<1>11. ASSUME NEW c \in Callers, Reset(c)
       PROVE  Good(attempts', locked', guesses', signInDeaths', I', L', V')
  <2>1. I' \in Nat /\ L' \in Nat
    <3>1. Step(c, "reset", "idle")
      BY <1>11 DEF Reset
    <3> QED BY <1>3, <3>1
  <2>2. attempts' = 0 /\ ~locked' /\ guesses' = 0 /\ signInDeaths' = signInDeaths
    BY <1>11 DEF Reset
  <2>3. \A i, k, d \in Nat : \A m \in Nat \ {0} : 0 <= 0 + i + d /\ 0 <= m - 1 + i + k + d
    OBVIOUS
  <2> QED BY <1>2, <2>1, <2>2, <2>3, Zenon
<1>12. ASSUME NEW c \in Callers, IncrementLoginAttempts(c)
       PROVE  Good(attempts', locked', guesses', signInDeaths', I', L', V')
  <2>1. /\ I' = I - 1 /\ V' = V /\ attempts' = attempts + 1
        /\ Locks(attempts') => L' = L + 1
        /\ ~Locks(attempts') => L' = L
        /\ UNCHANGED <<locked, guesses, signInDeaths>>
    <3>1. Step(c, "increment", IF Locks(attempts') THEN "lock" ELSE "idle")
      BY <1>12 DEF IncrementLoginAttempts
    <3> QED BY <1>3, <3>1, <1>12 DEF IncrementLoginAttempts
  <2>2. CASE attempts + 1 >= MAX_LOGIN_ATTEMPTS
    BY <1>1, <1>2, <2>1, <2>2 DEF Locks
  <2>3. CASE attempts + 1 < MAX_LOGIN_ATTEMPTS
    BY <1>1, <1>2, <2>1, <2>3 DEF Locks
  <2> QED BY <1>2, <2>2, <2>3
<1>13. ASSUME NEW c \in Callers, SetLockedUntil(c)
       PROVE  Good(attempts', locked', guesses', signInDeaths', I', L', V')
  <2>1. /\ I' = I /\ L' = L - 1 /\ L > 0 /\ V' = V /\ locked' = TRUE
        /\ UNCHANGED <<attempts, guesses, signInDeaths>>
    <3>1. Step(c, "lock", "idle")
      BY <1>13 DEF SetLockedUntil
    <3> QED BY <1>3, <3>1, <1>13 DEF SetLockedUntil
  <2> QED BY <1>1, <1>2, <2>1
<1>14. ASSUME NEW c \in Callers, SignInDies(c)
       PROVE  Good(attempts', locked', guesses', signInDeaths', I', L', V')
  <2>1. /\ (I' = I /\ L' = L) \/ (I' = I - 1 /\ L' = L) \/ (I' = I /\ L' = L - 1)
        /\ V' = V \/ V' = V - 1
        /\ signInDeaths' = signInDeaths + 1
        /\ UNCHANGED <<attempts, locked, guesses>>
    <3>1. Step(c, signIn[c], "idle")
      BY <1>14 DEF SignInDies, Step
    <3> QED BY <1>3, <3>1, <1>14 DEF SignInDies
  <2> QED BY <1>1, <1>2, <2>1
<1> QED
  BY <1>5, <1>6, <1>7, <1>8, <1>9, <1>10, <1>11, <1>12, <1>13, <1>14 DEF SignInNext

\* Whatever sign-ins overlap or die, every wrong password is counted, about to be
\* counted, or died uncounted.
THEOREM SignInInvariance == SignInSpec => []SignInInv
<1>1. SignInInit => SignInInv
  <2>1. SignInInit => SignInTypeOK
    <3>1. 0 \in 0..LoginMax + 1 /\ 0 \in 0..MaxSignInDeaths /\ 0 \in Nat
      BY SignInAssumption
    <3>2. SignInInit => signIn \in [Callers -> {"idle", "expire", "find", "verify", "reset",
                                               "increment", "lock"}]
      BY DEF SignInInit
    <3> QED BY <3>1, <3>2, Zenon DEF SignInInit, SignInTypeOK
  <2>2. SignInInit => CounterExpires
    BY DEF SignInInit, CounterExpires
  <2>3. ASSUME SignInInit
        PROVE  /\ guesses = 0 /\ attempts = 0 /\ ~locked /\ signInDeaths = 0
               /\ MAX_LOGIN_ATTEMPTS \in Nat \ {0}
               /\ Number("increment") \in Nat /\ Number("lock") \in Nat
    BY <2>3, NumbersAdd, SignInAssumption DEF SignInInit
  <2> QED BY <2>1, <2>2, <2>3 DEF SignInInv
<1>2. SignInInv /\ [SignInNext]_signInVars => SignInInv'
  BY SignInKeepsTypes, CounterKeepsExpiring, GuessesStayCounted, Zenon DEF SignInInv
<1> QED
  BY <1>1, <1>2, PTL DEF SignInSpec

\* However many sign-ins overlap, a counter that holds requests back is going
\* to expire, and the wrong passwords tried before the lock holds exceed the
\* limit by no more than the calls under way and those that died uncounted.
THEOREM SignInAlwaysBounded == SignInSpec => []SignInIsBounded
<1>1. SignInInv => SignInIsBounded
  <2> SUFFICES ASSUME SignInInv PROVE GuessesAreBounded
    BY DEF SignInInv, SignInIsBounded
  <2>1. /\ guesses \in Nat /\ signInDeaths \in Nat /\ locked \in BOOLEAN
        /\ MAX_LOGIN_ATTEMPTS \in Nat
    BY SignInAssumption DEF SignInInv, SignInTypeOK
  <2>2. /\ Cardinality(Callers) \in Nat
        /\ Number("increment") \in Nat /\ Number("lock") \in Nat /\ Number("verify") \in Nat
        /\ Number("increment") + Number("lock") + Number("verify") <= Cardinality(Callers)
    BY NumbersAdd
  <2>3. CASE locked
    BY <2>1, <2>2, <2>3 DEF SignInInv, GuessesAreBounded
  <2>4. CASE ~locked
    BY <2>1, <2>2, <2>4 DEF SignInInv, GuessesAreBounded
  <2> QED BY <2>3, <2>4
<1> QED
  BY <1>1, SignInInvariance, PTL
-----------------------------------------------------------------------------
(* Managers' invitations.                                                  *)

Steps == {"idle", "account", "accepted", "promote", "profile", "approved", "rejected",
          "rotate", "revoke"}
Calls == [at : Steps, invite : Invites \union {Nobody}, user : Candidates \union {Nobody}]
Rows == [status : {"ACTIVE", "USED", "REVOKED"},
         approval : {"none", "PENDING_REVIEW", "APPROVED", "REJECTED"},
         acceptedBy : Candidates \union {Nobody}]

InvitesTypes ==
  /\ invite \in [Invites -> Rows]
  /\ createdBy \in [Candidates -> Invites \union {Nobody}]
  /\ profile \in [Candidates -> Invites \union {Nobody}]
  /\ managers \subseteq Candidates
  /\ clerk \in [Clerks -> Calls]
  /\ crossed \in BOOLEAN /\ inviteDeaths \in Nat

\* What a call has already done, whatever the others do.
CallsKnow ==
  \A k \in Clerks :
    /\ clerk[k].at # "idle" => The(k) \in Invites
    /\ clerk[k].at \in {"accepted", "promote", "profile", "approved"} =>
         clerk[k].user \in Candidates /\ createdBy[clerk[k].user] = The(k)
    /\ clerk[k].at \in {"profile", "approved"} => clerk[k].user \in managers
    /\ clerk[k].at = "approved" => profile[clerk[k].user] = The(k)

\* What the rows say of each other, whatever calls race.
RowsAgree ==
  /\ \A i \in Invites : invite[i].acceptedBy # Nobody => createdBy[invite[i].acceptedBy] = i
  /\ \A u \in Candidates : profile[u] # Nobody => profile[u] = createdBy[u] /\ u \in managers
  /\ \A u \in managers : createdBy[u] # Nobody

\* Calls that have not crossed are one at a time.
OneClerk ==
  ~ crossed => \A k, l \in Clerks : clerk[k].at # "idle" /\ clerk[l].at # "idle" => k = l

Serial == ~ crossed /\ inviteDeaths = 0

\* What a call knows of its invitation, as long as it is alone.
SerialCalls ==
  Serial =>
    \A k \in Clerks :
      /\ clerk[k].at \in {"account", "accepted", "rotate", "revoke"} =>
           invite[The(k)].acceptedBy = Nobody
      /\ clerk[k].at \in {"promote", "profile", "approved"} =>
           /\ invite[The(k)].approval = "PENDING_REVIEW"
           /\ invite[The(k)].acceptedBy = clerk[k].user
      /\ clerk[k].at = "rejected" => invite[The(k)].approval = "PENDING_REVIEW"
      /\ clerk[k].at = "promote" => clerk[k].user \notin managers
      /\ clerk[k].at = "profile" => profile[clerk[k].user] = Nobody

\* And what the rows say between its steps.
SerialRows ==
  Serial =>
    /\ \A i \in Invites :
         /\ invite[i].acceptedBy # Nobody => invite[i].status = "USED"
         /\ invite[i].approval # "none" => invite[i].acceptedBy # Nobody
    /\ \A u \in Candidates : createdBy[u] # Nobody =>
         \/ invite[createdBy[u]].acceptedBy = u
         \/ \E k \in Clerks :
              clerk[k].at = "accepted" /\ The(k) = createdBy[u] /\ clerk[k].user = u
    /\ \A u \in managers :
         \/ invite[createdBy[u]].approval = "APPROVED"
         \/ \E k \in Clerks : clerk[k].at \in {"profile", "approved"} /\ The(k) = createdBy[u]

\* An approved invitation's profile, with the manager whose it is.
Approved ==
  \A i \in Invites : invite[i].approval = "APPROVED" =>
    \E u \in Candidates : createdBy[u] = i /\ profile[u] = i /\ u \in managers

InvitesInv ==
  /\ InvitesTypes /\ CallsKnow /\ RowsAgree /\ OneClerk
  /\ SerialCalls /\ SerialRows /\ Approved /\ ManagersHaveProfiles
-----------------------------------------------------------------------------
\* Nobody was invited yet who has accepted.
LEMMA InitInvitesInv == InvitesInit => InvitesInv
<1> SUFFICES ASSUME InvitesInit PROVE InvitesInv
  OBVIOUS
<1> USE InvitesAssumption DEF InvitesInit, NoCall
<1>1. InvitesTypes
  BY DEF InvitesTypes, Rows, Calls, Steps
<1>2. CallsKnow /\ RowsAgree /\ OneClerk
  BY DEF CallsKnow, RowsAgree, OneClerk, The
<1>3. SerialCalls /\ SerialRows
  BY DEF SerialCalls, SerialRows, Serial
<1>4. Approved /\ ManagersHaveProfiles
  BY DEF Approved, ManagersHaveProfiles
<1> QED
  BY <1>1, <1>2, <1>3, <1>4 DEF InvitesInv

\* A call that begins, knowing of its invitation what SerialCalls asks.
LEMMA StartsInv ==
  ASSUME InvitesInv, NEW k \in Clerks, NEW i \in Invites,
         NEW step \in {"account", "promote", "rejected", "rotate", "revoke"},
         Starts(k, step, i),
         step = "promote" => invite[i].acceptedBy # Nobody,
         Serial /\ step \in {"account", "rotate", "revoke"} => invite[i].acceptedBy = Nobody,
         step \in {"promote", "rejected"} => invite[i].approval = "PENDING_REVIEW"
  PROVE  InvitesInv'
<1> USE InvitesAssumption DEF InvitesInv, Starts, accountVars, The
<1>1. /\ clerk[k].at = "idle"
      /\ clerk'[k].at = step /\ clerk'[k].invite = i /\ clerk'[k].user = invite[i].acceptedBy
      /\ \A l \in Clerks \ {k} : clerk'[l] = clerk[l]
      /\ UNCHANGED <<invite, createdBy, profile, managers, inviteDeaths>>
      /\ ~ crossed' => ~ crossed /\ \A l \in Clerks \ {k} : clerk[l].at = "idle"
  BY DEF InvitesTypes
<1>2. InvitesTypes'
  BY DEF InvitesTypes, Calls, Rows, Steps
<1>3. CallsKnow'
  BY <1>1 DEF CallsKnow, RowsAgree, InvitesTypes, Rows
<1>4. RowsAgree' /\ Approved'
  BY <1>1 DEF RowsAgree, Approved
<1>5. OneClerk'
  BY <1>1 DEF OneClerk
<1>6. SerialRows'
  <2>1. ASSUME Serial', NEW u \in Candidates, createdBy[u] # Nobody
        PROVE  invite[createdBy[u]].acceptedBy = u
    BY <1>1, <2>1 DEF SerialRows, Serial
  <2>2. ASSUME Serial', NEW u \in managers
        PROVE  invite[createdBy[u]].approval = "APPROVED"
    BY <1>1, <2>2 DEF SerialRows, Serial
  <2> QED
    BY <1>1, <2>1, <2>2 DEF SerialRows, Serial
<1>7. SerialCalls'
  <2>1. ASSUME Serial', step = "promote" PROVE clerk'[k].user \notin managers
    <3>1. clerk'[k].user \in Candidates /\ createdBy[clerk'[k].user] = i
      BY <1>1, <2>1 DEF RowsAgree, InvitesTypes, Rows
    <3>2. invite[i].approval # "APPROVED"
      BY <2>1
    <3> QED
      BY <1>1, <2>1, <3>1, <3>2 DEF SerialRows, Serial
  <2> QED
    BY <1>1, <2>1 DEF SerialCalls, Serial
<1>8. ManagersHaveProfiles'
  BY <1>1 DEF ManagersHaveProfiles
<1> QED
  BY <1>2, <1>3, <1>4, <1>5, <1>6, <1>7, <1>8

\* The calls that begin.
LEMMA ArrivalsInv ==
  ASSUME InvitesInv, NEW k \in Clerks, NEW i \in Invites,
         Accept(k, i) \/ Approve(k, i) \/ Reject(k, i) \/ Regenerate(k, i) \/ Revoke(k, i)
  PROVE  InvitesInv'
<1>1. Serial /\ invite[i].status # "USED" => invite[i].acceptedBy = Nobody
  BY DEF InvitesInv, SerialRows
<1>2. CASE Accept(k, i)
  BY <1>1, <1>2, StartsInv DEF Accept, Redeemable
<1>3. CASE Approve(k, i)
  BY <1>3, StartsInv DEF Approve, UnderReview
<1>4. CASE Reject(k, i)
  BY <1>4, StartsInv DEF Reject, UnderReview
<1>5. CASE Regenerate(k, i)
  BY <1>1, <1>5, StartsInv DEF Regenerate
<1>6. CASE Revoke(k, i)
  BY <1>1, <1>6, StartsInv DEF Revoke
<1> QED
  BY <1>2, <1>3, <1>4, <1>5, <1>6

\* An account for the candidate, which commits on its own.
LEMMA CreateAccountInv ==
  ASSUME InvitesInv, NEW k \in Clerks, CreateAccount(k)
  PROVE  InvitesInv'
<1> USE InvitesAssumption DEF InvitesInv, The
<1>1. PICK u \in Candidates :
        /\ createdBy[u] = Nobody
        /\ Continues(k, "account", [at |-> "accepted", invite |-> The(k), user |-> u])
        /\ createdBy' = [createdBy EXCEPT ![u] = The(k)]
        /\ UNCHANGED <<invite, managers, profile>>
  BY DEF CreateAccount
<1>2. /\ clerk[k].at = "account" /\ The(k) \in Invites
      /\ clerk'[k].at = "accepted" /\ clerk'[k].invite = clerk[k].invite /\ clerk'[k].user = u
      /\ \A l \in Clerks \ {k} : clerk'[l] = clerk[l]
      /\ createdBy'[u] = The(k) /\ \A v \in Candidates \ {u} : createdBy'[v] = createdBy[v]
      /\ UNCHANGED <<invite, profile, managers, crossed, inviteDeaths>>
  BY <1>1 DEF InvitesTypes, Continues, CallsKnow
<1>3. InvitesTypes'
  BY <1>1, <1>2 DEF InvitesTypes, Calls, Steps, Continues
<1>4. CallsKnow'
  BY <1>1, <1>2 DEF CallsKnow
<1>5. RowsAgree' /\ Approved'
  BY <1>1, <1>2 DEF RowsAgree, Approved, InvitesTypes, Rows
<1>6. OneClerk'
  BY <1>2 DEF OneClerk
<1>7. SerialCalls'
  BY <1>2 DEF SerialCalls, Serial
<1>8. SerialRows'
  <2>1. u \notin managers
    BY <1>1 DEF RowsAgree
  <2> QED
    BY <1>1, <1>2, <2>1 DEF SerialRows, Serial, InvitesTypes
<1>9. ManagersHaveProfiles'
  <2>1. u \notin managers
    BY <1>1 DEF RowsAgree
  <2>2. ASSUME NEW m \in managers
        PROVE  \/ profile[m] = createdBy'[m]
               \/ \E l \in Clerks : clerk'[l].at = "profile" /\ clerk'[l].user = m
               \/ inviteDeaths > 0
               \/ \E v \in Candidates \ {m} : createdBy'[v] = createdBy'[m]
    <3>1. m \in Candidates /\ m # u /\ createdBy'[m] = createdBy[m] /\ createdBy[m] # Nobody
      BY <1>2, <2>1 DEF InvitesTypes, RowsAgree
    <3>2. CASE \E v \in Candidates \ {m} : createdBy[v] = createdBy[m]
      <4>1. PICK v \in Candidates \ {m} : createdBy[v] = createdBy[m]
        BY <3>2
      <4>2. v # u
        BY <1>1, <3>1, <4>1
      <4> QED
        BY <1>2, <3>1, <4>1, <4>2
    <3>3. CASE \E l \in Clerks : clerk[l].at = "profile" /\ clerk[l].user = m
      BY <1>2, <3>3
    <3> QED
      BY <3>1, <3>2, <3>3 DEF ManagersHaveProfiles
  <2> QED
    BY <1>2, <2>2 DEF ManagersHaveProfiles
<1> QED
  BY <1>3, <1>4, <1>5, <1>6, <1>7, <1>8, <1>9

\* A call's last step, which writes its invitation: what it may write.
LEMMA WritesInviteInv ==
  ASSUME InvitesInv, NEW k \in Clerks, NEW row \in Rows,
         clerk[k].at \in {"accepted", "approved", "rejected", "rotate", "revoke"},
         Continues(k, clerk[k].at, NoCall), UNCHANGED accountVars,
         invite' = [invite EXCEPT ![The(k)] = row],
         row.acceptedBy # Nobody => createdBy[row.acceptedBy] = The(k),
         row.approval = "APPROVED" =>
           clerk[k].at = "approved" \/ invite[The(k)].approval = "APPROVED",
         Serial =>
           /\ row.acceptedBy =
                IF clerk[k].at = "accepted" THEN clerk[k].user ELSE invite[The(k)].acceptedBy
           /\ row.acceptedBy # Nobody => row.status = "USED"
           /\ row.approval # "none" => row.acceptedBy # Nobody
           /\ clerk[k].at = "approved" => row.approval = "APPROVED"
  PROVE  InvitesInv'
<1> USE InvitesAssumption DEF InvitesInv, The, NoCall
<1> DEFINE i == clerk[k].invite
<1>1. /\ i \in Invites
      /\ clerk'[k].at = "idle" /\ \A l \in Clerks \ {k} : clerk'[l] = clerk[l]
      /\ invite'[i] = row /\ \A j \in Invites \ {i} : invite'[j] = invite[j]
      /\ UNCHANGED <<createdBy, profile, managers, crossed, inviteDeaths>>
  BY DEF InvitesTypes, Continues, CallsKnow, accountVars
<1>2. InvitesTypes'
  BY <1>1 DEF InvitesTypes, Calls, Steps, Continues
<1> HIDE DEF i
<1>3. CallsKnow'
  BY <1>1 DEF CallsKnow
<1>4. RowsAgree'
  BY <1>1 DEF RowsAgree, i
<1>5. Approved'
  <2>1. ASSUME row.approval = "APPROVED"
        PROVE  \E u \in Candidates : createdBy[u] = i /\ profile[u] = i /\ u \in managers
    BY <1>1, <2>1 DEF Approved, CallsKnow, i
  <2> QED
    BY <1>1, <2>1 DEF Approved
<1>6. OneClerk'
  BY <1>1 DEF OneClerk
<1>7. Serial => \A l \in Clerks : clerk'[l].at = "idle"
  BY <1>1 DEF OneClerk, Serial
<1>8. SerialCalls'
  BY <1>1, <1>7 DEF SerialCalls, Serial
<1>9. SerialRows'
  <2> SUFFICES ASSUME Serial PROVE SerialRows'
    BY <1>1 DEF SerialRows, Serial
  <2>1. \A j \in Invites : /\ invite'[j].acceptedBy # Nobody => invite'[j].status = "USED"
                           /\ invite'[j].approval # "none" => invite'[j].acceptedBy # Nobody
    BY <1>1 DEF SerialRows, i
  <2>2. ASSUME NEW u \in Candidates, createdBy[u] # Nobody
        PROVE  invite'[createdBy[u]].acceptedBy = u
    <3>1. CASE invite[createdBy[u]].acceptedBy = u
      BY <1>1, <2>2, <3>1 DEF SerialCalls, i, InvitesTypes
    <3>2. ASSUME NEW l \in Clerks, clerk[l].at = "accepted", clerk[l].invite = createdBy[u],
                 clerk[l].user = u
          PROVE  invite'[createdBy[u]].acceptedBy = u
      BY <1>1, <3>2 DEF OneClerk, Serial, i
    <3> QED
      BY <2>2, <3>1, <3>2 DEF SerialRows
  <2>3. ASSUME NEW u \in managers
        PROVE  invite'[createdBy[u]].approval = "APPROVED"
    <3>1. \/ invite[createdBy[u]].approval = "APPROVED"
          \/ createdBy[u] = i /\ clerk[k].at = "approved"
      BY DEF SerialRows, OneClerk, Serial, i
    <3>2. createdBy[u] \in Invites
      BY DEF RowsAgree, InvitesTypes
    <3>3. CASE createdBy[u] = i /\ clerk[k].at = "approved"
      BY <1>1, <3>3 DEF i
    <3>4. CASE invite[createdBy[u]].approval = "APPROVED" /\ createdBy[u] # i
      BY <1>1, <3>2, <3>4
    <3>5. clerk[k].at # "approved" => invite[i].approval # "APPROVED"
      BY <1>1 DEF SerialRows, SerialCalls, i
    <3> QED
      BY <3>1, <3>3, <3>4, <3>5
  <2> QED
    BY <1>1, <2>1, <2>2, <2>3 DEF SerialRows
<1>10. ManagersHaveProfiles'
  BY <1>1 DEF ManagersHaveProfiles
<1> QED
  BY <1>2, <1>3, <1>4, <1>5, <1>6, <1>8, <1>9, <1>10

\* The steps that end a call so.
LEMMA MarksInv ==
  ASSUME InvitesInv, NEW k \in Clerks,
         MarkAccepted(k) \/ MarkApproved(k) \/ MarkRejected(k) \/ RotateToken(k) \/ MarkRevoked(k)
  PROVE  InvitesInv'
<1> DEFINE i == The(k)
           old == invite[i]
<1>1. invite \in [Invites -> Rows] /\ clerk[k] \in Calls
  BY DEF InvitesInv, InvitesTypes
<1>2. clerk[k].at # "idle" => i \in Invites /\ old \in Rows
  BY <1>1 DEF InvitesInv, CallsKnow
<1>3. old.acceptedBy # Nobody /\ clerk[k].at # "idle" => createdBy[old.acceptedBy] = i
  BY <1>2 DEF InvitesInv, RowsAgree
<1>4. Serial /\ clerk[k].at # "idle" =>
        /\ old.acceptedBy # Nobody => old.status = "USED"
        /\ old.approval # "none" => old.acceptedBy # Nobody
  BY <1>2 DEF InvitesInv, SerialRows
<1>5. CASE MarkAccepted(k)
  <2> DEFINE row == [status |-> "USED", approval |-> "PENDING_REVIEW", acceptedBy |-> clerk[k].user]
  <2>1. /\ Continues(k, "accepted", NoCall) /\ UNCHANGED accountVars
        /\ invite' = [invite EXCEPT ![The(k)] = row]
    BY <1>5 DEF MarkAccepted
  <2>2. clerk[k].at = "accepted" /\ clerk[k].user \in Candidates /\ createdBy[clerk[k].user] = The(k)
    BY <2>1 DEF Continues, InvitesInv, CallsKnow
  <2>3. /\ row \in Rows /\ row.acceptedBy = clerk[k].user /\ row.status = "USED"
        /\ row.approval = "PENDING_REVIEW"
    BY <2>2 DEF Rows
  <2> HIDE DEF row
  <2> QED
    BY <2>1, <2>2, <2>3, InvitesAssumption, WritesInviteInv
<1>6. CASE MarkApproved(k)
  <2> DEFINE row == [status |-> old.status, approval |-> "APPROVED", acceptedBy |-> old.acceptedBy]
  <2>1. Continues(k, "approved", NoCall) /\ UNCHANGED accountVars /\ clerk[k].at = "approved"
    BY <1>6 DEF MarkApproved, Continues
  <2>2. [old EXCEPT !.approval = "APPROVED"] = row /\ row \in Rows
    BY <1>2, <2>1 DEF Rows
  <2>3. invite' = [invite EXCEPT ![i] = [old EXCEPT !.approval = "APPROVED"]]
    BY <1>6, Zenon DEF MarkApproved
  <2>4. row.acceptedBy = old.acceptedBy /\ row.status = old.status /\ row.approval = "APPROVED"
    OBVIOUS
  <2>5. Serial => old.approval = "PENDING_REVIEW"
    BY <2>1 DEF InvitesInv, SerialCalls
  <2> HIDE DEF row
  <2> QED
    BY <1>3, <1>4, <2>1, <2>2, <2>3, <2>4, <2>5, WritesInviteInv
<1>7. CASE MarkRejected(k)
  <2> DEFINE row == [status |-> old.status, approval |-> "REJECTED", acceptedBy |-> old.acceptedBy]
  <2>1. Continues(k, "rejected", NoCall) /\ UNCHANGED accountVars /\ clerk[k].at = "rejected"
    BY <1>7 DEF MarkRejected, Continues
  <2>2. [old EXCEPT !.approval = "REJECTED"] = row /\ row \in Rows
    BY <1>2, <2>1 DEF Rows
  <2>3. invite' = [invite EXCEPT ![i] = [old EXCEPT !.approval = "REJECTED"]]
    BY <1>7, Zenon DEF MarkRejected
  <2>4. row.acceptedBy = old.acceptedBy /\ row.status = old.status /\ row.approval = "REJECTED"
    OBVIOUS
  <2>5. Serial => old.approval = "PENDING_REVIEW"
    BY <2>1 DEF InvitesInv, SerialCalls
  <2> HIDE DEF row
  <2> QED
    BY <1>3, <1>4, <2>1, <2>2, <2>3, <2>4, <2>5, WritesInviteInv
<1>8. ASSUME NEW at \in {"rotate", "revoke"}, NEW new \in {"ACTIVE", "REVOKED"},
             Continues(k, at, NoCall), UNCHANGED accountVars,
             invite' = [invite EXCEPT ![i] = [old EXCEPT !.status = new]]
      PROVE  InvitesInv'
  <2> DEFINE row == [status |-> new, approval |-> old.approval, acceptedBy |-> old.acceptedBy]
  <2>1. clerk[k].at = at
    BY <1>8 DEF Continues
  <2>2. [old EXCEPT !.status = new] = row /\ row \in Rows
    BY <1>2, <2>1 DEF Rows
  <2>3. row.acceptedBy = old.acceptedBy /\ row.approval = old.approval
    OBVIOUS
  <2>4. Serial => old.acceptedBy = Nobody
    BY <2>1 DEF InvitesInv, SerialCalls
  <2> HIDE DEF row
  <2> QED
    BY <1>3, <1>4, <1>8, <2>1, <2>2, <2>3, <2>4, WritesInviteInv
<1>9. CASE RotateToken(k)
  <2>1. invite' = [invite EXCEPT ![i] = [old EXCEPT !.status = "ACTIVE"]]
    BY <1>9, Zenon DEF RotateToken
  <2> QED
    BY <1>8, <1>9, <2>1 DEF RotateToken
<1>10. CASE MarkRevoked(k)
  <2>1. invite' = [invite EXCEPT ![i] = [old EXCEPT !.status = "REVOKED"]]
    BY <1>10, Zenon DEF MarkRevoked
  <2> QED
    BY <1>8, <1>10, <2>1 DEF MarkRevoked
<1> QED
  BY <1>5, <1>6, <1>7, <1>9, <1>10

\* The candidate becomes a manager; the profile is still to come.
LEMMA PromoteInv ==
  ASSUME InvitesInv, NEW k \in Clerks, Promote(k)
  PROVE  InvitesInv'
<1> USE InvitesAssumption DEF InvitesInv, The
<1> DEFINE u == clerk[k].user
<1>1. /\ clerk[k].at = "promote" /\ u \in Candidates /\ createdBy[u] = clerk[k].invite
      /\ clerk[k].invite \in Invites
      /\ clerk' = [clerk EXCEPT ![k] = [clerk[k] EXCEPT !.at = "profile"]]
      /\ managers' = managers \union {u}
      /\ UNCHANGED <<invite, createdBy, profile, crossed, inviteDeaths>>
  BY DEF Promote, Continues, CallsKnow
<1>2. /\ clerk'[k].at = "profile" /\ clerk'[k].invite = clerk[k].invite /\ clerk'[k].user = u
      /\ \A l \in Clerks \ {k} : clerk'[l] = clerk[l]
      /\ clerk' \in [Clerks -> Calls]
  BY <1>1 DEF InvitesTypes, Calls, Steps
<1> HIDE DEF u
<1>3. InvitesTypes'
  BY <1>1, <1>2 DEF InvitesTypes
<1>4. CallsKnow'
  BY <1>1, <1>2 DEF CallsKnow, u
<1>5. RowsAgree' /\ Approved'
  BY <1>1 DEF RowsAgree, Approved
<1>6. OneClerk'
  BY <1>1, <1>2 DEF OneClerk
<1>7. Serial => \A l \in Clerks \ {k} : clerk[l].at = "idle"
  BY <1>1 DEF OneClerk, Serial
<1>8. SerialCalls'
  <2>1. Serial => profile[u] = Nobody
    BY <1>1 DEF SerialCalls, RowsAgree, u
  <2> QED
    BY <1>1, <1>2, <1>7, <2>1 DEF SerialCalls, Serial, u
<1>9. SerialRows'
  BY <1>1, <1>2 DEF SerialRows, Serial
<1>10. ManagersHaveProfiles'
  BY <1>1, <1>2 DEF ManagersHaveProfiles
<1> QED
  BY <1>3, <1>4, <1>5, <1>6, <1>8, <1>9, <1>10

\* Its profile, unless a unique column is in the way: then the manager has one
\* already, or another candidate of the invitation has.
LEMMA CreateProfileInv ==
  ASSUME InvitesInv, NEW k \in Clerks, CreateProfile(k)
  PROVE  InvitesInv'
<1> USE InvitesAssumption DEF InvitesInv, The
<1> DEFINE u == clerk[k].user
           i == clerk[k].invite
<1>1. /\ clerk[k].at = "profile" /\ u \in Candidates /\ createdBy[u] = i /\ i \in Invites
      /\ u \in managers
      /\ UNCHANGED <<invite, createdBy, managers, crossed, inviteDeaths>>
  BY DEF CreateProfile, Continues, CallsKnow
<1>2. Serial => \A l \in Clerks \ {k} : clerk[l].at = "idle"
  BY <1>1 DEF OneClerk, Serial
<1>3. CASE ProfileConflicts(k)
  <2>1. /\ profile' = profile /\ clerk' = [clerk EXCEPT ![k] = NoCall]
    BY <1>3 DEF CreateProfile, Continues
  <2>2. /\ clerk'[k].at = "idle" /\ \A l \in Clerks \ {k} : clerk'[l] = clerk[l]
        /\ clerk' \in [Clerks -> Calls]
    BY <2>1 DEF InvitesTypes, Calls, Steps, NoCall
  <2>3. ~ Serial
    <3>1. ASSUME Serial PROVE FALSE
      <4>1. profile[u] = Nobody /\ invite[i].acceptedBy = u
            /\ invite[i].approval = "PENDING_REVIEW"
        BY <1>1, <3>1 DEF SerialCalls
      <4>2. PICK v \in Candidates : profile[v] = i
        BY <1>3, <4>1 DEF ProfileConflicts
      <4>3. createdBy[v] = i /\ v # u
        BY <1>1, <4>1, <4>2 DEF RowsAgree
      <4>4. \A l \in Clerks : clerk[l].at # "accepted"
        BY <1>1, <1>2, <3>1
      <4> QED
        BY <1>1, <3>1, <4>1, <4>3, <4>4 DEF SerialRows
    <3> QED
      BY <3>1
  <2>4. ~ Serial'
    BY <1>1, <2>3 DEF Serial
  <2> HIDE DEF u, i
  <2>5. InvitesTypes'
    BY <1>1, <2>1, <2>2 DEF InvitesTypes
  <2>6. CallsKnow' /\ RowsAgree' /\ OneClerk' /\ Approved'
    BY <1>1, <2>1, <2>2 DEF CallsKnow, RowsAgree, OneClerk, Approved
  <2>7. ManagersHaveProfiles'
    <3>1. profile[u] = createdBy[u] \/ \E v \in Candidates \ {u} : createdBy[v] = createdBy[u]
      BY <1>1, <1>3 DEF ProfileConflicts, RowsAgree, u, i
    <3>2. ASSUME NEW v \in managers, v # u,
                 NEW l \in Clerks, clerk[l].at = "profile", clerk[l].user = v
          PROVE  clerk'[l].at = "profile" /\ clerk'[l].user = v
      BY <2>2, <3>2 DEF u
    <3> QED
      BY <1>1, <2>1, <3>1, <3>2 DEF ManagersHaveProfiles
  <2> QED
    BY <2>4, <2>5, <2>6, <2>7 DEF SerialCalls, SerialRows
<1>4. CASE ~ ProfileConflicts(k)
  <2>1. /\ profile' = [profile EXCEPT ![u] = i]
        /\ clerk' = [clerk EXCEPT ![k] = [clerk[k] EXCEPT !.at = "approved"]]
    BY <1>4 DEF CreateProfile, Continues
  <2>2. /\ clerk'[k].at = "approved" /\ clerk'[k].invite = i /\ clerk'[k].user = u
        /\ \A l \in Clerks \ {k} : clerk'[l] = clerk[l]
        /\ clerk' \in [Clerks -> Calls]
    BY <2>1 DEF InvitesTypes, Calls, Steps
  <2>3. /\ profile[u] = Nobody /\ profile'[u] = i
        /\ \A v \in Candidates \ {u} : profile'[v] = profile[v]
        /\ profile' \in [Candidates -> Invites \union {Nobody}]
    BY <1>1, <1>4, <2>1 DEF ProfileConflicts, InvitesTypes
  <2> HIDE DEF u, i
  <2>4. InvitesTypes'
    BY <1>1, <2>2, <2>3 DEF InvitesTypes
  <2>5. CallsKnow'
    BY <1>1, <2>2, <2>3 DEF CallsKnow, u, i
  <2>6. RowsAgree'
    BY <1>1, <2>3 DEF RowsAgree
  <2>7. OneClerk'
    BY <1>1, <2>2 DEF OneClerk
  <2>8. Approved'
    BY <1>1, <2>3 DEF Approved
  <2>9. SerialCalls'
    BY <1>1, <1>2, <2>2 DEF SerialCalls, Serial, u, i
  <2>10. SerialRows'
    BY <1>1, <1>2, <2>2 DEF SerialRows, Serial, i
  <2>11. ManagersHaveProfiles'
    <3>1. ASSUME NEW v \in managers, v # u,
                 NEW l \in Clerks, clerk[l].at = "profile", clerk[l].user = v
          PROVE  clerk'[l].at = "profile" /\ clerk'[l].user = v
      BY <2>2, <3>1 DEF u
    <3> QED
      BY <1>1, <2>3, <3>1 DEF ManagersHaveProfiles, InvitesTypes
  <2> QED
    BY <2>4, <2>5, <2>6, <2>7, <2>8, <2>9, <2>10, <2>11
<1> QED
  BY <1>3, <1>4

\* A call whose process dies.
LEMMA ClerkDiesInv ==
  ASSUME InvitesInv, NEW k \in Clerks, ClerkDies(k)
  PROVE  InvitesInv'
<1> USE InvitesAssumption DEF InvitesInv, The, accountVars, ClerkDies, NoCall
<1>1. /\ clerk'[k].at = "idle" /\ \A l \in Clerks \ {k} : clerk'[l] = clerk[l]
      /\ clerk' \in [Clerks -> Calls]
  BY DEF InvitesTypes, Calls, Steps
<1>2. inviteDeaths' \in Nat /\ inviteDeaths' > 0
  BY DEF InvitesTypes
<1>3. InvitesTypes'
  BY <1>1, <1>2 DEF InvitesTypes
<1>4. CallsKnow' /\ RowsAgree' /\ OneClerk' /\ Approved'
  BY <1>1 DEF CallsKnow, RowsAgree, OneClerk, Approved
<1> QED
  BY <1>2, <1>3, <1>4 DEF SerialCalls, SerialRows, Serial, ManagersHaveProfiles

\* Every step keeps the invariant.
LEMMA InvitesStepInv == InvitesInv /\ [InvitesNext]_inviteVars => InvitesInv'
<1> SUFFICES ASSUME InvitesInv, [InvitesNext]_inviteVars PROVE InvitesInv'
  OBVIOUS
<1>1. CASE UNCHANGED inviteVars \/ \E i \in Invites : InviteExpires(i)
  <2>1. UNCHANGED <<invite, createdBy, managers, profile, clerk, crossed, inviteDeaths>>
    BY <1>1 DEF inviteVars, accountVars, InviteExpires
  <2> USE <2>1 DEF InvitesInv, The
  <2>2. InvitesTypes' /\ CallsKnow' /\ RowsAgree' /\ OneClerk'
    BY DEF InvitesTypes, CallsKnow, RowsAgree, OneClerk
  <2>3. SerialCalls' /\ SerialRows'
    BY DEF SerialCalls, SerialRows, Serial
  <2>4. Approved' /\ ManagersHaveProfiles'
    BY DEF Approved, ManagersHaveProfiles
  <2> QED
    BY <2>2, <2>3, <2>4
<1>2. CASE InvitesNext /\ ~ \E i \in Invites : InviteExpires(i)
  BY <1>2, ArrivalsInv, CreateAccountInv, MarksInv, PromoteInv, CreateProfileInv, ClerkDiesInv
  DEF InvitesNext
<1> QED
  BY <1>1, <1>2
-----------------------------------------------------------------------------
\* The inductive invariant holds for any invitations, candidates and calls.
THEOREM InvitesInvariance == InvitesSpec => []InvitesInv
BY InitInvitesInv, InvitesStepInv, PTL DEF InvitesSpec

\* What makes a manager hangs together: always as far as the unique columns
\* go, and wholly as long as no call overlapped another or died.
THEOREM ManagersAreMadeWhole == InvitesSpec => []ManagersAreSound
<1>1. InvitesInv => ApprovedHasProfile
  BY DEF InvitesInv, Approved, ApprovedHasProfile, Accounts
<1>2. InvitesInv => SerialVerdictsStand
  <2> SUFFICES ASSUME InvitesInv, ~ crossed, inviteDeaths = 0,
                      \A k \in Clerks : clerk[k].at = "idle", NEW i \in Invites
               PROVE  /\ Accounts(i) = {invite[i].acceptedBy} \ {Nobody}
                      /\ Accounts(i) \intersect managers # {} <=> invite[i].approval = "APPROVED"
    BY DEF SerialVerdictsStand
  <2> USE InvitesAssumption DEF InvitesInv, Serial
  <2>1. \A u \in Candidates : createdBy[u] = i <=> invite[i].acceptedBy = u
    BY DEF SerialRows, RowsAgree
  <2>2. invite[i].acceptedBy \in Candidates \union {Nobody}
    BY DEF InvitesTypes, Rows
  <2>3. Accounts(i) = {invite[i].acceptedBy} \ {Nobody}
    BY <2>1, <2>2 DEF Accounts
  <2>4. ASSUME NEW u \in Accounts(i) \intersect managers PROVE invite[i].approval = "APPROVED"
    BY <2>4 DEF Accounts, SerialRows
  <2>5. ASSUME invite[i].approval = "APPROVED" PROVE \E u \in Accounts(i) : u \in managers
    BY <2>5 DEF Accounts, Approved
  <2> QED
    BY <2>3, <2>4, <2>5
<1> QED
  BY <1>1, <1>2, InvitesInvariance, PTL DEF InvitesInv, ManagersAreSound
-----------------------------------------------------------------------------
(* The identities of accounts.                                             *)

Tasks == {"idle", "create", "edit", "copy", "tombstone", "reread", "write"}

\* What the calls under way on an account know of it, unless two overlapped.
CallsAgree ==
  \A o \in Operators :
    LET op == operation[o]
    IN  op.account \in AccountIds \ contended =>
          /\ op.at \in {"copy", "tombstone"} =>
               op.account \notin deleted /\ shows[op.account] = "person"
          /\ op.at \in {"reread", "write"} => op.account \in deleted
          /\ op.at \in {"tombstone", "write"} => op.read = "person"

\* One call at a time on an account that is not contended.
OneCallEach ==
  \A o, p \in Operators :
    operation[o].account \in AccountIds \ contended
      /\ operation[p].account = operation[o].account => o = p

\* Before it is deleted an account shows its person's columns, and afterwards
\* its snapshot has them.
IdentityIsSomewhere ==
  \A u \in AccountIds \ contended :
    IF u \in deleted THEN snapshot[u] = "person" /\ shows[u] # "nothing"
                     ELSE shows[u] \in {"nothing", "person"}

\* Calls that have a target: all but the creation of an account.
CallsHaveTargets ==
  \A o \in Operators :
    /\ operation[o].at \in Tasks \ {"idle", "create"} => operation[o].account \in AccountIds
    /\ operation[o].at = "copy" => shows[operation[o].account] # "nothing"

AccountsInv ==
  /\ AccountsTypeOK /\ CallsHaveTargets /\ OneCallEach /\ CallsAgree
  /\ IdentityIsSomewhere /\ DeletedIsOutOfTheWay
-----------------------------------------------------------------------------
\* The invariant holds before any account exists.
LEMMA InitAccountsInv == AccountsInit => AccountsInv
BY AccountsAssumption
DEF AccountsInit, AccountsInv, AccountsTypeOK, NoOperation, CallsHaveTargets,
    OneCallEach, CallsAgree, IdentityIsSomewhere, DeletedIsOutOfTheWay, Tasks

\* A call that starts: on an account that another is at, or on one of its own.
LEMMA OpensInv ==
  ASSUME AccountsInv, NEW o \in Operators, NEW step \in Tasks \ {"idle", "tombstone", "write"},
         NEW u \in AccountIds \union {NoAccount},
         step # "create" => u \in AccountIds,
         step = "copy" => shows[u] # "nothing",
         step = "copy" /\ u \notin contended => u \notin deleted /\ shows[u] = "person",
         step = "reread" => u \in deleted,
         Opens(o, step, u)
  PROVE  AccountsInv'
<1> USE AccountsAssumption DEF AccountsInv, Opens, identityVars
<1>1. AccountsTypeOK'
  BY DEF AccountsTypeOK, NoOperation, Tasks
<1>2. CallsHaveTargets'
  BY DEF AccountsTypeOK, CallsHaveTargets, NoOperation, Tasks
<1>3. OneCallEach'
  BY DEF AccountsTypeOK, OneCallEach, NoOperation
<1>4. CallsAgree'
  BY DEF AccountsTypeOK, CallsAgree, NoOperation, Tasks
<1>5. IdentityIsSomewhere' /\ DeletedIsOutOfTheWay'
  BY DEF IdentityIsSomewhere, DeletedIsOutOfTheWay
<1> QED
  BY <1>1, <1>2, <1>3, <1>4, <1>5

\* The look-ups with which register, update, softDelete and restore begin keep it.
LEMMA LookUpsInv ==
  ASSUME AccountsInv, NEW o \in Operators,
         \/ Register(o)
         \/ \E u \in AccountIds : Update(o, u) \/ SoftDelete(o, u) \/ RestoreAccount(o, u)
  PROVE  AccountsInv'
<1>1. CASE Register(o)
  BY <1>1, OpensInv, AccountsAssumption DEF Register, Tasks
<1>2. ASSUME NEW u \in AccountIds, Update(o, u) PROVE AccountsInv'
  BY <1>2, OpensInv DEF Update, Tasks
<1>3. ASSUME NEW u \in AccountIds, SoftDelete(o, u) PROVE AccountsInv'
  BY <1>3, OpensInv DEF SoftDelete, MayDelete, Tasks, AccountsInv, IdentityIsSomewhere
<1>4. ASSUME NEW u \in AccountIds, RestoreAccount(o, u) PROVE AccountsInv'
  BY <1>4, OpensInv DEF RestoreAccount, Tasks
<1> QED
  BY <1>1, <1>2, <1>3, <1>4

\* Registration's insert keeps it: a person is put only where nothing was.
LEMMA CreateUserInv ==
  ASSUME AccountsInv, NEW o \in Operators, CreateUser(o)
  PROVE  AccountsInv'
<1> USE AccountsAssumption DEF AccountsInv, Proceeds
<1>1. PICK u \in AccountIds :
        /\ shows[u] = "nothing"
        /\ Proceeds(o, "create", NoOperation)
        /\ shows' = IF Conflicts(u) THEN shows ELSE [shows EXCEPT ![u] = "person"]
        /\ UNCHANGED <<deleted, snapshot, edited>>
  BY DEF CreateUser
<1>2. u \notin deleted \/ u \in contended \/ u \in edited
  BY <1>1 DEF DeletedIsOutOfTheWay
<1>3. AccountsTypeOK' /\ CallsHaveTargets'
  BY <1>1 DEF AccountsTypeOK, CallsHaveTargets, NoOperation, Tasks
<1>4. OneCallEach' /\ CallsAgree'
  BY <1>1 DEF AccountsTypeOK, OneCallEach, CallsAgree, NoOperation
<1>5. IdentityIsSomewhere' /\ DeletedIsOutOfTheWay'
  BY <1>1, <1>2 DEF AccountsTypeOK, IdentityIsSomewhere, DeletedIsOutOfTheWay
<1> QED
  BY <1>3, <1>4, <1>5

\* A profile edit keeps it, even over a row deleted since it was read.
LEMMA EditRowInv ==
  ASSUME AccountsInv, NEW o \in Operators, EditRow(o)
  PROVE  AccountsInv'
<1> USE AccountsAssumption DEF AccountsInv, EditRow, Proceeds, Target
<1>1. operation[o].account \in AccountIds
  BY DEF CallsHaveTargets, Tasks
<1>2. AccountsTypeOK' /\ CallsHaveTargets'
  BY <1>1 DEF AccountsTypeOK, CallsHaveTargets, NoOperation, Tasks
<1>3. OneCallEach' /\ CallsAgree'
  BY <1>1 DEF AccountsTypeOK, OneCallEach, CallsAgree, NoOperation
<1>4. IdentityIsSomewhere' /\ DeletedIsOutOfTheWay'
  BY <1>1 DEF AccountsTypeOK, IdentityIsSomewhere, DeletedIsOutOfTheWay
<1> QED
  BY <1>2, <1>3, <1>4

\* Reading before a deletion, or before the snapshot is written back.
LEMMA CopyIdentityInv ==
  ASSUME AccountsInv, NEW o \in Operators, CopyIdentity(o)
  PROVE  AccountsInv'
<1> USE AccountsAssumption DEF AccountsInv, CopyIdentity, Proceeds, Target, identityVars
<1>1. operation[o].account \in AccountIds /\ operation[o].at = "copy"
  BY DEF CallsHaveTargets, Tasks
<1>2. shows[operation[o].account] \in {"person", "tombstone"}
  BY <1>1 DEF AccountsTypeOK, CallsHaveTargets
<1>3. AccountsTypeOK'
  BY <1>1, <1>2 DEF AccountsTypeOK
<1>4. CallsHaveTargets' /\ OneCallEach'
  BY <1>1 DEF AccountsTypeOK, CallsHaveTargets, OneCallEach, Tasks
<1>5. CallsAgree'
  BY <1>1 DEF AccountsTypeOK, CallsAgree
<1>6. IdentityIsSomewhere' /\ DeletedIsOutOfTheWay'
  BY DEF IdentityIsSomewhere, DeletedIsOutOfTheWay
<1> QED
  BY <1>3, <1>4, <1>5, <1>6

\* Restoring reads a snapshot that has the person's columns.
LEMMA ReadSnapshotInv ==
  ASSUME AccountsInv, NEW o \in Operators, ReadSnapshot(o)
  PROVE  AccountsInv'
<1> USE AccountsAssumption DEF AccountsInv, ReadSnapshot, Proceeds, Target, identityVars
<1>1. operation[o].account \in AccountIds /\ operation[o].at = "reread"
  BY DEF CallsHaveTargets, Tasks
<1>2. AccountsTypeOK'
  BY <1>1 DEF AccountsTypeOK
<1>3. CallsHaveTargets' /\ OneCallEach'
  BY <1>1 DEF AccountsTypeOK, CallsHaveTargets, OneCallEach, Tasks
<1>4. CallsAgree'
  BY <1>1 DEF AccountsTypeOK, CallsAgree, IdentityIsSomewhere
<1>5. IdentityIsSomewhere' /\ DeletedIsOutOfTheWay'
  BY DEF IdentityIsSomewhere, DeletedIsOutOfTheWay
<1> QED
  BY <1>2, <1>3, <1>4, <1>5

\* The deletion itself: the snapshot has what the call read.
LEMMA TombstoneInv ==
  ASSUME AccountsInv, NEW o \in Operators, Tombstone(o)
  PROVE  AccountsInv'
<1> USE AccountsAssumption DEF AccountsInv, Tombstone, Proceeds, Target
<1>1. operation[o].account \in AccountIds /\ operation[o].at = "tombstone"
  BY DEF CallsHaveTargets, Tasks
<1>2. AccountsTypeOK' /\ CallsHaveTargets'
  BY <1>1 DEF AccountsTypeOK, CallsHaveTargets, NoOperation, Tasks
<1>3. OneCallEach'
  BY <1>1 DEF AccountsTypeOK, OneCallEach, NoOperation
<1>4. CallsAgree'
  BY <1>1 DEF AccountsTypeOK, OneCallEach, CallsAgree, NoOperation
<1>5. IdentityIsSomewhere' /\ DeletedIsOutOfTheWay'
  BY <1>1 DEF AccountsTypeOK, CallsAgree, IdentityIsSomewhere, DeletedIsOutOfTheWay
<1> QED
  BY <1>2, <1>3, <1>4, <1>5

\* The restoration: the columns have what the snapshot had.
LEMMA WriteBackInv ==
  ASSUME AccountsInv, NEW o \in Operators, WriteBack(o)
  PROVE  AccountsInv'
<1> USE AccountsAssumption DEF AccountsInv, WriteBack, Proceeds, Target, identityVars
<1>1. operation[o].account \in AccountIds /\ operation[o].at = "write"
  BY DEF CallsHaveTargets, Tasks
<1>2. AccountsTypeOK' /\ CallsHaveTargets'
  BY <1>1 DEF AccountsTypeOK, CallsHaveTargets, NoOperation, Tasks
<1>3. OneCallEach'
  BY <1>1 DEF AccountsTypeOK, OneCallEach, NoOperation
<1>4. CallsAgree'
  BY <1>1 DEF AccountsTypeOK, OneCallEach, CallsAgree, NoOperation
<1>5. IdentityIsSomewhere' /\ DeletedIsOutOfTheWay'
  BY <1>1 DEF AccountsTypeOK, CallsAgree, IdentityIsSomewhere, DeletedIsOutOfTheWay
<1> QED
  BY <1>2, <1>3, <1>4, <1>5

\* A process that dies in a call leaves what it had written: the invariant holds.
LEMMA OperatorDiesInv ==
  ASSUME AccountsInv, NEW o \in Operators, OperatorDies(o)
  PROVE  AccountsInv'
<1> USE AccountsAssumption DEF AccountsInv, OperatorDies, identityVars
<1>1. AccountsTypeOK' /\ CallsHaveTargets'
  BY DEF AccountsTypeOK, CallsHaveTargets, NoOperation, Tasks
<1>2. OneCallEach' /\ CallsAgree'
  BY DEF AccountsTypeOK, OneCallEach, CallsAgree, NoOperation
<1>3. IdentityIsSomewhere' /\ DeletedIsOutOfTheWay'
  BY DEF IdentityIsSomewhere, DeletedIsOutOfTheWay
<1> QED
  BY <1>1, <1>2, <1>3

\* Every step of every call keeps the invariant.
LEMMA AccountsStepInv == AccountsInv /\ [AccountsNext]_accountsVars => AccountsInv'
<1> SUFFICES ASSUME AccountsInv, [AccountsNext]_accountsVars PROVE AccountsInv'
  OBVIOUS
<1>1. ASSUME NEW o \in Operators,
             \/ Register(o)
             \/ \E u \in AccountIds : Update(o, u) \/ SoftDelete(o, u) \/ RestoreAccount(o, u)
      PROVE  AccountsInv'
  BY <1>1, LookUpsInv
<1>2. ASSUME NEW o \in Operators,
             CreateUser(o) \/ EditRow(o) \/ CopyIdentity(o) \/ Tombstone(o)
      PROVE  AccountsInv'
  BY <1>2, CreateUserInv, EditRowInv, CopyIdentityInv, TombstoneInv
<1>3. ASSUME NEW o \in Operators, ReadSnapshot(o) \/ WriteBack(o) \/ OperatorDies(o)
      PROVE  AccountsInv'
  BY <1>3, ReadSnapshotInv, WriteBackInv, OperatorDiesInv
<1>4. CASE UNCHANGED accountsVars
  BY <1>4 DEF accountsVars, identityVars, AccountsInv, AccountsTypeOK, CallsHaveTargets,
              OneCallEach, CallsAgree, IdentityIsSomewhere, DeletedIsOutOfTheWay
<1> QED
  BY <1>1, <1>2, <1>3, <1>4 DEF AccountsNext
-----------------------------------------------------------------------------
\* The inductive invariant holds for every set of accounts and of calls.
THEOREM AccountsInvariance == AccountsSpec => []AccountsInv
BY InitAccountsInv, AccountsStepInv, PTL DEF AccountsSpec

\* Whatever is deleted, restored, edited and registered again, identities are
\* kept or can be given back, and deleted accounts stand in nobody's way.
THEOREM NobodyIsLockedOut == AccountsSpec => []IdentitiesAreSafe
<1>1. AccountsInv => IdentitiesAreSafe
  BY DEF AccountsInv, AccountsTypeOK, IdentityIsSomewhere, DeletedIsOutOfTheWay,
         IdentitiesAreSafe, IdentityIsKept
<1> QED
  BY <1>1, AccountsInvariance, PTL
=============================================================================
