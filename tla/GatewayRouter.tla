---------------------------- MODULE GatewayRouter ----------------------------
(***************************************************************************)
(* GatewayRouterService under ROUND_ROBIN, with the fail-over that calls   *)
(* it: the order in which a payment tries the active gateways, the health  *)
(* row each exhausted gateway gets, and the alarm that is published when   *)
(* its health changes.  What a payment does at a gateway is in Deposits    *)
(* and Withdrawals.                                                        *)
(***************************************************************************)
EXTENDS Integers, Sequences, FiniteSets

CONSTANTS
  Gateways,  \* credentials, as their priorities
  Payments,  \* payments and administrators' tests handled at one time
  RouterBounds \* bounds to choose from: how often the active gateways change,
               \* health is checked and the process dies

ASSUME GatewaysAssumption == Gateways \subseteq Nat /\ IsFiniteSet(Gateways)
ASSUME RouterBoundsAssumption ==
  RouterBounds \subseteq [switches : Nat, checks : Nat, restarts : Nat]

VARIABLES
  active,             \* credentials whose status is ACTIVE
  roundRobinCounter,
  turns,              \* history: whose turn it was in this round
  served,             \* history: turns each had, since active last changed,
                      \* less those that all active gateways had
  jumps,              \* history: how often the order was upset meanwhile
  health,             \* the latest GatewayHealth.status, "none" before one
  alarmed,            \* gateways last announced as unavailable
  payment,            \* [Payments -> [at, rest, previous, status]]
  overlapping,        \* history: payments whose check overlaps another of its
                      \* gateway
  doubtful,           \* history: gateways whose last alarm may not be their health's
  routerLeft          \* [switches, checks, restarts] within the bounds still

turnHistory == <<turns, served, jumps>>
orderVars == <<active, roundRobinCounter, turnHistory>>
healthVars == <<health, alarmed>>
checkHistory == <<overlapping, doubtful>>
routerVars == <<orderVars, healthVars, payment, checkHistory, routerLeft>>

NoPayment == [at |-> "idle", rest |-> <<>>, previous |-> "none", status |-> "none"]
Heading(step, rest) == [NoPayment EXCEPT !.at = step, !.rest = rest]

NoTurns == [g \in Gateways |-> 0]

RouterInit ==
  /\ active = Gateways /\ roundRobinCounter = 0
  /\ turns = <<>> /\ served = NoTurns /\ jumps = 0
  /\ health = [g \in Gateways |-> "none"] /\ alarmed = {}
  /\ payment = [p \in Payments |-> NoPayment]
  /\ overlapping = {} /\ doubtful = {}
  /\ routerLeft \in RouterBounds

\* The members of a finite set of numbers, from the smallest up.
Rank(S, x) == Cardinality({y \in S : y <= x})
Ascending(S) == [i \in 1..Cardinality(S) |-> CHOOSE x \in S : Rank(S, x) = i]

Rotated(s, i) == SubSeq(s, i + 1, Len(s)) \o SubSeq(s, 1, i)

\* Drops the gateways that were found offline; all of them are tried if no
\* other is left.
Routable(order) ==
  LET healthy == Ascending({i \in DOMAIN order : health[order[i]] # "OFFLINE"})
  IN  IF healthy = <<>> THEN order ELSE [i \in DOMAIN healthy |-> order[healthy[i]]]

\* The payment p goes on to a step with what it is to try.
TurnsTo(p, step, rest) == payment' = [payment EXCEPT ![p] = Heading(step, rest)]

\* After a check: the next candidate, or the payment has failed.
GoesOn(p) ==
  payment' = [payment EXCEPT ![p] =
    IF Len(@.rest) = 1 THEN NoPayment ELSE Heading("try", Tail(@.rest))]

Checks(p, g) == payment[p].at \in {"check", "announce"} /\ Head(payment[p].rest) = g
-----------------------------------------------------------------------------
SetActive ==
  /\ routerLeft.switches > 0
  /\ routerLeft' = [routerLeft EXCEPT !.switches = @ - 1]
  /\ \E g \in Gateways :
       active' = IF g \in active THEN active \ {g} ELSE active \union {g}
  /\ turns' = <<>> /\ served' = NoTurns /\ jumps' = 0
  /\ UNCHANGED <<roundRobinCounter, healthVars, payment, checkHistory>>

\* resolveCandidates awaits the active credentials ...
ListCandidates(p) ==
  /\ payment[p].at = "idle"
  /\ active # {}
  /\ TurnsTo(p, "turn", Ascending(active))
  /\ UNCHANGED <<orderVars, healthVars, checkHistory, routerLeft>>

\* Mutant: the counter runs through all gateways, whether active or not.
CountAll(n) == (roundRobinCounter + 1) % Cardinality(Gateways)

CountActive(n) == (roundRobinCounter + 1) % n

\* A turn of g among those of the others; what all of them had is left out.
Serve(g) ==
  LET new == [served EXCEPT ![g] = @ + 1]
  IN  IF \A h \in active : new[h] > 0
      THEN [h \in Gateways |-> IF h \in active THEN new[h] - 1 ELSE new[h]] ELSE new

\* ... and then uses and advances the counter, whatever became active since.
TakeTurn(p) ==
  /\ payment[p].at = "turn"
  /\ LET list == payment[p].rest
         order == Rotated(list, roundRobinCounter % Len(list))
         g == Head(order)
     IN  /\ TurnsTo(p, "filter", order)
         /\ roundRobinCounter' = CountActive(Len(list))
         /\ IF list = Ascending(active)
            THEN /\ turns' = IF Len(turns) < Len(list) THEN Append(turns, g) ELSE <<g>>
                 /\ served' = Serve(g)
                 /\ UNCHANGED jumps
            ELSE turns' = <<>> /\ jumps' = jumps + 1 /\ UNCHANGED served
  /\ UNCHANGED <<active, healthVars, checkHistory, routerLeft>>

FilterHealthy(p) ==
  /\ payment[p].at = "filter"
  /\ TurnsTo(p, "try", Routable(payment[p].rest))
  /\ UNCHANGED <<orderVars, healthVars, checkHistory, routerLeft>>

Served(p) ==
  /\ payment[p].at = "try"
  /\ payment' = [payment EXCEPT ![p] = NoPayment]
  /\ UNCHANGED <<orderVars, healthVars, checkHistory, routerLeft>>
-----------------------------------------------------------------------------
\* recordHealthCheck reads the latest row and then asks the gateway; one that
\* does not answer is offline.
Check(p, rest) ==
  /\ routerLeft.checks > 0
  /\ routerLeft' = [routerLeft EXCEPT !.checks = @ - 1]
  /\ payment' = [payment EXCEPT ![p] =
       [Heading("check", rest) EXCEPT !.previous = health[Head(rest)]]]
  /\ LET others == {q \in Payments \ {p} : Checks(q, Head(rest))}
     IN  overlapping' = overlapping \union (IF others = {} THEN {} ELSE others \union {p})
  /\ UNCHANGED <<orderVars, healthVars, doubtful>>

Exhausted(p) == payment[p].at = "try" /\ Check(p, payment[p].rest)

TestConnection(p) == payment[p].at = "idle" /\ \E g \in Gateways : Check(p, <<g>>)

\* The gateway's answer becomes its latest row.
AskGateway(p) ==
  /\ payment[p].at = "check"
  /\ \E status \in {"ONLINE", "DEGRADED", "OFFLINE"} :
       LET g == Head(payment[p].rest)
       IN  /\ health' = [health EXCEPT ![g] = status]
           /\ payment' = [payment EXCEPT ![p].at = "announce", ![p].status = status]
           /\ doubtful' = IF p \in overlapping THEN doubtful \union {g} ELSE doubtful
  /\ UNCHANGED <<orderVars, alarmed, overlapping, routerLeft>>

\* The row could not be read or written: the error is swallowed, or an
\* administrator is told.
CheckThrows(p) ==
  /\ payment[p].at = "check"
  /\ GoesOn(p)
  /\ overlapping' = overlapping \ {p}
  /\ UNCHANGED <<orderVars, healthVars, doubtful, routerLeft>>

\* Mutant: only a gateway that is fully back is announced as recovered.
AnnouncedOnline(g, previous, result) ==
  IF previous # result /\ result = "OFFLINE" THEN alarmed \union {g}
  ELSE IF previous = "OFFLINE" /\ result = "ONLINE" THEN alarmed \ {g}
  ELSE alarmed

Announced(g, previous, result) ==
  IF previous # result /\ result = "OFFLINE" THEN alarmed \union {g}
  ELSE IF previous = "OFFLINE" /\ result # "OFFLINE" THEN alarmed \ {g}
  ELSE alarmed

\* The alarm is due if the result is or was OFFLINE, and not both.
Due(p) == (payment[p].previous = "OFFLINE") # (payment[p].status = "OFFLINE")

\* What a check alone at its gateway announces is its health.
Announce(p) ==
  /\ payment[p].at = "announce"
  /\ LET g == Head(payment[p].rest)
     IN  /\ alarmed' = Announced(g, payment[p].previous, payment[p].status)
         /\ doubtful' = IF Due(p) /\ p \notin overlapping THEN doubtful \ {g} ELSE doubtful
  /\ GoesOn(p)
  /\ overlapping' = overlapping \ {p}
  /\ UNCHANGED <<orderVars, health, routerLeft>>

\* The process dies and is started again: the counter is at 0, and an alarm
\* that was due is never published.
Restart ==
  /\ routerLeft.restarts > 0
  /\ routerLeft' = [routerLeft EXCEPT !.restarts = @ - 1]
  /\ roundRobinCounter' = 0 /\ turns' = <<>> /\ jumps' = jumps + 1
  /\ payment' = [p \in Payments |-> NoPayment]
  /\ overlapping' = {}
  /\ doubtful' = doubtful \union
       {Head(payment[p].rest) : p \in {q \in Payments : payment[q].at = "announce" /\ Due(q)}}
  /\ UNCHANGED <<active, served, healthVars>>

RouterNext ==
  \/ SetActive \/ Restart
  \/ \E p \in Payments :
       \/ ListCandidates(p) \/ TakeTurn(p) \/ FilterHealthy(p) \/ Served(p)
       \/ Exhausted(p) \/ TestConnection(p)
       \/ AskGateway(p) \/ CheckThrows(p) \/ Announce(p)
-----------------------------------------------------------------------------
RouterTypeOK ==
  LET Status == {"none", "ONLINE", "DEGRADED", "OFFLINE"}
  IN  /\ active \subseteq Gateways /\ alarmed \subseteq Gateways
      /\ roundRobinCounter \in 0..Cardinality(Gateways)
      /\ turns \in Seq(Gateways) /\ Len(turns) <= Cardinality(Gateways)
      /\ served \in [Gateways -> Nat] /\ jumps \in Nat
      /\ health \in [Gateways -> Status]
      /\ \A p \in Payments :
           /\ payment[p].at \in {"idle", "turn", "filter", "try", "check", "announce"}
           /\ payment[p].rest \in Seq(Gateways)
           /\ payment[p].previous \in Status /\ payment[p].status \in Status
      /\ overlapping \subseteq Payments /\ doubtful \subseteq Gateways
      /\ routerLeft \in [switches : Nat, checks : Nat, restarts : Nat]

\* While the active gateways stay the same, none has a second turn in a round,
\* and none gets further ahead of another than one turn, and one more for each
\* time the counter was upset: by a payment that had listed the gateways before
\* the last change, or by a restart.
RoundRobinIsFair ==
  /\ \A i, j \in DOMAIN turns : turns[i] = turns[j] => i = j
  /\ \A g, h \in active : served[g] <= served[h] + 1 + jumps

\* The last alarm about a gateway agrees with its last health row, unless that
\* row's alarm is still to come.  Only checks of one gateway that overlap, and a
\* process that died between the two, leave it in doubt, and the next change of
\* health that a check alone at the gateway finds puts it right.
AlarmsAreCurrent ==
  \A g \in Gateways \ doubtful :
    (\A p \in Payments : Checks(p, g) => payment[p].at = "check")
      => (g \in alarmed <=> health[g] = "OFFLINE")
=============================================================================
