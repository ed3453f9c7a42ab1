------------------------------ MODULE Webhooks ------------------------------
(***************************************************************************)
(* WebhookDispatcherService: what happens to a gateway's webhook apart     *)
(* from the settlement itself.  A worker looks for a row of the same       *)
(* payload, resolves the deposit or withdraw it names, creates the         *)
(* PaymentWebhook row or adopts the one a concurrent delivery created, has *)
(* it settled, and records the outcome in the row.  Only payloads with a   *)
(* providerEventId have a unique row: concurrent deliveries of any other   *)
(* payload create one row each.  A worker may die at any step, and a       *)
(* settlement may throw.  Payload signatures are not modelled.             *)
(*                                                                         *)
(* A module that EXTENDS this one says which payloads gateways send, which *)
(* of them it can resolve, and how one is settled.                         *)
(***************************************************************************)
EXTENDS Naturals, Sequences, SequencesExt

CONSTANTS
  Workers,     \* requests being served at once
  Payloads,    \* webhook bodies
  Identified,  \* the payloads with a providerEventId
  NoPayload,   \* a worker serving nothing
  MaxFaults    \* bound on deaths of workers and on settlements that throw

ASSUME IdentifiedAssumption == Identified \subseteq Payloads
ASSUME NoPayloadAssumption == NoPayload \notin Payloads
ASSUME MaxFaultsAssumption == MaxFaults \in Nat

VARIABLES
  hooks,    \* PaymentWebhook rows of each payload, oldest first: their status
  at,       \* where each worker stands
  payload,  \* the payload in its hands
  row,      \* the row of that payload it is settling, 0 for none
  acked,    \* payloads answered with a 200
  faults

hookVars == <<hooks, at, payload, row, acked, faults>>

\* PROCESSED stands for REPROCESSED too: nothing tells them apart.
RowStatus == {"RECEIVED", "PROCESSED", "ERROR"}
Rows(p) == DOMAIN hooks[p]

WebhooksInit ==
  /\ hooks = [p \in Payloads |-> << >>]
  /\ at = [d \in Workers |-> "idle"]
  /\ payload = [d \in Workers |-> NoPayload]
  /\ row = [d \in Workers |-> 0]
  /\ acked = {}
  /\ faults = 0

Goto(d, step) ==
  /\ at' = [at EXCEPT ![d] = step]
  /\ UNCHANGED <<hooks, payload, row, acked, faults>>

\* The worker answers and is free for another request.
Leave(d) ==
  /\ at' = [at EXCEPT ![d] = "idle"]
  /\ payload' = [payload EXCEPT ![d] = NoPayload]
  /\ row' = [row EXCEPT ![d] = 0]

Answer200(d) ==
  /\ Leave(d)
  /\ acked' = acked \union {payload[d]}
  /\ UNCHANGED <<hooks, faults>>
-----------------------------------------------------------------------------
\* POST /api/payments/webhook/{provider} with a valid signature.
Deliver(d, p) ==
  /\ at[d] = "idle"
  /\ at' = [at EXCEPT ![d] = "find"]
  /\ payload' = [payload EXCEPT ![d] = p]
  /\ UNCHANGED <<hooks, row, acked, faults>>

\* Mutant: any earlier row is the answer, settled or not.
FindAny(d) ==
  /\ at[d] = "find"
  /\ hooks[payload[d]] # << >>
  /\ Answer200(d)

\* findExistingWebhook: the latest row of the payload.  A processed one is the
\* answer, any other is settled again.
FindProcessed(d) ==
  /\ at[d] = "find"
  /\ hooks[payload[d]] # << >>
  /\ Last(hooks[payload[d]]) = "PROCESSED"
  /\ Answer200(d)

Find(d) ==
  /\ at[d] = "find"
  /\ hooks[payload[d]] # << >> => Last(hooks[payload[d]]) # "PROCESSED"
  /\ row' = [row EXCEPT ![d] = Len(hooks[payload[d]])]
  /\ at' = [at EXCEPT ![d] = "resolve"]
  /\ UNCHANGED <<hooks, payload, acked, faults>>

\* Mutant: an unknown transaction is answered with a 200.
ResolveUnknownAs200(d, known) ==
  /\ at[d] = "resolve"
  /\ IF known
     THEN Goto(d, IF row[d] = 0 THEN "create" ELSE "settle")
     ELSE Answer200(d)

\* resolveRelatedId by providerTransactionId; an unknown one is a 404.
Resolve(d, known) ==
  /\ at[d] = "resolve"
  /\ IF known
     THEN Goto(d, IF row[d] = 0 THEN "create" ELSE "settle")
     ELSE Leave(d) /\ UNCHANGED <<hooks, acked, faults>>

\* The unique index on providerEventId.
Conflicts(p) == p \in Identified /\ hooks[p] # << >>

\* Mutant: the row created is not the one that is settled and recorded.
CreateRowUnlinked(d) ==
  /\ at[d] = "create"
  /\ ~ Conflicts(payload[d])
  /\ hooks' = [hooks EXCEPT ![payload[d]] = Append(@, "RECEIVED")]
  /\ at' = [at EXCEPT ![d] = "settle"]
  /\ UNCHANGED <<payload, row, acked, faults>>

CreateRow(d) ==
  /\ at[d] = "create"
  /\ ~ Conflicts(payload[d])
  /\ hooks' = [hooks EXCEPT ![payload[d]] = Append(@, "RECEIVED")]
  /\ row' = [row EXCEPT ![d] = Len(hooks[payload[d]]) + 1]
  /\ at' = [at EXCEPT ![d] = "settle"]
  /\ UNCHANGED <<payload, acked, faults>>

\* Mutant: the loser of the race answers 200 without looking at the winner.
AdoptAny(d) ==
  /\ at[d] = "create"
  /\ Conflicts(payload[d])
  /\ Answer200(d)

\* WebhookConflictError: defer to the winner's row.
AdoptProcessed(d) ==
  /\ at[d] = "create"
  /\ Conflicts(payload[d])
  /\ Last(hooks[payload[d]]) = "PROCESSED"
  /\ Answer200(d)

Adopt(d) ==
  /\ at[d] = "create"
  /\ Conflicts(payload[d])
  /\ Last(hooks[payload[d]]) # "PROCESSED"
  /\ row' = [row EXCEPT ![d] = Len(hooks[payload[d]])]
  /\ at' = [at EXCEPT ![d] = "settle"]
  /\ UNCHANGED <<hooks, payload, acked, faults>>

\* The administrator's "Reprocessar", on a row in any status.
Reprocess(d, p, i) ==
  /\ at[d] = "idle"
  /\ at' = [at EXCEPT ![d] = "settle"]
  /\ payload' = [payload EXCEPT ![d] = p]
  /\ row' = [row EXCEPT ![d] = i]
  /\ UNCHANGED <<hooks, acked, faults>>

\* settleAndRecord, after the settlement.
Record(d) ==
  /\ at[d] = "settled"
  /\ hooks' = [hooks EXCEPT ![payload[d]][row[d]] = "PROCESSED"]
  /\ acked' = acked \union {payload[d]}
  /\ Leave(d)
  /\ UNCHANGED faults

\* Mutant: a settlement that threw is answered with a 200 all the same.
RecordErrorAs200(d) ==
  /\ at[d] = "threw"
  /\ hooks' = [hooks EXCEPT ![payload[d]][row[d]] = "ERROR"]
  /\ acked' = acked \union {payload[d]}
  /\ Leave(d)
  /\ UNCHANGED faults

RecordError(d) ==
  /\ at[d] = "threw"
  /\ hooks' = [hooks EXCEPT ![payload[d]][row[d]] = "ERROR"]
  /\ Leave(d)
  /\ UNCHANGED <<acked, faults>>

Dispatch(d) ==
  \/ FindProcessed(d) \/ Find(d) \/ CreateRow(d) \/ AdoptProcessed(d) \/ Adopt(d)
  \/ Record(d) \/ RecordError(d)

\* A database error in the middle of a settlement.
Throw(d, settling) ==
  /\ at[d] \in settling
  /\ faults < MaxFaults
  /\ faults' = faults + 1
  /\ at' = [at EXCEPT ![d] = "threw"]
  /\ UNCHANGED <<hooks, payload, row, acked>>

\* The process dies: nothing is answered and nothing recorded.
Die(d) ==
  /\ at[d] # "idle"
  /\ faults < MaxFaults
  /\ faults' = faults + 1
  /\ Leave(d)
  /\ UNCHANGED <<hooks, acked>>

\* Nobody is being served.
Quiet == \A d \in Workers : at[d] = "idle"
-----------------------------------------------------------------------------
WebhooksTypeOK(steps) ==
  /\ DOMAIN hooks = Payloads
  /\ \A p \in Payloads : hooks[p] \in Seq(RowStatus)
  /\ at \in [Workers -> steps \union {"idle", "find", "resolve", "create",
                                      "settle", "settled", "threw"}]
  /\ payload \in [Workers -> Payloads \union {NoPayload}]
  /\ row \in [Workers -> Nat]
  /\ acked \subseteq Payloads
  /\ faults \in 0..MaxFaults
  /\ \A d \in Workers :
       /\ at[d] = "idle" <=> payload[d] = NoPayload
       /\ row[d] # 0 => row[d] \in Rows(payload[d])
       /\ at[d] \notin {"idle", "find", "resolve", "create"} => row[d] # 0
=============================================================================
