-------------------------- MODULE PushNotifications --------------------------
(***************************************************************************)
(* A notice on its way to a user's device.  The dispatcher writes a log    *)
(* row and enqueues a job; the worker process reads the subscription,      *)
(* sends, and records how it went; beacons of the service worker report    *)
(* that the notice was shown and clicked.  The row is updated by its id in *)
(* every one of these places, and so is the subscription, which the user   *)
(* may renew meanwhile.  A job whose run throws is tried again until its   *)
(* attempts are used up, and then handed to the dead-letter queue.  One    *)
(* device.                                                                 *)
(***************************************************************************)
EXTENDS Naturals

CONSTANTS
  Notices,
  Attempts,     \* attempts: runs of a job that may throw
  MaxEndpoints, \* bound: endpoints the browser has after its first
  MaxPushDeaths \* bound: dispatchers and workers whose process dies

ASSUME AttemptsAssumption == Attempts \in Nat \ {0}
ASSUME NoticesAssumption == MaxEndpoints \in Nat /\ MaxPushDeaths \in Nat

VARIABLES
  browser,       \* the endpoint the browser has now; lower ones are discarded
  subscription,  \* PushSubscription, [status, endpoint]
  notice,        \* [Notices -> the dispatcher's next step]
  log,           \* PushDeliveryStatus of a notice's row, "none" before it
  job,           \* [Notices -> [at, endpoint, result]]
  attemptsMade,  \* [Notices -> the runs of its job that threw]
  taken,         \* notices the push service has accepted
  beacon,        \* [Notices -> the step of markDelivered]
  skipped,       \* history: notices whose job found no active subscription
  firmClicks,    \* history: clicks that came when nobody else was at the row
  renewed,       \* history: a renewal during a job's run
  pushDeaths

deviceVars == <<browser, subscription, renewed>>
logVars == <<log, firmClicks>>
failVars == <<attemptsMade, pushDeaths>>
pushVars == <<deviceVars, logVars, notice, job, taken, beacon, skipped, failVars>>

NoJob == [at |-> "none", endpoint |-> 0, result |-> "none"]

PushInit ==
  /\ browser = 0 /\ subscription = [status |-> "ACTIVE", endpoint |-> 0]
  /\ renewed = FALSE
  /\ notice = [n \in Notices |-> "new"] /\ job = [n \in Notices |-> NoJob]
  /\ log = [n \in Notices |-> "none"] /\ beacon = [n \in Notices |-> "none"]
  /\ taken = {} /\ skipped = {} /\ firmClicks = {}
  /\ attemptsMade = [n \in Notices |-> 0] /\ pushDeaths = 0

Running(n) == job[n].at \in {"send", "record", "expire"}
Dies == pushDeaths < MaxPushDeaths /\ pushDeaths' = pushDeaths + 1
Write(n, status) == log' = [log EXCEPT ![n] = status]
Works(n, from, to) == job[n].at = from /\ job' = [job EXCEPT ![n] = to]
-----------------------------------------------------------------------------
\* The push service discards the browser's endpoint.
EndpointLost ==
  /\ browser < MaxEndpoints
  /\ browser' = browser + 1
  /\ UNCHANGED <<subscription, renewed, logVars, notice, job, taken, beacon, skipped, failVars>>

\* upsert by user and device: the new endpoint, and active again.
Subscribe ==
  /\ subscription' = [status |-> "ACTIVE", endpoint |-> browser]
  /\ subscription' # subscription
  /\ renewed' = (renewed \/ \E n \in Notices : Running(n))
  /\ UNCHANGED <<browser, logVars, notice, job, taken, beacon, skipped, failVars>>

Unsubscribe ==
  /\ subscription.status # "REVOKED"
  /\ subscription' = [subscription EXCEPT !.status = "REVOKED"]
  /\ UNCHANGED <<browser, renewed, logVars, notice, job, taken, beacon, skipped, failVars>>
-----------------------------------------------------------------------------
\* dispatchToUser ends here if the user has opted out of the category, or has
\* no active subscription.
Dispatch(n) ==
  /\ notice[n] = "new"
  /\ \E enabled \in BOOLEAN :
       notice' = [notice EXCEPT ![n] =
         IF enabled /\ subscription.status = "ACTIVE" THEN "create" ELSE "done"]
  /\ UNCHANGED <<deviceVars, logVars, job, taken, beacon, skipped, failVars>>

CreateLog(n) ==
  /\ notice[n] = "create"
  /\ notice' = [notice EXCEPT ![n] = "enqueue"]
  /\ Write(n, "QUEUED")
  /\ UNCHANGED <<deviceVars, firmClicks, job, taken, beacon, skipped, failVars>>

Enqueue(n) ==
  /\ notice[n] = "enqueue"
  /\ notice' = [notice EXCEPT ![n] = "done"]
  /\ Works(n, "none", [NoJob EXCEPT !.at = "queued"])
  /\ UNCHANGED <<deviceVars, logVars, taken, beacon, skipped, failVars>>

DispatcherDies(n) ==
  /\ notice[n] \in {"create", "enqueue"}
  /\ Dies
  /\ notice' = [notice EXCEPT ![n] = "dead"]
  /\ UNCHANGED <<deviceVars, logVars, job, attemptsMade, taken, beacon, skipped>>
-----------------------------------------------------------------------------
\* processPushNotificationJob, which takes the subscription as it is now.
TakeJob(n) ==
  /\ Works(n, "queued",
       IF subscription.status = "ACTIVE"
       THEN [at |-> "send", endpoint |-> subscription.endpoint, result |-> "none"]
       ELSE [NoJob EXCEPT !.at = "done"])
  /\ skipped' = IF subscription.status = "ACTIVE" THEN skipped ELSE skipped \union {n}
  /\ UNCHANGED <<deviceVars, logVars, notice, taken, beacon, failVars>>

\* 404 or 410 for an endpoint that is gone; other errors are no verdict on it.
Answers(n) == IF job[n].endpoint = browser THEN {"sent", "failed"} ELSE {"expired", "failed"}

\* An answer that fails may have been lost on its way back.
Send(n) ==
  /\ \E answer \in Answers(n) :
       /\ Works(n, "send", [at |-> "record", endpoint |-> job[n].endpoint, result |-> answer])
       /\ \E arrived \in BOOLEAN :
            /\ answer = "sent" => arrived
            /\ arrived => job[n].endpoint = browser
            /\ taken' = IF arrived THEN taken \union {n} ELSE taken
            /\ beacon' = [beacon EXCEPT ![n] = IF arrived /\ @ = "done" THEN "none" ELSE @]
  /\ UNCHANGED <<deviceVars, logVars, notice, skipped, failVars>>

Record(n) ==
  /\ Works(n, "record",
       [job[n] EXCEPT !.at = IF job[n].result = "expired" THEN "expire" ELSE "done"])
  /\ Write(n, IF job[n].result = "sent" THEN "SENT" ELSE "FAILED")
  /\ UNCHANGED <<deviceVars, firmClicks, notice, taken, beacon, skipped, failVars>>

\* updateStatus by id, whatever became of the subscription.
MarkExpired(n) ==
  /\ Works(n, "expire", [job[n] EXCEPT !.at = "done"])
  /\ subscription' = [subscription EXCEPT !.status = "EXPIRED"]
  /\ UNCHANGED <<browser, renewed, logVars, notice, taken, beacon, skipped, failVars>>

\* Mutant: the job vanishes after its final retry.
Vanishes(made) == IF made < Attempts THEN "queued" ELSE "done"

\* The queue takes it again, unless that was the last of its attempts.
AfterFailure(made) == IF made < Attempts THEN "queued" ELSE "exhausted"

\* A read or a write of the run throws.
RunThrows(n) ==
  /\ Running(n) \/ job[n].at = "queued"
  /\ attemptsMade' = [attemptsMade EXCEPT ![n] = @ + 1]
  /\ job' = [job EXCEPT ![n] = [NoJob EXCEPT !.at = AfterFailure(attemptsMade'[n])]]
  /\ UNCHANGED <<deviceVars, logVars, notice, taken, beacon, skipped, pushDeaths>>

\* The worker's "failed" handler adds it to the dead-letter queue.
HandToDeadLetters(n) ==
  /\ Works(n, "exhausted", [NoJob EXCEPT !.at = "dead-letter"])
  /\ UNCHANGED <<deviceVars, logVars, notice, taken, beacon, skipped, failVars>>

\* The process dies in a run, which the queue takes again or gives up, or in
\* the hand-off, as it does if the hand-off throws: nobody handles that.
WorkerDies(n) ==
  /\ Dies
  /\ \E at \in {"queued", "lost"} :
       /\ \/ Running(n)
          \/ job[n].at = "exhausted" /\ at = "lost"
       /\ job' = [job EXCEPT ![n] = [NoJob EXCEPT !.at = at]]
  /\ UNCHANGED <<deviceVars, logVars, notice, attemptsMade, taken, beacon, skipped>>
-----------------------------------------------------------------------------
\* Mutant: the row is not looked at.
MayDeliver(status) == status # "none"

\* markDelivered only advances a row that was sent.
Deliverable(status) == status = "SENT"

\* The beacon of the push event: findById, then update.
ReadDelivered(n) ==
  /\ n \in taken /\ beacon[n] = "none"
  /\ beacon' = [beacon EXCEPT ![n] = IF Deliverable(log[n]) THEN "mark" ELSE "done"]
  /\ UNCHANGED <<deviceVars, logVars, notice, job, taken, skipped, failVars>>

MarkDelivered(n) ==
  /\ beacon[n] = "mark"
  /\ beacon' = [beacon EXCEPT ![n] = "done"]
  /\ Write(n, "DELIVERED")
  /\ UNCHANGED <<deviceVars, firmClicks, notice, job, taken, skipped, failVars>>

\* The beacon of the click.
MarkClicked(n) ==
  /\ n \in taken /\ log[n] # "CLICKED"
  /\ Write(n, "CLICKED")
  /\ firmClicks' = IF Running(n) \/ job[n].at = "queued" \/ beacon[n] = "mark"
                   THEN firmClicks ELSE firmClicks \union {n}
  /\ UNCHANGED <<deviceVars, notice, job, taken, beacon, skipped, failVars>>

PushNext ==
  \/ EndpointLost \/ Subscribe \/ Unsubscribe
  \/ \E n \in Notices :
       \/ Dispatch(n) \/ CreateLog(n) \/ Enqueue(n) \/ DispatcherDies(n)
       \/ TakeJob(n) \/ Send(n) \/ Record(n) \/ MarkExpired(n)
       \/ RunThrows(n) \/ HandToDeadLetters(n) \/ WorkerDies(n)
       \/ ReadDelivered(n) \/ MarkDelivered(n) \/ MarkClicked(n)

PushSpec == PushInit /\ [][PushNext]_pushVars
-----------------------------------------------------------------------------
PushTypeOK ==
  /\ browser \in 0..MaxEndpoints
  /\ subscription \in
       [status : {"ACTIVE", "EXPIRED", "REVOKED"}, endpoint : 0..MaxEndpoints]
  /\ notice \in [Notices -> {"new", "create", "enqueue", "done", "dead"}]
  /\ log \in [Notices -> {"none", "QUEUED", "SENT", "FAILED", "DELIVERED", "CLICKED"}]
  /\ \A n \in Notices :
       /\ job[n].at \in {"none", "queued", "send", "record", "expire", "done", "exhausted",
                         "dead-letter", "lost"}
       /\ job[n].endpoint \in 0..MaxEndpoints
       /\ job[n].result \in {"none", "sent", "failed", "expired"}
  /\ beacon \in [Notices -> {"none", "mark", "done"}]
  /\ taken \subseteq Notices /\ skipped \subseteq Notices /\ firmClicks \subseteq Notices
  /\ attemptsMade \in [Notices -> 0..Attempts]
  /\ renewed \in BOOLEAN /\ pushDeaths \in 0..MaxPushDeaths

\* A row that still says QUEUED is somebody's to send, or somebody's to look at:
\* a job is on its way to it or among the dead letters, having used up its
\* attempts, or it found the subscription ended.  Only a process that died
\* leaves it to nobody.
QueuedIsPending ==
  \A n \in Notices :
    log[n] = "QUEUED" =>
      \/ notice[n] \in {"enqueue", "dead"}
      \/ job[n].at \in {"queued", "send", "record"}
      \/ job[n].at \in {"exhausted", "dead-letter"} /\ attemptsMade[n] = Attempts
      \/ n \in skipped
      \/ job[n].at = "lost" /\ pushDeaths > 0

\* A click stands, whatever beacons and retries come after it, once no worker
\* and no earlier beacon is still at the row.
FirmClicksStand == \A n \in firmClicks : log[n] = "CLICKED"

\* A subscription is given up only when its endpoint is gone, unless it was
\* renewed while a job was under way.
ExpiredIsGone ==
  subscription.status = "EXPIRED" => subscription.endpoint < browser \/ renewed

\* What administrators are shown about a notice and a device is true.
NoticesAreAccountedFor == QueuedIsPending /\ FirmClicksStand /\ ExpiredIsGone
=============================================================================
