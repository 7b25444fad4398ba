---------------------------- MODULE WebhookDelivery ----------------------------
(***************************************************************************)
(* Outbound customer webhooks: the deliveries of one endpoint.             *)
(*                                                                         *)
(*   packages/db/src/repositories/webhooks.ts    emit, lease, record       *)
(*   workers/customer-webhooks/src/index.ts      the queue consumer        *)
(*   workers/reconciler/src/index.ts             sweepDueDeliveries        *)
(*   apps/api/src/routes/webhooks.ts             test, replay, enable      *)
(*                                                                         *)
(* An action is one statement (or transaction), one request or one queue   *)
(* send.  `posts' and `acked' are what the customer's endpoint saw.        *)
(***************************************************************************)
EXTENDS Naturals, FiniteSets

CONSTANTS
    Deliveries,     \* rows of webhook_deliveries, used or still to come
    Workers,        \* isolates of the consumer
    NoWorker,       \* lease_id IS NULL
    Rungs,          \* length of RETRY_SCHEDULE_SECONDS, 7
    DisableAfter,   \* AUTO_DISABLE_THRESHOLD, 20
    Faults,         \* which of FaultKinds may strike
    MaxMishaps      \* bound: faults in one behaviour

(* crash:          a consumer dies or throws after any await               *)
(* crash_unleased: the same, once the result is recorded: the send throws  *)
(* duplicate:      the queue delivers a message again                      *)
FaultKinds == { "crash", "crash_unleased", "duplicate" }

ASSUME NoWorkerAssumption == NoWorker \notin Workers
ASSUME DeliveriesAssumption == Deliveries # {}
ASSUME LadderAssumption == Rungs \in Nat /\ Rungs >= 2
ASSUME ThresholdAssumption == DisableAfter \in Nat \ {0}
ASSUME FaultsAssumption == Faults \subseteq FaultKinds /\ MaxMishaps \in Nat

VARIABLES
    row,            \* webhook_deliveries
    endpoint,       \* the webhook_endpoints row: status, consecutive failures
    queue,          \* WEBHOOK_QUEUE
    worker,         \* what each isolate is doing
    posts,          \* requests the endpoint received, per delivery
    acked,          \* deliveries it answered with 2xx
    mishaps

vars == << row, endpoint, queue, worker, posts, acked, mishaps >>

DeliveryStatus ==
    { "none", "pending", "delivering", "succeeded", "failed_retryable",
      "exhausted" }

Step == { "idle", "context", "post", "record", "send" }

Outcome == { "none", "succeeded", "retrying", "exhausted", "refused" }

AnyDelivery == CHOOSE d \in Deliveries : TRUE

(* The local variables of `deliver' between two awaits.                    *)
Doing(step, d, number, out) ==
    [ step |-> step, delivery |-> d, number |-> number, out |-> out ]

Idle == Doing("idle", AnyDelivery, 0, "none")

(* A row that does not exist yet, and one emitWebhookEvent or              *)
(* replayWebhookDelivery has just inserted.  `wait' compares               *)
(* next_attempt_at with the clock; the jitter added to the delay is left   *)
(* out, for it only orders the delayed message and the sweep, which race.  *)
(* lease_expires_at is set and cleared with lease_id.  The fresh uuid of a *)
(* lease is the isolate: a row that kept it is delivering and never leased *)
(* again, so two leases are never taken for one another.                   *)
NewRow(status) ==
    [ status |-> status, lease |-> NoWorker, attempts |-> 0, wait |-> "over" ]

(* A message names a delivery.  A delayed one is held back until the delay *)
(* computed after the attempt `after' has passed.                          *)
Message(d, after) == [ delivery |-> d, after |-> after ]

Init ==
    /\ row = [ d \in Deliveries |-> NewRow("none") ]
    /\ endpoint = [ status |-> "enabled", failures |-> 0 ]
    /\ queue = {}
    /\ worker = [ w \in Workers |-> Idle ]
    /\ posts = [ d \in Deliveries |-> 0 ]
    /\ acked = {}
    /\ mishaps = 0

Mishap == mishaps < MaxMishaps /\ mishaps' = mishaps + 1

-----------------------------------------------------------------------------
(* Creating deliveries.  Most emitters leave the first attempt to the      *)
(* sweep; the test and replay routes send in waitUntil.                    *)
Insert(d) ==
    /\ row[d].status = "none"
    /\ row' = [row EXCEPT ![d] = NewRow("pending")]
    /\ queue' \in { queue, queue \cup { Message(d, 0) } }
    /\ UNCHANGED << endpoint, worker, posts, acked, mishaps >>

(* emitWebhookEvent: only endpoints that are enabled.                      *)
Emit(d) == endpoint.status = "enabled" /\ Insert(d)

(* replayWebhookDelivery: a new row for an old event, whatever became of   *)
(* the original and of the endpoint.                                       *)
Replay(d) == (\E o \in Deliveries : row[o].status # "none") /\ Insert(d)

(* updateWebhookEndpoint with enabled.                                     *)
Enable ==
    /\ endpoint' = [ failures |-> 0, status |-> "enabled" ]
    /\ UNCHANGED << row, queue, worker, posts, acked, mishaps >>

Disable ==
    /\ endpoint' = [ failures |-> endpoint.failures, status |-> "disabled" ]
    /\ UNCHANGED << row, queue, worker, posts, acked, mishaps >>

-----------------------------------------------------------------------------
(* The consumer.                                                           *)

CanReceive(w, m) ==
    /\ worker[w].step = "idle"
    /\ m \in queue
    /\ row[m.delivery].attempts > m.after \/ row[m.delivery].wait # "delay"

Remaining(m) ==
    \/ queue' = queue \ {m} /\ UNCHANGED mishaps
    \/ "duplicate" \in Faults /\ Mishap /\ UNCHANGED queue

At(w, step) == worker[w].step = step

Delivery(w) == worker[w].delivery

(* Seeded bug: a delivery in flight can be leased again.                   *)
LeasableInFlight(r) ==
    r.status \in { "pending", "delivering", "failed_retryable" }

(* leaseWebhookDelivery: the WHERE clause.  next_attempt_at is not in it.  *)
Leasable(r) ==
    /\ r.status \in { "pending", "failed_retryable" }
    /\ r.lease = NoWorker

Leased(r, w) ==
    [ status |-> "delivering", lease |-> w, attempts |-> r.attempts + 1,
      wait |-> r.wait ]

(* The attempt number is one more than the count of the row the UPDATE     *)
(* returns, which has already been incremented.                            *)
Lease(w, m) ==
    LET d == m.delivery IN
    /\ CanReceive(w, m)
    /\ Leasable(row[d])
    /\ Remaining(m)
    /\ row' = [row EXCEPT ![d] = Leased(row[d], w)]
    /\ worker' = [worker EXCEPT ![w] =
                    Doing("context", d, Leased(row[d], w).attempts + 1, "none")]
    /\ UNCHANGED << endpoint, posts, acked >>

LeaseRefused(w, m) ==
    /\ CanReceive(w, m)
    /\ ~ Leasable(row[m.delivery])
    /\ Remaining(m)
    /\ UNCHANGED << row, endpoint, worker, posts, acked >>

(* The second statement of leaseWebhookDelivery reads the endpoint.        *)
ReadContext(w) ==
    /\ At(w, "context")
    /\ worker' = [worker EXCEPT ![w] =
                    IF endpoint.status = "enabled"
                    THEN Doing("post", Delivery(w), worker[w].number, "none")
                    ELSE Doing("record", Delivery(w), worker[w].number,
                               "refused")]
    /\ UNCHANGED << row, endpoint, queue, posts, acked, mishaps >>

(* Seeded bug: one rung too many.                                          *)
FailedAsLong(number) ==
    IF number <= Rungs THEN "retrying" ELSE "exhausted"

(* nextAttemptAt: past the end of RETRY_SCHEDULE_SECONDS it is null.       *)
FailedAs(number) == IF number < Rungs THEN "retrying" ELSE "exhausted"

(* Seeded bug: any answer counts as an acknowledgement.                    *)
AnswersTakenForSuccess(answer) ==
    answer \in { "2xx", "other", "acked_too_late" }

Success(answer) == answer = "2xx"

(* fetch: a 2xx, another status or no connection, or a 2xx that came after *)
(* the timeout.                                                            *)
Post(w) ==
    LET d == Delivery(w) IN
    /\ At(w, "post")
    /\ posts' = [posts EXCEPT ![d] = @ + 1]
    /\ \E answer \in { "2xx", "other", "acked_too_late" } :
          /\ acked' = IF answer = "other" THEN acked ELSE acked \cup {d}
          /\ worker' = [worker EXCEPT ![w] =
                Doing("record", d, worker[w].number,
                      IF Success(answer) THEN "succeeded"
                      ELSE FailedAs(worker[w].number))]
    /\ UNCHANGED << row, endpoint, queue, mishaps >>

(* Seeded bug: an endpoint that is off is tried again.                     *)
StatusForRefusedLater(out) ==
    CASE out = "succeeded" -> "succeeded"
      [] out \in { "retrying", "refused" } -> "failed_retryable"
      [] OTHER -> "exhausted"

StatusFor(out) ==
    CASE out = "succeeded" -> "succeeded"
      [] out = "retrying" -> "failed_retryable"
      [] OTHER -> "exhausted"

Recorded(r, out) ==
    [ status |-> StatusFor(out), lease |-> NoWorker, attempts |-> r.attempts,
      wait |-> IF out = "retrying" THEN "delay" ELSE "over" ]

(* The endpoint's counter, in the same transaction.  A refusal is counted  *)
(* without a threshold.                                                    *)
Counted(out) ==
    LET failures == endpoint.failures + 1 IN
    IF out = "succeeded"
    THEN [ failures |-> 0, status |-> endpoint.status ]
    ELSE [ failures |-> failures,
           status |-> IF out # "refused" /\ failures >= DisableAfter
                      THEN "auto_disabled" ELSE endpoint.status ]

HoldsLease(w) == row[Delivery(w)].lease = w

(* recordDeliveryResult: guarded by the lease, without a look at whether   *)
(* it matched.                                                             *)
Record(w) ==
    LET d == Delivery(w)
        out == worker[w].out
    IN
    /\ At(w, "record")
    /\ IF HoldsLease(w)
       THEN /\ row' = [row EXCEPT ![d] = Recorded(row[d], out)]
            /\ endpoint' = Counted(out)
       ELSE UNCHANGED << row, endpoint >>
    /\ worker' = [worker EXCEPT ![w] =
                    IF out = "retrying"
                    THEN Doing("send", d, worker[w].number, "none")
                    ELSE Idle]
    /\ UNCHANGED << queue, posts, acked, mishaps >>

Send(w) ==
    /\ At(w, "send")
    /\ queue' = queue \cup { Message(Delivery(w), worker[w].number - 1) }
    /\ worker' = [worker EXCEPT ![w] = Idle]
    /\ UNCHANGED << row, endpoint, posts, acked, mishaps >>

(* The isolate dies or throws: message.retry(), until max_retries sends    *)
(* the message to the dead letter queue.                                   *)
Abort(w) ==
    /\ ~ At(w, "idle")
    /\ \/ "crash" \in Faults
       \/ "crash_unleased" \in Faults /\ At(w, "send")
    /\ Mishap
    /\ queue' \in { queue, queue \cup { Message(Delivery(w), 0) } }
    /\ worker' = [worker EXCEPT ![w] = Idle]
    /\ UNCHANGED << row, endpoint, posts, acked >>

-----------------------------------------------------------------------------
(* Seeded bug: only deliveries that failed once are found.                 *)
DueAfterFailure(r) ==
    r.status = "failed_retryable" /\ r.wait = "over" /\ r.lease = NoWorker

(* findDueDeliveries                                                       *)
Due(r) ==
    /\ r.status \in { "pending", "failed_retryable" }
    /\ r.wait = "over"
    /\ r.lease = NoWorker

(* sweepDueDeliveries: a second copy of the message would change nothing.  *)
Sweep(d) ==
    /\ Due(row[d])
    /\ Message(d, 0) \notin queue
    /\ queue' = queue \cup { Message(d, 0) }
    /\ UNCHANGED << row, endpoint, worker, posts, acked, mishaps >>

(* The clock reaches next_attempt_at.                                      *)
Waited(r) ==
    [ status |-> r.status, lease |-> r.lease, attempts |-> r.attempts,
      wait |-> "over" ]

WaitPasses(d) ==
    /\ row[d].wait # "over"
    /\ row' = [row EXCEPT ![d] = Waited(row[d])]
    /\ UNCHANGED << endpoint, queue, worker, posts, acked, mishaps >>

-----------------------------------------------------------------------------
WorkerStep(w) == ReadContext(w) \/ Post(w) \/ Record(w) \/ Send(w)

Receive(w, m) == Lease(w, m) \/ LeaseRefused(w, m)

Next ==
    \/ \E d \in Deliveries : Emit(d) \/ Replay(d) \/ Sweep(d) \/ WaitPasses(d)
    \/ Enable \/ Disable
    \/ \E w \in Workers : WorkerStep(w) \/ Abort(w)
    \/ \E w \in Workers, m \in queue : Receive(w, m)

Spec == Init /\ [][Next]_vars

(* Consumers go on, a message is not passed over for ever, the cron and    *)
(* the clock keep running.  Nobody has to emit, enable or disable.         *)
Fairness ==
    /\ \A w \in Workers : WF_vars(WorkerStep(w))
    /\ \A d \in Deliveries :
          /\ WF_vars(\E w \in Workers, m \in queue :
                        m.delivery = d /\ Receive(w, m))
          /\ WF_vars(Sweep(d))
          /\ WF_vars(WaitPasses(d))

FairSpec == Spec /\ Fairness

-----------------------------------------------------------------------------
(* Rows, messages, counters and local state keep their types.              *)
TypeOK ==
    /\ row \in [Deliveries ->
          [ status : DeliveryStatus, lease : Workers \cup {NoWorker},
            attempts : 0 .. Rungs - 1,
            wait : { "delay", "over" } ]]
    /\ endpoint \in [ status : { "enabled", "disabled", "auto_disabled" },
                      failures : Nat ]
    /\ queue \subseteq [ delivery : Deliveries, after : 0 .. Rungs - 2 ]
    /\ worker \in [Workers ->
          [ step : Step, delivery : Deliveries, number : 0 .. Rungs,
            out : Outcome ]]
    /\ posts \in [Deliveries -> 0 .. Rungs - 1]
    /\ acked \subseteq Deliveries
    /\ mishaps \in 0 .. MaxMishaps

(* No two isolates are between the lease and the record of one delivery,   *)
(* however often its message is redelivered, swept or sent again: the      *)
(* customer is not sent one attempt twice (webhooks.ts, the lease).        *)
OneRequestAtATime ==
    \A v, w \in Workers :
        /\ v # w
        /\ worker[v].step \in { "context", "post", "record" }
        /\ worker[w].step \in { "context", "post", "record" }
        => Delivery(v) # Delivery(w)

(* A delivery is given up for one of two reasons only.  Either each of its *)
(* attempts was a request, and no delivery ever gets more: its ladder is   *)
(* spent, and nothing but failed requests has spent it.  Or its last lease *)
(* found the endpoint switched off.  How many rungs the ladder has is not  *)
(* said here: the code makes one request less than index.ts:45 lists.      *)
GivenUpHonestly ==
    \A d \in Deliveries :
        row[d].status = "exhausted" =>
            \/ /\ row[d].attempts = posts[d]
               /\ \A e \in Deliveries : posts[e] <= posts[d]
            \/ row[d].attempts = posts[d] + 1

(* What the rows say to somebody who only knows the promise.               *)
Promised(status) ==
    CASE status = "none" -> "none"
      [] status = "succeeded" -> "kept"
      [] status = "exhausted" -> "given_up"
      [] OTHER -> "owed"

Promise == INSTANCE DeliveryPromise WITH
    promise <- [ d \in Deliveries |-> Promised(row[d].status) ],
    sent <- posts,
    MaxRequests <- Rungs

(* The consumer, the sweep and the routes together make no request that is *)
(* not owed, none beyond the ladder, and never record a success the        *)
(* endpoint did not answer (index.ts, deliver; webhooks.ts, the lease).    *)
PromiseKept == Promise!Spec

(* Every delivery that exists ends up acknowledged or given up: each       *)
(* failure has a message or the sweep to drive the next attempt.           *)
DeliveriesSettle == Promise!Settles

=============================================================================
