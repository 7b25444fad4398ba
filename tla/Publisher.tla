------------------------------ MODULE Publisher ------------------------------
(***************************************************************************)
(* The publish engine: one post and its publish targets, from the moment   *)
(* POST /v1/posts committed them until every target has an outcome.        *)
(*                                                                         *)
(*   packages/db/src/repositories/posts.ts    the conditional statements   *)
(*   workers/publisher/src/*.ts               the queue consumer           *)
(*   workers/reconciler/src/index.ts          the cron sweeps              *)
(*   apps/api/src/routes/posts.ts             create, cancel, retry        *)
(*                                                                         *)
(* An action is one SQL statement, one provider call or one queue send:    *)
(* what another process can see between two awaits.  `calls' and `live'    *)
(* are the provider's own books, which no part of the code can read; the   *)
(* properties compare them with what the rows claim.                       *)
(***************************************************************************)
EXTENDS PostStateMachine, Naturals, FiniteSets

CONSTANTS
    Targets,        \* the publish targets of the post
    Workers,        \* publisher isolates (queue consumers)
    Leases,         \* lease ids; a uuid is one that nobody holds any more
    NoLease,        \* NULL
    MaxAttempts,    \* post_targets.max_attempts, 5 unless overridden
    Faults,         \* which of FaultKinds may strike
    Redelivered,    \* message types the queue may deliver more than once
    MaxMishaps,     \* bound: permit denials, crashes, caught I/O errors and
                    \* early lease expiries in one behaviour
    MaxRetries      \* bound: customer retries in one behaviour

(* crash:         a queue consumer dies or throws after any await          *)
(* crash_outside: the same, except between a provider call and the         *)
(*                statement that records its outcome, and between a        *)
(*                reconciler's verdict and its acknowledgement             *)
(* lost_send:     a request or a sweep ends before its queue send          *)
(* io:            a statement or a send inside the try block throws        *)
(* lost_response: a transport error although the provider took the post    *)
(* slow:          a lease runs out while its holder is still working       *)
FaultKinds ==
    { "crash", "crash_outside", "lost_send", "io", "lost_response", "slow" }

MessageType == { "target", "poll_status", "reconcile", "scheduled_post" }

ASSUME TargetsAssumption == Targets # {} /\ IsFiniteSet(Targets)
ASSUME WorkersAssumption == Workers # {}
ASSUME LeasesAssumption == NoLease \notin Leases
ASSUME BoundsAssumption ==
    /\ MaxAttempts \in Nat \ {0}
    /\ MaxMishaps \in Nat
    /\ MaxRetries \in Nat
ASSUME FaultsAssumption ==
    Faults \subseteq FaultKinds /\ Redelivered \subseteq MessageType

VARIABLES
    row,            \* post_targets
    history,        \* post_target_attempts: the numbers recorded, per target
    metered,        \* usage rows (successful_publish, target)
    postStatus,     \* posts.status
    publishAt,      \* posts.publish_at: absent, or on which side of now
    queue,          \* PUBLISH_QUEUE
    worker,         \* what each isolate is doing
    api,            \* the request whose tail has not run yet
    calls,          \* how often the provider was asked to publish a target
    live,           \* how many posts that created
    mishaps, retries

database == << row, history, metered, postStatus, publishAt >>
provider == << calls, live >>
vars == << database, queue, worker, api, provider, mishaps, retries >>

(* A worker's place in a handler, and what it carries across awaits.       *)
Step == { "idle", "load", "attempt", "call", "mark", "finish", "meter",
          "search", "resolve", "send", "recalc" }

Outcome == { "none", "published", "processing", "simulated", "retryable",
             "permanent", "unknown", "released",
             "found", "absent", "indeterminate", "fanned_out" }

AnyTarget == CHOOSE t \in Targets : TRUE

Idle == [ step |-> "idle", job |-> "target", target |-> AnyTarget,
          lease |-> NoLease, number |-> 0, opened |-> FALSE,
          asked |-> FALSE, out |-> "none", batch |-> {} ]

Message(type, t) == [ type |-> type, target |-> t, delayed |-> FALSE ]
Delayed(type, t) == [ type |-> type, target |-> t, delayed |-> TRUE ]
ScheduledPost == Message("scheduled_post", AnyTarget)

(* createPostWithTargets: either everything is queued and the request      *)
(* still has to send one message per target, or everything is scheduled    *)
(* and nothing is sent at all.                                             *)
NewRow(status) ==
    [ status |-> status, lease |-> NoLease, expired |-> FALSE, due |-> TRUE,
      attempts |-> 0, simulated |-> FALSE ]

Init ==
    /\ \/ /\ row = [ t \in Targets |-> NewRow("queued") ]
          /\ postStatus = "queued"
          /\ publishAt = "none"
          /\ api = [ step |-> "send", batch |-> Targets ]
       \/ /\ row = [ t \in Targets |-> NewRow("scheduled") ]
          /\ postStatus = "scheduled"
          /\ publishAt = "future"
          /\ api = [ step |-> "idle", batch |-> {} ]
    /\ history = [ t \in Targets |-> {} ]
    /\ metered = {}
    /\ queue = {}
    /\ worker = [ w \in Workers |-> Idle ]
    /\ calls = [ t \in Targets |-> 0 ]
    /\ live = [ t \in Targets |-> 0 ]
    /\ mishaps = 0
    /\ retries = 0

-----------------------------------------------------------------------------
(* Delivery.  A delayed message is held back until the backoff it was      *)
(* computed from has passed.  What is left of the queue afterwards: the    *)
(* message is gone, or it will come again.                                 *)

CanReceive(w, m) ==
    /\ worker[w].step = "idle"
    /\ m \in queue
    /\ m.delayed => row[m.target].due

Remaining(m) ==
    { queue \ {m} } \cup (IF m.type \in Redelivered THEN { queue } ELSE {})

At(w, step) == worker[w].step = step

Job(w) == worker[w].job
Target(w) == worker[w].target

(* Seeded bug: the WHERE clause compares the id but not the lease.         *)
LeaseIgnored(w) == TRUE

(* The lease guard every outcome statement carries in its WHERE clause.    *)
HoldsLease(w) == row[Target(w)].lease = worker[w].lease

-----------------------------------------------------------------------------
(* Winning and recording a lease.                                          *)

(* Seeded bug: the budget is not part of the WHERE clause.                 *)
CanLeaseWithoutBudget(r) ==
    /\ r.status \in LeasableTargetStatus
    /\ r.lease = NoLease \/ r.expired
    /\ r.due

(* leaseTargetForExecution: the WHERE clause.                              *)
CanLease(r) ==
    /\ r.status \in LeasableTargetStatus
    /\ r.lease = NoLease \/ r.expired
    /\ r.due
    /\ r.attempts < MaxAttempts

(* ... and its SET.                                                        *)
Leased(r, lease) ==
    [r EXCEPT !.status = "publishing", !.lease = lease, !.expired = FALSE,
              !.attempts = r.attempts + 1]

LeasesInUse ==
    { worker[w].lease : w \in Workers } \cup { row[t].lease : t \in Targets }

LeaseTarget(w, m) ==
    LET t == m.target IN
    /\ CanReceive(w, m) /\ m.type = "target"
    /\ CanLease(row[t])
    /\ queue' \in Remaining(m)
    /\ \E lease \in Leases \ LeasesInUse :
          /\ row' = [row EXCEPT ![t] = Leased(@, lease)]
          /\ worker' = [worker EXCEPT ![w] =
                          [Idle EXCEPT !.step = "load", !.target = t,
                                       !.lease = lease,
                                       !.number = row[t].attempts + 1,
                                       !.batch = {t}]]
    /\ UNCHANGED << history, metered, postStatus, publishAt, api, provider,
                    mishaps, retries >>

(* Refused: acknowledged without publishing.                               *)
LeaseRefused(w, m) ==
    /\ CanReceive(w, m) /\ m.type = "target"
    /\ ~ CanLease(row[m.target])
    /\ queue' \in Remaining(m)
    /\ UNCHANGED << database, worker, api, provider, mishaps, retries >>

(* Where a handler goes once an outcome is known.  A failure with an open  *)
(* attempt closes it first; a success marks the row first.  The attempt    *)
(* number is not looked at again.                                          *)
Succeeded(out) == out \in { "published", "processing", "simulated" }

WithOutcome(state, out) ==
    [state EXCEPT !.out = out, !.number = 0,
                  !.step = IF state.opened /\ ~ Succeeded(out)
                           THEN "finish" ELSE "mark"]

(* Seeded bugs: a retryable failure is not queued again, a simulation does *)
(* not recalculate the post.                                               *)
AfterWithoutRequeue(step, out) ==
    CASE step = "mark" ->
            IF Succeeded(out) THEN "finish"
            ELSE IF out \in { "permanent", "retryable" } THEN "recalc"
            ELSE "send"
      [] step = "finish" -> IF Succeeded(out) THEN "recalc" ELSE "mark"
      [] step = "send" -> IF out = "released" THEN "idle" ELSE "recalc"
      [] OTHER -> "idle"

AfterWithoutRecalculation(step, out) ==
    CASE step = "mark" -> IF Succeeded(out) THEN "finish" ELSE "send"
      [] step = "finish" -> IF out = "simulated" THEN "idle" ELSE "mark"
      [] step = "send" -> IF out = "released" THEN "idle" ELSE "recalc"
      [] OTHER -> "idle"

After(step, out) ==
    CASE step = "mark" ->
            IF Succeeded(out) THEN "finish"
            ELSE IF out = "permanent" THEN "recalc" ELSE "send"
      [] step = "finish" ->
            CASE out = "published" -> "meter"
              [] out = "processing" -> "send"
              [] out = "simulated" -> "recalc"
              [] OTHER -> "mark"
      [] step = "meter" -> "recalc"
      [] step = "resolve" -> IF out = "absent" THEN "send" ELSE "recalc"
      [] step = "send" -> IF out = "released" THEN "idle" ELSE "recalc"
      [] OTHER -> "idle"

(* Once a failure is on the row only its kind still matters: the rest of   *)
(* the locals is forgotten, which halves the state space.                  *)
Advance(w) ==
    LET state == worker[w]
        next == After(state.step, state.out)
    IN  worker' = [worker EXCEPT ![w] =
           IF next = "idle" THEN Idle
           ELSE IF state.step = "mark" /\ ~ Succeeded(state.out)
           THEN [Idle EXCEPT !.step = next, !.target = state.target,
                             !.out = state.out, !.batch = state.batch]
           ELSE [state EXCEPT !.step = next]]

(* loadPublishContext: blocked for good (no destination, no connection, no *)
(* credentials ...), blocked by a kill switch that will clear, or thrown   *)
(* by a statement whose error nobody can place.                            *)
BlockedAs == { "permanent", "retryable", "unknown" }

(* The gates before an attempt: a block, a simulation, or the rate         *)
(* limiter's answer.                                                       *)
LoadContext(w) ==
    /\ At(w, "load")
    /\ \/ /\ \E out \in BlockedAs :
                worker' = [worker EXCEPT ![w] = WithOutcome(@, out)]
          /\ UNCHANGED mishaps
       \/ /\ mishaps < MaxMishaps
          /\ mishaps' = mishaps + 1
          /\ worker' = [worker EXCEPT ![w] = WithOutcome(@, "released")]
       \/ /\ \E out \in { "simulated", "none" } :
                worker' = [worker EXCEPT ![w] =
                             [@ EXCEPT !.out = out, !.step = "attempt"]]
          /\ UNCHANGED mishaps
    /\ UNCHANGED << database, queue, api, provider, retries >>

(* startPublishAttempt: ON CONFLICT (target, number) DO NOTHING.           *)
StartAttempt(w) ==
    /\ At(w, "attempt")
    /\ history' = [history EXCEPT ![Target(w)] = @ \cup {worker[w].number}]
    /\ worker' = [worker EXCEPT ![w] =
                    [@ EXCEPT !.opened = TRUE, !.number = 0,
                              !.step = IF worker[w].out = "simulated"
                                       THEN "mark" ELSE "call"]]
    /\ UNCHANGED << row, metered, postStatus, publishAt, queue, api,
                    provider, mishaps, retries >>

(* adapter.publishing.prepare throws: nothing irreversible was asked.      *)
PrepareFails(w) ==
    /\ At(w, "call")
    /\ \E out \in { "permanent", "retryable", "unknown" } :
          worker' = [worker EXCEPT ![w] = WithOutcome(@, out)]
    /\ UNCHANGED << database, queue, api, provider, mishaps, retries >>

(* Seeded bug: a timeout after the request left counts as retryable.       *)
TakenAsRetryable == { "published", "processing", "unknown", "retryable" }

(* What dispositionFor makes of each way a call can end: the provider took *)
(* the post or it did not, and only an unknown outcome may mean either.    *)
TakenAs ==
    { "published", "processing", "unknown" }
    \cup (IF "lost_response" \in Faults THEN { "retryable" } ELSE {})

RefusedAs == { "unknown", "permanent", "retryable" }

(* adapter.publishing.publish, the single irreversible act.                *)
CallProvider(w) ==
    LET t == Target(w)
        Asked(out) ==
            worker' = [worker EXCEPT ![w] =
                         WithOutcome([@ EXCEPT !.asked = TRUE], out)]
    IN
    /\ At(w, "call")
    /\ calls' = [calls EXCEPT ![t] = @ + 1]
    /\ \/ /\ \E out \in TakenAs : Asked(out)
          /\ live' = [live EXCEPT ![t] = @ + 1]
       \/ /\ \E out \in RefusedAs : Asked(out)
          /\ UNCHANGED live
    /\ UNCHANGED << database, queue, api, mishaps, retries >>

-----------------------------------------------------------------------------
(* Recording the outcome.                                                  *)

(* Seeded bugs: an unknown outcome is simply retried; an inconclusive      *)
(* search is taken for a success.                                          *)
StatusForRetryingUnknown(out) ==
    CASE out \in { "published", "simulated", "found" } -> "published"
      [] out = "processing" -> "provider_processing"
      [] out \in { "permanent", "indeterminate" } -> "permanent_failed"
      [] out = "released" -> "queued"
      [] OTHER -> "retryable_failed"

StatusForAdoptingGuesses(out) ==
    CASE out \in { "published", "simulated", "found", "indeterminate" } ->
            "published"
      [] out = "processing" -> "provider_processing"
      [] out \in { "retryable", "absent" } -> "retryable_failed"
      [] out = "permanent" -> "permanent_failed"
      [] out = "released" -> "queued"
      [] OTHER -> "unknown_reconciliation_required"

StatusFor(out) ==
    CASE out \in { "published", "simulated", "found" } -> "published"
      [] out = "processing" -> "provider_processing"
      [] out \in { "retryable", "absent" } -> "retryable_failed"
      [] out \in { "permanent", "indeterminate" } -> "permanent_failed"
      [] out = "released" -> "queued"
      [] OTHER -> "unknown_reconciliation_required"

(* Seeded bugs: the lease stays on the row; a failure gives the attempt    *)
(* back as well.                                                           *)
MarkedKeepingLease(r, out) ==
    [r EXCEPT !.status = StatusFor(out), !.due = TRUE]

MarkedRefunding(r, out) ==
    [ status |-> StatusFor(out), lease |-> NoLease, expired |-> FALSE,
      due |-> TRUE, attempts |-> 0, simulated |-> out = "simulated" ]

(* What the markTarget* statements and releaseTargetLease set.  Only the   *)
(* release gives the attempt back.                                         *)
Marked(r, out) ==
    [ status |-> StatusFor(out), lease |-> NoLease, expired |-> FALSE,
      due |-> IF out \in { "processing", "retryable", "released" }
              THEN FALSE ELSE TRUE,
      attempts |-> IF out = "released" /\ r.attempts > 0
                   THEN r.attempts - 1 ELSE r.attempts,
      simulated |-> IF out = "simulated" THEN TRUE
                    ELSE IF Succeeded(out) THEN FALSE ELSE r.simulated ]

(* Every statement is guarded by the lease id, and its row count is        *)
(* ignored: a worker that lost the lease carries on all the same.          *)
Mark(w) ==
    /\ At(w, "mark")
    /\ row' = IF HoldsLease(w)
              THEN [row EXCEPT ![Target(w)] = Marked(@, worker[w].out)]
              ELSE row
    /\ Advance(w)
    /\ UNCHANGED << history, metered, postStatus, publishAt, queue,
                    api, provider, mishaps, retries >>

(* finishPublishAttempt: one more await, on columns nothing here reads.    *)
Finish(w) ==
    /\ At(w, "finish")
    /\ Advance(w)
    /\ UNCHANGED << database, queue, api, provider, mishaps, retries >>

(* meterPublish: unique per target, and a failed write is swallowed.       *)
Meter(w) ==
    /\ At(w, "meter")
    /\ \/ metered' = metered \cup {Target(w)}
       \/ "io" \in Faults /\ metered' = metered
    /\ Advance(w)
    /\ UNCHANGED << row, history, postStatus, publishAt, queue, api,
                    provider, mishaps, retries >>

Outbox(w) ==
    LET t == Target(w)
        out == worker[w].out
    IN  CASE out \in { "retryable", "released" } -> { Delayed("target", t) }
          [] out = "processing" -> { Message("poll_status", t) }
          [] out = "unknown" -> { Message("reconcile", t) }
          [] OTHER -> { Message("target", u) : u \in worker[w].batch }

Send(w) ==
    /\ At(w, "send")
    /\ queue' = queue \cup Outbox(w)
    /\ Advance(w)
    /\ UNCHANGED << database, api, provider, mishaps, retries >>

Reduced == ReducePostStatus({ row[t].status : t \in Targets })

(* recalculatePostStatus, in a transaction that locks the post row.        *)
Recalculate(w) ==
    /\ At(w, "recalc")
    /\ postStatus' = Reduced
    /\ Advance(w)
    /\ UNCHANGED << row, history, metered, publishAt, queue, api,
                    provider, mishaps, retries >>

-----------------------------------------------------------------------------
(* Things that go wrong between two awaits.                                *)

Mishap == mishaps < MaxMishaps /\ mishaps' = mishaps + 1

(* The catch of the try block: a statement or a send failed after the      *)
(* provider accepted.  normalizeError cannot place it: unknown.            *)
CatchError(w) ==
    /\ "io" \in Faults
    /\ worker[w].out \in { "published", "processing" }
    /\ worker[w].step \in { "mark", "finish", "send", "recalc" }
    /\ Job(w) = "target"
    /\ Mishap
    /\ worker' = [worker EXCEPT ![w] = WithOutcome(@, "unknown")]
    /\ UNCHANGED << database, queue, api, provider, retries >>

UnrecordedCall(w) ==
    worker[w].asked /\ HoldsLease(w)

ResolvedAlready(w) ==
    Job(w) = "reconcile" /\ worker[w].step \in { "send", "recalc" }

(* The isolate dies, or throws where nothing catches: message.retry().     *)
Abort(w) ==
    /\ ~ At(w, "idle")
    /\ \/ "crash" \in Faults
       \/ /\ "crash_outside" \in Faults
          /\ ~ UnrecordedCall(w) /\ ~ ResolvedAlready(w)
    /\ Mishap
    /\ queue' = queue \cup { Message(Job(w), Target(w)) }
    /\ worker' = [worker EXCEPT ![w] = Idle]
    /\ UNCHANGED << database, api, provider, retries >>

-----------------------------------------------------------------------------
(* The other three message types.                                          *)

(* reconcileTarget reads the row, asks the provider, then writes.          *)
Reconcile(w, m) ==
    /\ CanReceive(w, m) /\ m.type = "reconcile"
    /\ queue' \in Remaining(m)
    /\ IF row[m.target].status = "unknown_reconciliation_required"
       THEN \/ worker' = [worker EXCEPT ![w] =
                            [Idle EXCEPT !.step = "search",
                                         !.job = "reconcile",
                                         !.target = m.target,
                                         !.batch = {m.target}]]
            \/ UNCHANGED worker         \* unsupported or blocked: left as is
       ELSE UNCHANGED worker            \* somebody resolved it already
    /\ UNCHANGED << database, api, provider, mishaps, retries >>

(* findPossibleDuplicate: right, or not conclusive.                        *)
Search(w) ==
    /\ At(w, "search")
    /\ \E out \in { "indeterminate",
                    IF live[Target(w)] > 0 THEN "found" ELSE "absent" } :
          worker' = [worker EXCEPT ![w] =
                       [@ EXCEPT !.out = out, !.step = "resolve"]]
    /\ UNCHANGED << database, queue, api, provider, mishaps, retries >>

(* resolveReconciliation: guarded by the status alone.                     *)
Resolve(w) ==
    LET t == Target(w) IN
    /\ At(w, "resolve")
    /\ row' = IF row[t].status = "unknown_reconciliation_required"
              THEN [row EXCEPT ![t].status = StatusFor(worker[w].out),
                               ![t].lease = NoLease, ![t].expired = FALSE,
                               ![t].due = TRUE]
              ELSE row
    /\ Advance(w)
    /\ UNCHANGED << history, metered, postStatus, publishAt, queue,
                    api, provider, mishaps, retries >>

(* pollTargetStatus: skipped or blocked, asked again later, or settled -   *)
(* and then the statement is guarded by an empty lease id, which the uuid  *)
(* column rejects: the handler throws until the queue gives up on it.      *)
Poll(w, m) ==
    /\ CanReceive(w, m) /\ m.type = "poll_status"
    /\ \/ queue' \in Remaining(m)
       \/ /\ row[m.target].status = "provider_processing"
          /\ queue' = queue
    /\ UNCHANGED << database, worker, api, provider, mishaps, retries >>

(* publish.scheduled_post: enqueueTargets claims, then one send per claim. *)
FanOut(w, m) ==
    LET claimed == { t \in Targets :
                       row[t].status \in { "pending", "scheduled",
                                           "awaiting_approval" } }
    IN
    /\ CanReceive(w, m) /\ m.type = "scheduled_post"
    /\ queue' \in Remaining(m)
    /\ row' = [ t \in Targets |->
                  IF t \in claimed
                  THEN [row[t] EXCEPT !.status = "queued", !.due = TRUE]
                  ELSE row[t] ]
    /\ worker' = [worker EXCEPT ![w] =
                    [Idle EXCEPT !.step = IF claimed = {} THEN "recalc"
                                          ELSE "send",
                                 !.job = "scheduled_post",
                                 !.out = "fanned_out", !.batch = claimed]]
    /\ UNCHANGED << history, metered, postStatus, publishAt, api,
                    provider, mishaps, retries >>

-----------------------------------------------------------------------------
(* The REST API.  One request at a time: its first statement, the          *)
(* recalculation, then whatever waitUntil still has to send.               *)

(* Seeded bug: a target in flight can be cancelled.                        *)
CancellableInFlight == { "pending", "scheduled", "queued", "publishing",
                         "awaiting_approval", "retryable_failed" }

Cancellable == { "pending", "scheduled", "queued", "awaiting_approval",
                 "retryable_failed", "blocked_validation" }

(* cancelPostTargets                                                       *)
Cancel ==
    /\ api.step = "idle"
    /\ row' = [ t \in Targets |->
                  IF row[t].status \in Cancellable
                  THEN [row[t] EXCEPT !.status = "cancelled",
                                      !.lease = NoLease, !.expired = FALSE,
                                      !.due = TRUE]
                  ELSE row[t] ]
    /\ api' = [ step |-> "recalc", batch |-> {} ]
    /\ UNCHANGED << history, metered, postStatus, publishAt, queue,
                    worker, provider, mishaps, retries >>

Requeueable == { "retryable_failed" }

(* requeueFailedTargets, retryableOnly (all of them), and requeueTarget    *)
(* (one of them).                                                          *)
Retry ==
    LET failed == { t \in Targets : row[t].status \in Requeueable } IN
    /\ api.step = "idle"
    /\ retries < MaxRetries /\ retries' = retries + 1
    /\ \E batch \in { failed } \cup { { t } : t \in failed } :
          /\ row' = [ t \in Targets |->
                        IF t \in batch
                        THEN [row[t] EXCEPT !.status = "queued",
                                            !.lease = NoLease,
                                            !.expired = FALSE, !.due = TRUE,
                                            !.attempts = 0]
                        ELSE row[t] ]
          /\ api' = [ step |-> "recalc", batch |-> batch ]
    /\ UNCHANGED << history, metered, postStatus, publishAt, queue,
                    worker, provider, mishaps >>

ApiRecalculate ==
    /\ api.step = "recalc"
    /\ postStatus' = Reduced
    /\ api' = [api EXCEPT !.step = IF api.batch = {} THEN "idle" ELSE "send"]
    /\ UNCHANGED << row, history, metered, publishAt, queue, worker,
                    provider, mishaps, retries >>

ApiSend ==
    /\ api.step = "send"
    /\ queue' = queue \cup { Message("target", t) : t \in api.batch }
    /\ api' = [ step |-> "idle", batch |-> {} ]
    /\ UNCHANGED << database, worker, provider, mishaps, retries >>

(* The isolate is gone before waitUntil ran, or the send itself failed.    *)
ApiAbort ==
    /\ api.step # "idle"
    /\ "lost_send" \in Faults
    /\ Mishap
    /\ api' = [ step |-> "idle", batch |-> {} ]
    /\ UNCHANGED << database, queue, worker, provider, retries >>

-----------------------------------------------------------------------------
(* The cron.                                                               *)

(* Seeded bug: publish_at is not compared with now.                        *)
OverdueAtAnyTime ==
    /\ postStatus \in { "scheduled", "queued" }
    /\ \A t \in Targets : row[t].status \notin
          { "publishing", "provider_processing", "preparing_media" }

(* findOverdueScheduledPosts                                               *)
Overdue ==
    /\ postStatus \in { "scheduled", "queued" }
    /\ publishAt = "past"
    /\ \A t \in Targets : row[t].status \notin
          { "publishing", "provider_processing", "preparing_media" }

(* sweepScheduledPosts: a second copy of the message would change nothing. *)
SweepScheduled ==
    /\ Overdue
    /\ ScheduledPost \notin queue
    /\ queue' = queue \cup { ScheduledPost }
    /\ UNCHANGED << database, worker, api, provider, mishaps, retries >>

(* sweepAbandonedLeases: release, then send.                               *)
SweepAbandoned(t) ==
    /\ row[t].status = "publishing" /\ row[t].expired
    /\ row' = [row EXCEPT ![t] = [Marked(@, "released") EXCEPT !.due = TRUE]]
    /\ \/ /\ queue' = queue \cup { Message("target", t) }
          /\ UNCHANGED mishaps
       \/ /\ "lost_send" \in Faults
          /\ Mishap
          /\ UNCHANGED queue
    /\ UNCHANGED << history, metered, postStatus, publishAt, worker,
                    api, provider, retries >>

-----------------------------------------------------------------------------
(* Time.                                                                   *)

TimeArrives ==
    /\ publishAt = "future"
    /\ publishAt' = "past"
    /\ UNCHANGED << row, history, metered, postStatus, queue, worker,
                    api, provider, mishaps, retries >>

BackoffPasses(t) ==
    /\ ~ row[t].due
    /\ row' = [row EXCEPT ![t].due = TRUE]
    /\ UNCHANGED << history, metered, postStatus, publishAt, queue,
                    worker, api, provider, mishaps, retries >>

(* Five minutes after the lease was taken.  Every await of the holder is   *)
(* bounded well below that, so by then it has finished or is gone.         *)
LeaseExpires(t) ==
    LET held == \E w \in Workers : /\ ~ At(w, "idle") /\ Target(w) = t
                                   /\ HoldsLease(w)
    IN
    /\ row[t].lease # NoLease /\ ~ row[t].expired
    /\ IF held THEN "slow" \in Faults /\ Mishap ELSE UNCHANGED mishaps
    /\ row' = [row EXCEPT ![t].expired = TRUE]
    /\ UNCHANGED << history, metered, postStatus, publishAt, queue,
                    worker, api, provider, retries >>

-----------------------------------------------------------------------------
WorkerStep(w) ==
    \/ LoadContext(w) \/ StartAttempt(w) \/ PrepareFails(w) \/ CallProvider(w)
    \/ Mark(w) \/ Finish(w) \/ Meter(w) \/ Search(w) \/ Resolve(w)
    \/ Send(w) \/ Recalculate(w)

Receive(w, m) ==
    \/ LeaseTarget(w, m) \/ LeaseRefused(w, m) \/ Reconcile(w, m)
    \/ Poll(w, m) \/ FanOut(w, m)

Fault(w) == CatchError(w) \/ Abort(w)

Cron == SweepScheduled \/ \E t \in Targets : SweepAbandoned(t)

Time == TimeArrives \/ \E t \in Targets : BackoffPasses(t) \/ LeaseExpires(t)

Api == Cancel \/ Retry \/ ApiRecalculate \/ ApiSend \/ ApiAbort

Next ==
    \/ \E w \in Workers : WorkerStep(w) \/ Fault(w)
    \/ \E w \in Workers, m \in queue : Receive(w, m)
    \/ Cron \/ Time \/ Api

Spec == Init /\ [][Next]_vars

-----------------------------------------------------------------------------
(* Types.                                                                  *)

Row ==
    [ status : TargetStatus, lease : Leases \cup {NoLease},
      expired : BOOLEAN, due : BOOLEAN, attempts : 0 .. MaxAttempts,
      simulated : BOOLEAN ]

Working ==
    [ step : Step, job : MessageType, target : Targets,
      lease : Leases \cup {NoLease}, number : 0 .. MaxAttempts,
      opened : BOOLEAN, asked : BOOLEAN, out : Outcome,
      batch : SUBSET Targets ]

Messages == [ type : MessageType, target : Targets, delayed : BOOLEAN ]

(* Every variable keeps its type: the columns, the attempt numbers within  *)
(* max_attempts, the messages and the handlers' local state.               *)
TypeOK ==
    /\ row \in [Targets -> Row]
    /\ history \in [Targets -> SUBSET (1 .. MaxAttempts)]
    /\ metered \subseteq Targets
    /\ postStatus \in PostStatus
    /\ publishAt \in { "none", "future", "past" }
    /\ queue \subseteq Messages
    /\ worker \in [Workers -> Working]
    /\ api \in [ step : { "idle", "recalc", "send" },
                 batch : SUBSET Targets ]
    /\ calls \in [Targets -> Nat]
    /\ live \in [Targets -> Nat]
    /\ mishaps \in 0 .. MaxMishaps
    /\ retries \in 0 .. MaxRetries

-----------------------------------------------------------------------------
(* Safety.                                                                 *)

(* A target is in `publishing' exactly while its row carries a lease, and  *)
(* no two isolates carry the same one: this is what lets a redelivered     *)
(* message be acknowledged unread (ADR-006 layer 2).                       *)
LeaseIffPublishing ==
    \A t \in Targets : row[t].status = "publishing" <=> row[t].lease # NoLease

LeasesDistinct ==
    \A v, w \in Workers :
        v # w /\ worker[v].lease # NoLease =>
            worker[v].lease # worker[w].lease

LeaseDiscipline == LeaseIffPublishing /\ LeasesDistinct

(* However often messages are redelivered, workers die or targets are      *)
(* retried, at most one call per target creates a post at the provider.    *)
EffectivelyOnce ==
    \A t \in Targets : live[t] <= 1

(* Nothing a worker may still lease is already live: this is what makes a  *)
(* retry safe, for retryable_failed, for a released lease and for a target *)
(* the cron put back.                                                      *)
LeasableIsNotLive ==
    \A t \in Targets :
        row[t].status \in LeasableTargetStatus => live[t] = 0

(* `published' is the truth: unless the run was simulated, the provider    *)
(* has the post, also when reconciliation adopted it; and nobody is billed *)
(* for a post that is not there (usage.ts, meterPublish).                  *)
PublishedIsLive ==
    \A t \in Targets :
        /\ row[t].status = "published" => (row[t].simulated <=> live[t] = 0)
        /\ t \in metered => live[t] > 0

(* A cancelled target never goes out, whatever was queued, backing off or  *)
(* about to be leased when cancelPostTargets ran.                          *)
CancelledIsNotLive ==
    \A t \in Targets : row[t].status = "cancelled" => live[t] = 0

(* No provider is asked to publish a scheduled post before its time, by    *)
(* any path: fan-out, cancel and retry of a scheduled post included.       *)
NoEarlyPublish ==
    publishAt = "future" => \A t \in Targets : calls[t] = 0

(* The provider is asked at most max_attempts times per customer decision: *)
(* giving an attempt back on a denied permit or an abandoned lease never   *)
(* buys an extra call.                                                     *)
BudgetRespected ==
    \A t \in Targets :
        calls[t] <= MaxAttempts * (retries + 1)

(* A closed post is closed for good: once the aggregate reads published,   *)
(* partially published, failed or cancelled, every target is terminal and  *)
(* the aggregate is still what they reduce to.                             *)
ClosedPostIsSettled ==
    postStatus \in TerminalPostStatus =>
        /\ \A t \in Targets : row[t].status \in TerminalTargetStatus
        /\ postStatus = Reduced

(* No step takes a target out of a terminal status: a stale worker, an old *)
(* message, a late reconciliation or a customer retry included.            *)
TerminalIsFinal ==
    [][\A t \in Targets :
          row[t].status \in TerminalTargetStatus =>
              row'[t].status = row[t].status]_vars

(* Nor does any step take a target along a path the domain does not know:  *)
(* the table of legal transitions is enforced nowhere, so it is the lease  *)
(* and status guards that have to imply it.  The one exception is the      *)
(* release of a lease, on a denied permit or by the sweep, which the table *)
(* does not list.                                                          *)
StatusesFollowTheDomain ==
    [][\A t \in Targets :
          \/ CanTransitionTarget(row[t].status, row'[t].status)
          \/ row[t].status = "publishing" /\ row'[t].status = "queued"]_vars

(* Every call to the provider has a row of its own in the attempt table,   *)
(* which the post timeline and the provider health figures are read from   *)
(* (execute-target.ts: opened before the call, so a crash still leaves     *)
(* evidence).                                                              *)
EveryCallHasAnAttempt ==
    \A t \in Targets : calls[t] <= Cardinality(history[t])

(* A target that reads permanent_failed was not posted: ADR-006 leaves one *)
(* whose outcome nobody could find out in unknown_reconciliation_required  *)
(* (`Without such evidence the target stays in that state').  Does not     *)
(* hold: an indeterminate search ends as permanent_failed.                 *)
FailedIsNotLive ==
    \A t \in Targets : row[t].status = "permanent_failed" => live[t] = 0

(* What a row says to somebody who only knows PublishPromise.              *)
ClaimOf(r) ==
    CASE r.status = "published" ->
            IF r.simulated THEN "simulated" ELSE "published"
      [] r.status = "provider_processing" -> "accepted"
      [] r.status = "unknown_reconciliation_required" -> "in_doubt"
      [] r.status \in { "permanent_failed", "blocked_validation" } -> "failed"
      [] r.status = "cancelled" -> "cancelled"
      [] OTHER -> "open"

Promise == INSTANCE PublishPromise WITH
    claim <- [ t \in Targets |-> ClaimOf(row[t]) ],
    posts <- live

(* Leases, attempts, messages, sweeps, searches and requests together are  *)
(* a way to post each target once, and to say published, accepted or       *)
(* cancelled only when it is so (execute-target.ts, reconcile.ts,          *)
(* posts.ts).  What they say of a target given up is in GiveUp.            *)
PromiseKept == Promise!Spec

-----------------------------------------------------------------------------
(* Progress.  Queue consumers, the cron and the clock keep running;        *)
(* customers and faults owe nothing.  An idle isolate is handed one of the *)
(* messages there are; which one, nobody promises.                         *)
Fairness ==
    /\ \A w \in Workers : /\ WF_vars(WorkerStep(w))
                          /\ WF_vars(\E m \in queue : Receive(w, m))
    /\ WF_vars(Cron) /\ WF_vars(Time)
    /\ WF_vars(ApiRecalculate \/ ApiSend)

FairSpec == Spec /\ Fairness

(* Where a target may rest: a terminal status, the two that wait for a     *)
(* person, or a retry budget that is spent.                                *)
AtRest(r) ==
    \/ r.status \in TerminalTargetStatus
    \/ r.status \in { "provider_processing",
                     "unknown_reconciliation_required" }
    \/ r.status = "retryable_failed" /\ r.attempts = MaxAttempts

(* Without a crash no target is left behind in scheduled, queued,          *)
(* publishing or between two attempts.                                     *)
EveryTargetComesToRest == <>[](\A t \in Targets : AtRest(row[t]))

(* The aggregate catches up with the targets once they stop moving.        *)
AggregateConverges == <>[](postStatus = Reduced)

=============================================================================
