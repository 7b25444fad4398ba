----------------------------- MODULE RateLimiter -----------------------------
(***************************************************************************)
(* The permits for one destination: how many posts may be on their way to  *)
(* a provider at a time, and how long after a refusal none may.            *)
(*                                                                         *)
(*   workers/publisher/src/rate-limiter.ts      the Durable Object         *)
(*   workers/publisher/src/execute-target.ts    steps 3 to 7, its client   *)
(*                                                                         *)
(* The object handles one request at a time, so each of its operations is  *)
(* one action.  A job is a target of the destination.  A clock is what it  *)
(* has left: Tick takes one unit off every clock, and one that reads 0 has *)
(* run out.  No caller reports a remaining budget, so the object's         *)
(* `remaining' and `resetAt' stay null and are left out.                   *)
(***************************************************************************)
EXTENDS Naturals, FiniteSets

CONSTANTS
    Job,            \* targets of the destination
    Permit,         \* uuids
    Max,            \* DEFAULT_MAX_CONCURRENCY
    Ttl,            \* PERMIT_TTL_MS
    Startup,        \* from the permit to the provider's budget, at most
    CallBudget,     \* PROVIDER_TIMEOUT_MS
    BusyDelay,      \* the wait after a denial for concurrency
    SweepDelay,     \* LEASE_SECONDS and the sweep that follows
    FirstCooldown,  \* the cooldown after a first 429 without Retry-After
    LongestCooldown,
    RetryDelays,    \* the backoff of a failed target, and Retry-After
    MaxAttempts,    \* max_attempts of a target
    MaxMishaps,     \* bound
    Faults          \* the kinds of mishap that may happen

(* throw:    the statement that opens the attempt throws, or the worker    *)
(*           dies at any step: the permit is not given back                *)
(* report:   the request that reports an outcome throws                    *)
(* slow:     a worker stands still for longer than its budgets             *)
FaultKinds == { "throw", "report", "slow" }

ASSUME NullAssumption == "null" \notin Permit
ASSUME ConcurrencyAssumption == Max \in Nat \ {0}
ASSUME ClockAssumption ==
    /\ {Ttl, Startup, CallBudget, BusyDelay, SweepDelay} \subseteq Nat
    /\ {FirstCooldown, LongestCooldown} \subseteq Nat
    /\ RetryDelays \subseteq Nat \ {0}
ASSUME TtlAssumption == Startup + CallBudget < Ttl
ASSUME BoundAssumption == MaxAttempts \in Nat /\ MaxMishaps \in Nat
ASSUME FaultAssumption == Faults \subseteq FaultKinds

VARIABLES
    ttl,            \* what each permit has left; 0 if it is not active
    cooldown,       \* cooldownUntil
    consecutive,    \* consecutive429
    step,           \* where the job's worker is
    timer,          \* the clock of that step
    permit,         \* permitId
    answer,         \* the outcome of the call
    wait,           \* retryAfter, of an answer "deferred"
    attempts,       \* attempt_count
    after,          \* what becomes of the target once the permit is back
    told,           \* the longest wait of a provider the limiter was told of,
                    \* since a success was last reported
    mishaps         \* bound

limiter == << ttl, cooldown, consecutive >>
client == << step, timer, permit, answer, wait, attempts, after >>
vars == << limiter, client, told, mishaps >>

Null == "null"
Step == { "queued", "granted", "calling", "answered", "releasing", "done" }
Later == { "done", "again", "swept" }

(* A 429 without and with Retry-After, and any other failure.              *)
Refusal == { "refused", "deferred" }
Outcome == Refusal \cup { "ok", "error" }

AtLeast(a, b) == IF a < b THEN b ELSE a
Less(n) == IF n = 0 THEN 0 ELSE n - 1

Init ==
    /\ ttl = [ p \in Permit |-> 0 ]
    /\ cooldown = 0 /\ consecutive = 0
    /\ step = [ j \in Job |-> "queued" ]
    /\ timer = [ j \in Job |-> 0 ]
    /\ permit = [ j \in Job |-> Null ]
    /\ answer = [ j \in Job |-> "none" ]
    /\ wait = [ j \in Job |-> 0 ]
    /\ attempts = [ j \in Job |-> 0 ]
    /\ after = [ j \in Job |-> "done" ]
    /\ told = 0 /\ mishaps = 0

Mishap(kind) ==
    kind \in Faults /\ mishaps < MaxMishaps /\ mishaps' = mishaps + 1

(* ----------------------------- the object ------------------------------ *)
(* A permit whose time has run out is pruned.                              *)
Active == { p \in Permit : ttl[p] > 0 }

Fresh == { p \in Permit : ttl[p] = 0 /\ \A j \in Job : permit[j] # p }

Leased(j) == step[j] = "queued" /\ timer[j] = 0 /\ attempts[j] < MaxAttempts

(* Mutant: the cap is checked against the permits before this one.         *)
GrantOneMore(j) ==
    /\ Leased(j) /\ cooldown = 0
    /\ Cardinality(Active) <= Max
    /\ Fresh # {}
    /\ LET p == CHOOSE p \in Fresh : TRUE IN
       /\ ttl' = [ ttl EXCEPT ![p] = Ttl ]
       /\ permit' = [ permit EXCEPT ![j] = p ]
    /\ step' = [ step EXCEPT ![j] = "granted" ]
    /\ timer' = [ timer EXCEPT ![j] = Startup ]
    /\ attempts' = [ attempts EXCEPT ![j] = @ + 1 ]
    /\ UNCHANGED << cooldown, consecutive, answer, wait, after, told,
                    mishaps >>

(* The target's lease was taken just before, and counts as an attempt.     *)
Grant(j) ==
    /\ Leased(j) /\ cooldown = 0
    /\ Cardinality(Active) < Max
    /\ Fresh # {}
    /\ LET p == CHOOSE p \in Fresh : TRUE IN
       /\ ttl' = [ ttl EXCEPT ![p] = Ttl ]
       /\ permit' = [ permit EXCEPT ![j] = p ]
    /\ step' = [ step EXCEPT ![j] = "granted" ]
    /\ timer' = [ timer EXCEPT ![j] = Startup ]
    /\ attempts' = [ attempts EXCEPT ![j] = @ + 1 ]
    /\ UNCHANGED << cooldown, consecutive, answer, wait, after, told,
                    mishaps >>

(* The lease and the attempt are given back, and the message is delayed.   *)
Deny(j) ==
    /\ Leased(j)
    /\ \/ cooldown > 0 /\ timer' = [ timer EXCEPT ![j] = cooldown ]
       \/ /\ cooldown = 0 /\ Cardinality(Active) >= Max
          /\ timer' = [ timer EXCEPT ![j] = BusyDelay ]
    /\ UNCHANGED << limiter, step, permit, answer, wait, attempts, after,
                    told, mishaps >>

Drop(p) == [ q \in Permit |-> IF q = p THEN 0 ELSE ttl[q] ]

Doubled(n) == FirstCooldown * 2 ^ (n - 1)
Fallback(n) ==
    IF Doubled(n) \in 0 .. LongestCooldown THEN Doubled(n) ELSE LongestCooldown

Asked(j) == IF answer[j] = "deferred" THEN wait[j] ELSE Fallback(consecutive + 1)

(* Mutant: the last 429 decides alone.                                     *)
HeardLastOnly(j) ==
    \/ /\ answer[j] \in Refusal /\ cooldown' = Asked(j)
       /\ consecutive' = consecutive + 1
    \/ answer[j] = "ok" /\ consecutive' = 0 /\ cooldown' = 0
    \/ answer[j] = "error" /\ UNCHANGED << cooldown, consecutive >>

Heard(j) ==
    \/ /\ answer[j] \in Refusal /\ cooldown' = AtLeast(cooldown, Asked(j))
       /\ consecutive' = consecutive + 1
    \/ answer[j] = "ok" /\ consecutive' = 0 /\ cooldown' = 0
    \/ answer[j] = "error" /\ UNCHANGED << cooldown, consecutive >>

(* ------------------------------ its client ----------------------------- *)
Call(j) ==
    /\ step[j] = "granted"
    /\ step' = [ step EXCEPT ![j] = "calling" ]
    /\ timer' = [ timer EXCEPT ![j] = CallBudget ]
    /\ UNCHANGED << limiter, permit, answer, wait, attempts, after, told,
                    mishaps >>

(* The provider answers, or the budget aborts the call.                    *)
Answer(j) ==
    /\ step[j] = "calling"
    /\ step' = [ step EXCEPT ![j] = "answered" ]
    /\ \E said \in Outcome :
         /\ answer' = [ answer EXCEPT ![j] = said ]
         /\ \E d \in IF said = "deferred" THEN RetryDelays ELSE {0} :
                wait' = [ wait EXCEPT ![j] = d ]
    /\ timer' = [ timer EXCEPT ![j] = 0 ]
    /\ UNCHANGED << limiter, permit, attempts, after, told, mishaps >>

(* What follows: published, retried, or decided in another way.            *)
Settle(j) ==
    \E s \in {"done", "again"} :
        /\ answer[j] = "ok" => s = "done"
        /\ answer[j] \in Refusal => s = "again"
        /\ after' = [ after EXCEPT ![j] = s ]

Report(j) ==
    /\ step[j] = "answered"
    /\ ttl' = Drop(permit[j])
    /\ Heard(j) /\ Settle(j)
    /\ told' = CASE answer[j] = "deferred" -> AtLeast(told, wait[j])
                 [] answer[j] = "ok" -> 0
                 [] OTHER -> told
    /\ step' = [ step EXCEPT ![j] = "releasing" ]
    /\ UNCHANGED << timer, permit, answer, wait, attempts, mishaps >>

(* After a success the catch block reports again, without a status; after  *)
(* a failure nothing catches it, and the row waits for the sweep.          *)
ReportThrows(j) ==
    /\ step[j] = "answered" /\ Mishap("report")
    /\ \/ /\ answer[j] = "ok"
          /\ answer' = [ answer EXCEPT ![j] = "error" ]
          /\ UNCHANGED << step, after >>
       \/ /\ answer[j] # "ok"
          /\ step' = [ step EXCEPT ![j] = "releasing" ]
          /\ after' = [ after EXCEPT ![j] = "swept" ]
          /\ UNCHANGED answer
    /\ UNCHANGED << limiter, timer, permit, wait, attempts, told >>

Requeue(j, delays) ==
    /\ step' = [ step EXCEPT ![j] = "queued" ]
    /\ \E d \in delays : timer' = [ timer EXCEPT ![j] = d ]

Backoff(j) == IF answer[j] = "deferred" THEN {AtLeast(wait[j], 1)} ELSE RetryDelays

Release(j) ==
    /\ step[j] = "releasing"
    /\ ttl' = Drop(permit[j])
    /\ permit' = [ permit EXCEPT ![j] = Null ]
    /\ answer' = [ answer EXCEPT ![j] = "none" ]
    /\ wait' = [ wait EXCEPT ![j] = 0 ]
    /\ \/ /\ after[j] = "done" /\ step' = [ step EXCEPT ![j] = "done" ]
          /\ UNCHANGED << timer, attempts >>
       \/ /\ after[j] = "again" /\ Requeue(j, Backoff(j))
          /\ UNCHANGED attempts
       \/ /\ after[j] = "swept" /\ Requeue(j, {SweepDelay})
          /\ attempts' = [ attempts EXCEPT ![j] = @ - 1 ]
    /\ after' = [ after EXCEPT ![j] = "done" ]
    /\ UNCHANGED << cooldown, consecutive, told, mishaps >>

(* Mutant: the permit outlives the exception, and so does the attempt, of  *)
(* which the sweep gives two back.                                         *)
ThrowTwice(j) ==
    /\ step[j] \notin {"queued", "done"} /\ Mishap("throw")
    /\ Requeue(j, {SweepDelay})
    /\ permit' = [ permit EXCEPT ![j] = Null ]
    /\ answer' = [ answer EXCEPT ![j] = "none" ]
    /\ wait' = [ wait EXCEPT ![j] = 0 ]
    /\ attempts' = [ attempts EXCEPT ![j] = @ - 2 ]
    /\ after' = [ after EXCEPT ![j] = "done" ]
    /\ UNCHANGED << limiter, told >>

(* The exception passes by the `finally' that releases.                    *)
Throw(j) ==
    /\ step[j] \notin {"queued", "done"} /\ Mishap("throw")
    /\ Requeue(j, {SweepDelay})
    /\ permit' = [ permit EXCEPT ![j] = Null ]
    /\ answer' = [ answer EXCEPT ![j] = "none" ]
    /\ wait' = [ wait EXCEPT ![j] = 0 ]
    /\ attempts' = [ attempts EXCEPT ![j] = @ - 1 ]
    /\ after' = [ after EXCEPT ![j] = "done" ]
    /\ UNCHANGED << limiter, told >>

Punctual ==
    "slow" \notin Faults =>
        \A j \in Job : step[j] \in {"granted", "calling"} => timer[j] > 0

(* Mutant: permits do not expire.                                          *)
TickKeepsPermits ==
    /\ Punctual
    /\ timer' = [ j \in Job |-> Less(timer[j]) ]
    /\ wait' = [ j \in Job |-> Less(wait[j]) ]
    /\ cooldown' = Less(cooldown) /\ told' = Less(told)
    /\ UNCHANGED << ttl, consecutive, step, permit, answer, attempts, after,
                    mishaps >>

(* Time passes, but no worker outlasts the budget of its step.             *)
Tick ==
    /\ Punctual
    /\ ttl' = [ p \in Permit |-> Less(ttl[p]) ]
    /\ timer' = [ j \in Job |-> Less(timer[j]) ]
    /\ wait' = [ j \in Job |-> Less(wait[j]) ]
    /\ cooldown' = Less(cooldown) /\ told' = Less(told)
    /\ UNCHANGED << consecutive, step, permit, answer, attempts, after, mishaps >>

Worker(j) ==
    \/ Grant(j) \/ Deny(j) \/ Call(j) \/ Answer(j) \/ Report(j) \/ Release(j)

Next ==
    \/ \E j \in Job : Worker(j) \/ Throw(j) \/ ReportThrows(j)
    \/ Tick

(* The queue delivers every message in the end, and time goes on.          *)
Spec == Init /\ [][Next]_vars /\ WF_vars(Tick) /\ \A j \in Job : WF_vars(Worker(j))

(* ------------------------------ properties ----------------------------- *)
TypeOK ==
    /\ ttl \in [ Permit -> 0 .. Ttl ]
    /\ cooldown \in Nat /\ consecutive \in Nat
    /\ step \in [ Job -> Step ]
    /\ timer \in [ Job -> Nat ] /\ wait \in [ Job -> Nat ]
    /\ permit \in [ Job -> Permit \cup {Null} ]
    /\ answer \in [ Job -> Outcome \cup {"none"} ]
    /\ attempts \in [ Job -> 0 .. MaxAttempts ]
    /\ after \in [ Job -> Later ]
    /\ told \in Nat
    /\ mishaps \in 0 .. MaxMishaps

InFlight == { j \in Job : step[j] = "calling" }

(* However permits leak, expire and are handed on, there are never more    *)
(* calls at the destination than the cap: no permit ends before its call.  *)
ConcurrencyCapped == Cardinality(InFlight) <= Max

(* While a wait that a provider asked for, and the limiter was told of,    *)
(* lasts, no permit is issued, whatever wait a later 429 of a concurrent   *)
(* call asks for.  Only a reported success ends it early, and this may be  *)
(* the success of a call that was under way when another was refused:      *)
(* rate-limiter.ts:193 takes every success for the end of the trouble.     *)
CooldownKept ==
    [][ \A j \in Job : step[j] = "queued" /\ step'[j] = "granted" =>
            told = 0 ]_vars

Exhausted(j) == step[j] = "queued" /\ attempts[j] = MaxAttempts

(* Every target gets its permit in the end, however many were leaked, and  *)
(* however often it was denied: a denial costs no attempt.                 *)
EveryJobGetsThrough == \A j \in Job : <>(step[j] = "done" \/ Exhausted(j))
=============================================================================
