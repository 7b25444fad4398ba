--------------------------- MODULE PublisherProofs ---------------------------
(***************************************************************************)
(* What holds of Publisher for every set of targets, isolates and lease    *)
(* ids, every retry budget and every combination of faults, the crash      *)
(* between a provider call and its record and the slow worker included:    *)
(* the types, the lease discipline, that every status step is one the      *)
(* domain knows, that no step leaves a terminal status, that a closed post *)
(* is settled, and that no post goes out before its time.                  *)
(***************************************************************************)
EXTENDS Publisher, TLAPS

-----------------------------------------------------------------------------
(* The operators the actions are built from.                               *)

(* Every column of a fresh worker has its type; AnyTarget exists because   *)
(* a post has targets.                                                     *)
LEMMA IdleIsWorking ==
    /\ AnyTarget \in Targets
    /\ Idle \in Working
    /\ Idle.step = "idle" /\ Idle.lease = NoLease /\ Idle.out = "none"
<1>1. AnyTarget \in Targets
  BY TargetsAssumption DEF AnyTarget
<1>2. QED
  BY <1>1, BoundsAssumption DEF Idle, Working, Step, MessageType, Outcome

(* The place after a step is again a place in a handler, and no handler    *)
(* returns to the steps before the provider call or the verdict.           *)
LEMMA AfterIsStep ==
    ASSUME NEW step \in Step, NEW out \in Outcome
    PROVE  /\ After(step, out) \in Step \ { "load", "attempt", "call",
                                            "search", "resolve" }
           /\ After(step, out) = "finish" => step = "mark" /\ Succeeded(out)
           /\ After(step, out) = "mark" => step = "finish"
BY DEF After, Step, Outcome, Succeeded

(* An outcome statement stores a status of the domain, never publishing    *)
(* and never a validation verdict.                                         *)
LEMMA StatusForIsStatus ==
    ASSUME NEW out \in Outcome
    PROVE  /\ StatusFor(out) \in TargetStatus
           /\ StatusFor(out) \notin { "publishing", "blocked_validation" }
BY DEF StatusFor, TargetStatus, Outcome

(* markTarget* and releaseTargetLease keep the row a row and always clear  *)
(* the lease.                                                              *)
LEMMA MarkedIsRow ==
    ASSUME NEW r \in Row, NEW out \in Outcome
    PROVE  /\ Marked(r, out) \in Row
           /\ Marked(r, out).status = StatusFor(out)
           /\ Marked(r, out).lease = NoLease
<1> DEFINE due == IF out \in { "processing", "retryable", "released" }
                  THEN FALSE ELSE TRUE
           attempts == IF out = "released" /\ r.attempts > 0
                       THEN r.attempts - 1 ELSE r.attempts
           simulated == IF out = "simulated" THEN TRUE
                        ELSE IF Succeeded(out) THEN FALSE ELSE r.simulated
<1>1. attempts \in 0 .. MaxAttempts
  BY BoundsAssumption DEF Row
<1>2. /\ StatusFor(out) \in TargetStatus
      /\ due \in BOOLEAN /\ simulated \in BOOLEAN
  BY StatusForIsStatus DEF Row
<1>3. Marked(r, out) =
        [ status |-> StatusFor(out), lease |-> NoLease, expired |-> FALSE,
          due |-> due, attempts |-> attempts, simulated |-> simulated ]
  BY DEF Marked
<1>4. QED
  <2> HIDE DEF due, attempts, simulated
  <2>1. QED
    BY <1>1, <1>2, <1>3 DEF Row

(* What the senders build is a message.                                    *)
LEMMA MessageIsMessage ==
    ASSUME NEW type \in MessageType, NEW t \in Targets
    PROVE  Message(type, t) \in Messages /\ Delayed(type, t) \in Messages
BY DEF Message, Delayed, Messages

(* The reducer returns a status a post may have.                           *)
LEMMA ReducedIsPostStatus == Reduced \in PostStatus
BY DEF Reduced, ReducePostStatus, ReduceLive, PostStatus

-----------------------------------------------------------------------------
(* The inductive invariant.                                                *)

(* What a handler must still carry: an attempt number until the attempt    *)
(* row is written, a verdict when it resolves, and a real lease id as long *)
(* as it may use it in a WHERE clause - to the end, if it succeeded,       *)
(* because the catch block marks the row again.                            *)
Shaped(state) ==
    /\ state.step \in { "load", "attempt" } => state.number # 0
    /\ state.step = "resolve" =>
         state.out \in { "found", "absent", "indeterminate" }
    /\ \/ state.step \in { "load", "attempt", "call", "mark", "finish" }
       \/ Succeeded(state.out)
       => state.lease # NoLease

WorkersInv ==
    /\ worker \in [Workers -> Working]
    /\ \A w \in Workers : Shaped(worker[w])
    /\ LeasesDistinct

(* No statement of the engine stores a validation verdict, the one         *)
(* terminal status that a cancel may still overwrite.                      *)
RowsInv ==
    /\ row \in [Targets -> Row]
    /\ LeaseIffPublishing
    /\ \A t \in Targets : row[t].status # "blocked_validation"

RestInv ==
    /\ history \in [Targets -> SUBSET (1 .. MaxAttempts)]
    /\ metered \subseteq Targets
    /\ postStatus \in PostStatus
    /\ publishAt \in { "none", "future", "past" }
    /\ queue \subseteq Messages
    /\ api \in [ step : { "idle", "recalc", "send" },
                 batch : SUBSET Targets ]
    /\ calls \in [Targets -> Nat]
    /\ live \in [Targets -> Nat]
    /\ mishaps \in 0 .. MaxMishaps
    /\ retries \in 0 .. MaxRetries

IInv == RowsInv /\ WorkersInv /\ RestInv

(* The invariant is the two properties it was made for, and more.          *)
LEMMA IInvImplies == IInv => TypeOK /\ LeaseDiscipline
BY DEF IInv, RowsInv, WorkersInv, RestInv, TypeOK, LeaseDiscipline, Messages

(* Replacing one worker's state by one that drops its lease or keeps it.   *)
LEMMA WorkerUpdate ==
    ASSUME WorkersInv, NEW w \in Workers, NEW state \in Working,
           worker' = [worker EXCEPT ![w] = state],
           Shaped(state),
           state.lease \in { worker[w].lease, NoLease }
    PROVE  WorkersInv'
<1>1. worker' \in [Workers -> Working]
  BY DEF WorkersInv
<1>2. /\ worker'[w] = state
      /\ \A v \in Workers : v # w => worker'[v] = worker[v]
  BY DEF WorkersInv
<1>3. \A v \in Workers : Shaped(worker'[v])
  BY <1>2 DEF WorkersInv
<1>4. LeasesDistinct'
  BY <1>2 DEF WorkersInv, LeasesDistinct
<1>5. QED
  BY <1>1, <1>3, <1>4 DEF WorkersInv, Shaped

(* Replacing one row by one that is leased exactly while publishing.       *)
LEMMA RowUpdate ==
    ASSUME RowsInv, NEW t \in Targets, NEW r \in Row,
           row' = [row EXCEPT ![t] = r],
           r.status = "publishing" <=> r.lease # NoLease,
           r.status # "blocked_validation"
    PROVE  RowsInv'
BY DEF RowsInv, LeaseIffPublishing

(* WithOutcome keeps the locals and goes to a step that needs the lease.   *)
LEMMA WithOutcomeWorking ==
    ASSUME NEW state \in Working, NEW out \in Outcome,
           state.lease # NoLease
    PROVE  /\ WithOutcome(state, out) \in Working
           /\ Shaped(WithOutcome(state, out))
           /\ WithOutcome(state, out).lease = state.lease
<1> DEFINE step == IF state.opened /\ ~ Succeeded(out) THEN "finish" ELSE "mark"
           result == [state EXCEPT !.out = out, !.number = 0, !.step = step]
<1>1. step \in { "mark", "finish" } /\ step \in Step
  BY DEF Step
<1>2. WithOutcome(state, out) = result
  BY Zenon DEF WithOutcome
<1> HIDE DEF step
<1>3. result \in Working
  <2>1. 0 \in 0 .. MaxAttempts
    BY BoundsAssumption
  <2>2. QED
    BY <1>1, <2>1 DEF Working
<1>4. result.step = step /\ result.lease = state.lease
  BY DEF Working
<1>5. Shaped(result)
  BY <1>1, <1>4 DEF Shaped
<1>6. QED
  BY <1>2, <1>3, <1>4, <1>5

(* Advance keeps the workers' part of the invariant.                       *)
LEMMA AdvanceWorking ==
    ASSUME WorkersInv, NEW w \in Workers, Advance(w)
    PROVE  WorkersInv'
<1> DEFINE state == worker[w]
           next == After(state.step, state.out)
           moved == [state EXCEPT !.step = next]
           forgot == [Idle EXCEPT !.step = next, !.target = state.target,
                                  !.out = state.out, !.batch = state.batch]
<1>1. state \in Working /\ Shaped(state)
  BY DEF WorkersInv
<1>2. state.step \in Step /\ state.out \in Outcome
  BY <1>1 DEF Working
<1>3. /\ next \in Step \ { "load", "attempt", "call", "search", "resolve" }
      /\ next = "finish" => state.step = "mark" /\ Succeeded(state.out)
      /\ next = "mark" => state.step = "finish"
  BY <1>2, AfterIsStep
<1> HIDE DEF state, next
<1>4. CASE next = "idle"
  <2>1. worker' = [worker EXCEPT ![w] = Idle]
    BY <1>4 DEF Advance, state, next
  <2>2. Shaped(Idle)
    BY IdleIsWorking DEF Shaped, Succeeded
  <2>3. QED
    BY <2>1, <2>2, IdleIsWorking, WorkerUpdate
<1>5. CASE next # "idle" /\ state.step = "mark" /\ ~ Succeeded(state.out)
  <2>1. worker' = [worker EXCEPT ![w] = forgot]
    BY <1>5 DEF Advance, state, next
  <2>2. forgot \in Working
    BY <1>1, <1>3, IdleIsWorking DEF Working
  <2>3. /\ forgot.step = next /\ forgot.out = state.out
        /\ forgot.lease = NoLease
    BY IdleIsWorking DEF Idle
  <2>4. Shaped(forgot)
    BY <1>3, <1>5, <2>3 DEF Shaped
  <2>5. QED
    BY <2>1, <2>2, <2>3, <2>4, WorkerUpdate
<1>6. CASE next # "idle" /\ ~ (state.step = "mark" /\ ~ Succeeded(state.out))
  <2>1. worker' = [worker EXCEPT ![w] = moved]
    BY <1>6 DEF Advance, state, next
  <2>2. moved \in Working
    BY <1>1, <1>3 DEF Working
  <2>3. /\ moved.step = next /\ moved.out = state.out
        /\ moved.lease = state.lease
    BY <1>1 DEF Working
  <2>4. Shaped(moved)
    BY <1>1, <1>3, <1>6, <2>3 DEF Shaped
  <2>5. QED
    BY <2>1, <2>2, <2>3, <2>4, WorkerUpdate DEF state
<1>7. QED
  BY <1>4, <1>5, <1>6

-----------------------------------------------------------------------------
(* The initial states.                                                     *)
LEMMA InitEstablishesIInv == Init => IInv
<1> SUFFICES ASSUME Init PROVE IInv
  OBVIOUS
<1>1. RowsInv
  <2>1. NewRow("queued") \in Row /\ NewRow("scheduled") \in Row
    BY BoundsAssumption DEF NewRow, Row, TargetStatus
  <2>2. PICK status \in { "queued", "scheduled" } :
            row = [ t \in Targets |-> NewRow(status) ]
    BY DEF Init
  <2>3. \A t \in Targets : row[t].status = status /\ row[t].lease = NoLease
    BY <2>2 DEF NewRow
  <2>4. row \in [Targets -> Row]
    BY <2>1, <2>2
  <2>5. QED
    BY <2>3, <2>4 DEF RowsInv, LeaseIffPublishing
<1>2. WorkersInv
  <2>1. Shaped(Idle)
    BY IdleIsWorking DEF Shaped, Succeeded
  <2>2. QED
    BY <2>1, IdleIsWorking DEF Init, WorkersInv, LeasesDistinct
<1>3. RestInv
  BY BoundsAssumption DEF Init, RestInv, PostStatus
<1>4. QED
  BY <1>1, <1>2, <1>3 DEF IInv

-----------------------------------------------------------------------------
(* The steps of a handler.                                                 *)

(* Workers alone change, to an outcome: the shape of most of LoadContext,  *)
(* PrepareFails, CallProvider and CatchError.                              *)
LEMMA OutcomeKeepsWorkers ==
    ASSUME WorkersInv, NEW w \in Workers, NEW out \in Outcome,
           worker[w].lease # NoLease,
           worker' = [worker EXCEPT ![w] = WithOutcome(@, out)]
    PROVE  WorkersInv'
<1>1. worker[w] \in Working
  BY DEF WorkersInv
<1>2. worker' = [worker EXCEPT ![w] = WithOutcome(worker[w], out)]
  BY DEF WorkersInv
<1>3. QED
  BY <1>1, <1>2, WithOutcomeWorking, WorkerUpdate

LEMMA LoadContextStep ==
    ASSUME IInv, NEW w \in Workers, LoadContext(w)
    PROVE  IInv'
<1>1. worker[w].lease # NoLease /\ worker[w].number # 0
  BY DEF LoadContext, IInv, WorkersInv, Shaped, At
<1>2. WorkersInv'
  <2>1. CASE \E out \in { "permanent", "retryable", "unknown", "released" } :
               worker' = [worker EXCEPT ![w] = WithOutcome(@, out)]
    BY <1>1, <2>1, OutcomeKeepsWorkers DEF IInv, Outcome
  <2>2. ASSUME NEW out \in { "simulated", "none" },
               worker' = [worker EXCEPT ![w] =
                            [@ EXCEPT !.out = out, !.step = "attempt"]]
        PROVE  WorkersInv'
    <3> DEFINE state == [worker[w] EXCEPT !.out = out, !.step = "attempt"]
    <3>1. worker[w] \in Working
      BY DEF IInv, WorkersInv
    <3>2. /\ state \in Working
          /\ state.step = "attempt" /\ state.lease = worker[w].lease
          /\ state.number = worker[w].number
      BY <3>1 DEF Working, Outcome, Step
    <3>3. Shaped(state)
      BY <1>1, <3>2 DEF Shaped
    <3>4. worker' = [worker EXCEPT ![w] = state]
      BY <2>2 DEF IInv, WorkersInv
    <3>5. QED
      BY <3>2, <3>3, <3>4, WorkerUpdate DEF IInv
  <2>3. QED
    BY <2>1, <2>2 DEF LoadContext, BlockedAs
<1>3. RestInv'
  BY BoundsAssumption DEF LoadContext, BlockedAs, IInv, RestInv, database, provider
<1>4. RowsInv'
  BY DEF LoadContext, IInv, RowsInv, LeaseIffPublishing, database
<1>5. QED
  BY <1>2, <1>3, <1>4 DEF IInv

LEMMA StartAttemptStep ==
    ASSUME IInv, NEW w \in Workers, StartAttempt(w)
    PROVE  IInv'
<1> DEFINE step == IF worker[w].out = "simulated" THEN "mark" ELSE "call"
           state == [worker[w] EXCEPT !.opened = TRUE, !.number = 0,
                                      !.step = step]
<1>1. /\ worker[w] \in Working
      /\ worker[w].lease # NoLease /\ worker[w].number # 0
  BY DEF StartAttempt, IInv, WorkersInv, Shaped, At
<1>2. step \in { "mark", "call" } /\ step \in Step
  BY DEF Step
<1>3. worker' = [worker EXCEPT ![w] = state]
  BY DEF StartAttempt, IInv, WorkersInv
<1> HIDE DEF step
<1>4. state \in Working
  <2>1. 0 \in 0 .. MaxAttempts
    BY BoundsAssumption
  <2>2. QED
    BY <1>1, <1>2, <2>1 DEF Working
<1>5. state.step = step /\ state.lease = worker[w].lease
  BY <1>1 DEF Working
<1>6. WorkersInv'
  BY <1>1, <1>2, <1>3, <1>4, <1>5, WorkerUpdate DEF IInv, Shaped
<1>7. RestInv'
  <2>1. Target(w) \in Targets /\ worker[w].number \in 1 .. MaxAttempts
    BY <1>1, BoundsAssumption DEF Working, Target
  <2>2. history' \in [Targets -> SUBSET (1 .. MaxAttempts)]
    BY <2>1 DEF StartAttempt, IInv, RestInv
  <2>3. QED
    BY <2>2 DEF StartAttempt, IInv, RestInv, provider
<1>8. RowsInv'
  BY DEF StartAttempt, IInv, RowsInv, LeaseIffPublishing
<1>9. QED
  BY <1>6, <1>7, <1>8 DEF IInv

LEMMA PrepareFailsStep ==
    ASSUME IInv, NEW w \in Workers, PrepareFails(w)
    PROVE  IInv'
<1>1. worker[w].lease # NoLease
  BY DEF PrepareFails, IInv, WorkersInv, Shaped, At
<1>2. WorkersInv'
  BY <1>1, OutcomeKeepsWorkers DEF PrepareFails, IInv, Outcome
<1>3. RestInv'
  BY DEF PrepareFails, IInv, RestInv, database, provider
<1>4. RowsInv'
  BY DEF PrepareFails, IInv, RowsInv, LeaseIffPublishing, database
<1>5. QED
  BY <1>2, <1>3, <1>4 DEF IInv

LEMMA CallProviderStep ==
    ASSUME IInv, NEW w \in Workers, CallProvider(w)
    PROVE  IInv'
<1> DEFINE asking == [worker[w] EXCEPT !.asked = TRUE]
<1>1. worker[w] \in Working /\ worker[w].lease # NoLease
  BY DEF CallProvider, IInv, WorkersInv, Shaped, At
<1>2. asking \in Working /\ asking.lease = worker[w].lease
  BY <1>1 DEF Working
<1>3. PICK out \in TakenAs \cup RefusedAs :
        worker' = [worker EXCEPT ![w] =
                     WithOutcome([@ EXCEPT !.asked = TRUE], out)]
  BY DEF CallProvider
<1>4. out \in Outcome
  BY DEF TakenAs, RefusedAs, Outcome
<1>5. worker' = [worker EXCEPT ![w] = WithOutcome(asking, out)]
  BY <1>3 DEF IInv, WorkersInv
<1>6. WorkersInv'
  <2> HIDE DEF asking
  <2>1. QED
    BY <1>1, <1>2, <1>4, <1>5, WithOutcomeWorking, WorkerUpdate DEF IInv
<1>7. RestInv'
  <2>1. Target(w) \in Targets
    BY <1>1 DEF Target, Working
  <2>2. calls' \in [Targets -> Nat]
    BY <2>1 DEF CallProvider, IInv, RestInv
  <2>3. live' \in [Targets -> Nat]
    BY <2>1 DEF CallProvider, IInv, RestInv
  <2>4. QED
    BY <2>2, <2>3 DEF CallProvider, IInv, RestInv, database
<1>8. RowsInv'
  BY DEF CallProvider, IInv, RowsInv, LeaseIffPublishing, database
<1>9. QED
  BY <1>6, <1>7, <1>8 DEF IInv

LEMMA MarkStep ==
    ASSUME IInv, NEW w \in Workers, Mark(w)
    PROVE  IInv'
<1>1. WorkersInv'
  BY AdvanceWorking DEF Mark, IInv
<1>2. Target(w) \in Targets /\ worker[w].out \in Outcome
  BY DEF IInv, WorkersInv, Target, Working
<1>3. RowsInv'
  <2>1. CASE HoldsLease(w)
    <3> DEFINE r == Marked(row[Target(w)], worker[w].out)
    <3>1. row[Target(w)] \in Row
      BY <1>2 DEF IInv, RowsInv
    <3>2. /\ r \in Row /\ r.lease = NoLease
          /\ r.status \notin { "publishing", "blocked_validation" }
      BY <1>2, <3>1, MarkedIsRow, StatusForIsStatus
    <3>3. row' = [row EXCEPT ![Target(w)] = r]
      BY <2>1, <1>2 DEF Mark, IInv, RowsInv
    <3> HIDE DEF r
    <3>4. QED
      BY <1>2, <3>2, <3>3, RowUpdate DEF IInv
  <2>2. CASE ~ HoldsLease(w)
    BY <2>2 DEF Mark, IInv, RowsInv, LeaseIffPublishing
  <2>3. QED
    BY <2>1, <2>2
<1>4. RestInv'
  BY DEF Mark, IInv, RestInv, provider
<1>5. QED
  BY <1>1, <1>3, <1>4 DEF IInv

(* The awaits after the outcome: only Send and Meter reach outside.        *)
LEMMA TailStep ==
    ASSUME IInv, NEW w \in Workers,
           Finish(w) \/ Meter(w) \/ Send(w) \/ Recalculate(w)
    PROVE  IInv'
<1>1. WorkersInv'
  BY AdvanceWorking DEF Finish, Meter, Send, Recalculate, IInv
<1>2. RowsInv'
  BY DEF Finish, Meter, Send, Recalculate, IInv, RowsInv,
         LeaseIffPublishing, database
<1>3. /\ worker[w].target \in Targets /\ worker[w].job \in MessageType
      /\ worker[w].batch \subseteq Targets
  BY DEF IInv, WorkersInv, Working
<1>4. ASSUME Finish(w) PROVE RestInv'
  BY <1>4 DEF Finish, IInv, RestInv, database, provider
<1>5. ASSUME Meter(w) PROVE RestInv'
  BY <1>3, <1>5 DEF Meter, Target, IInv, RestInv, provider
<1>6. ASSUME Send(w) PROVE RestInv'
  <2>1. Outbox(w) \subseteq Messages
    <3>1. /\ Target(w) \in Targets
          /\ "target" \in MessageType /\ "poll_status" \in MessageType
          /\ "reconcile" \in MessageType
      BY <1>3 DEF Target, MessageType
    <3>2. QED
      BY <1>3, <3>1, MessageIsMessage DEF Outbox
  <2>2. QED
    BY <1>6, <2>1 DEF Send, IInv, RestInv, database, provider
<1>7. ASSUME Recalculate(w) PROVE RestInv'
  BY <1>7, ReducedIsPostStatus DEF Recalculate, IInv, RestInv, provider
<1>8. RestInv'
  BY <1>4, <1>5, <1>6, <1>7 DEF IInv
<1>9. QED
  BY <1>1, <1>2, <1>8 DEF IInv

LEMMA FaultStep ==
    ASSUME IInv, NEW w \in Workers, Fault(w)
    PROVE  IInv'
<1>1. RowsInv'
  BY DEF Fault, CatchError, Abort, IInv, RowsInv, LeaseIffPublishing,
         database
<1>2. WorkersInv'
  <2>1. CASE CatchError(w)
    <3>1. worker[w].lease # NoLease
      BY <2>1 DEF CatchError, IInv, WorkersInv, Shaped, Succeeded
    <3>2. QED
      BY <2>1, <3>1, OutcomeKeepsWorkers DEF CatchError, IInv, Outcome
  <2>2. CASE Abort(w)
    <3>1. Shaped(Idle)
      BY IdleIsWorking DEF Shaped, Succeeded
    <3>2. QED
      BY <2>2, <3>1, IdleIsWorking, WorkerUpdate DEF Abort, IInv
  <2>3. QED
    BY <2>1, <2>2 DEF Fault
<1>3. RestInv'
  <2>1. Message(Job(w), Target(w)) \in Messages
    BY DEF IInv, WorkersInv, Working, Message, Messages, Job, Target
  <2>2. QED
    BY <2>1, BoundsAssumption
       DEF Fault, CatchError, Abort, Mishap, IInv, RestInv, database, provider
<1>4. QED
  BY <1>1, <1>2, <1>3 DEF IInv

-----------------------------------------------------------------------------
(* Delivery of a message.                                                  *)

LEMMA LeaseTargetStep ==
    ASSUME IInv, NEW w \in Workers, NEW m \in queue, LeaseTarget(w, m)
    PROVE  IInv'
<1> DEFINE t == m.target
<1>1. t \in Targets /\ row[t] \in Row
  BY DEF IInv, RestInv, RowsInv, Messages
<1>2. PICK lease \in Leases \ LeasesInUse :
        /\ row' = [row EXCEPT ![t] = Leased(@, lease)]
        /\ worker' = [worker EXCEPT ![w] =
                        [Idle EXCEPT !.step = "load", !.target = t,
                                     !.lease = lease,
                                     !.number = row[t].attempts + 1,
                                     !.batch = {t}]]
  BY DEF LeaseTarget
<1>3. lease # NoLease
  BY LeasesAssumption
<1>4. row[t].attempts + 1 \in 1 .. MaxAttempts
  <2>1. row[t].attempts < MaxAttempts
    BY DEF LeaseTarget, CanLease
  <2>2. row[t].attempts \in 0 .. MaxAttempts
    BY <1>1 DEF Row
  <2>3. QED
    BY <2>1, <2>2, BoundsAssumption
<1> DEFINE number == row[t].attempts + 1
           r == Leased(row[t], lease)
           state == [Idle EXCEPT !.step = "load", !.target = t,
                                 !.lease = lease, !.number = number,
                                 !.batch = {t}]
<1>5. number \in 0 .. MaxAttempts /\ number # 0
  BY <1>4
<1>6. row' = [row EXCEPT ![t] = r] /\ worker' = [worker EXCEPT ![w] = state]
  <2>1. row \in [Targets -> Row]
    BY DEF IInv, RowsInv
  <2>2. row' = [row EXCEPT ![t] = r]
    BY <1>1, <1>2, <2>1
  <2>3. worker' = [worker EXCEPT ![w] = state]
    BY <1>2
  <2>4. QED
    BY <2>2, <2>3
<1> HIDE DEF number, t
<1>7. RowsInv'
  <2>1. r \in Row
    BY <1>1, <1>5 DEF Leased, number, Row, TargetStatus
  <2>2. r.status = "publishing" /\ r.lease = lease
    BY <1>1 DEF Leased, Row
  <2> HIDE DEF r
  <2>3. QED
    BY <1>1, <1>3, <1>6, <2>1, <2>2, RowUpdate DEF IInv
<1>8. WorkersInv'
  <2>1. state \in Working
    BY <1>1, <1>5, IdleIsWorking DEF Working, Step
  <2>2. /\ state.step = "load" /\ state.number = number
        /\ state.lease = lease
    BY IdleIsWorking DEF Working
  <2> HIDE DEF state
  <2>3. /\ worker'[w] = state
        /\ \A v \in Workers : v # w => worker'[v] = worker[v]
    BY <1>6 DEF IInv, WorkersInv
  <2>4. \A v \in Workers : worker[v].lease # lease
    BY <1>2 DEF LeasesInUse
  <2>5. LeasesDistinct'
    BY <2>2, <2>3, <2>4 DEF IInv, WorkersInv, LeasesDistinct
  <2>6. \A v \in Workers : Shaped(worker'[v])
    BY <1>3, <1>5, <2>2, <2>3 DEF IInv, WorkersInv, Shaped
  <2>7. worker' \in [Workers -> Working]
    BY <1>6, <2>1 DEF IInv, WorkersInv
  <2>8. QED
    BY <2>5, <2>6, <2>7 DEF WorkersInv, Shaped
<1>9. RestInv'
  BY DEF LeaseTarget, Remaining, IInv, RestInv, provider
<1>10. QED
  BY <1>7, <1>8, <1>9 DEF IInv

(* Messages that change nothing but the queue.                             *)
LEMMA QuietReceive ==
    ASSUME IInv, NEW w \in Workers, NEW m \in queue,
           LeaseRefused(w, m) \/ Poll(w, m)
    PROVE  IInv'
<1>1. queue' \subseteq Messages
  BY DEF LeaseRefused, Poll, Remaining, IInv, RestInv
<1>2. QED
  BY <1>1 DEF LeaseRefused, Poll, IInv, RowsInv, WorkersInv, RestInv,
              LeaseIffPublishing, LeasesDistinct, Shaped, database, provider

LEMMA ReconcileStep ==
    ASSUME IInv, NEW w \in Workers, NEW m \in queue, Reconcile(w, m)
    PROVE  IInv'
<1> DEFINE state == [Idle EXCEPT !.step = "search", !.job = "reconcile",
                                 !.target = m.target, !.batch = {m.target}]
<1>1. m.target \in Targets
  BY DEF IInv, RestInv, Messages
<1>2. /\ state \in Working /\ state.step = "search"
      /\ state.lease = NoLease /\ state.out = "none"
  BY <1>1, IdleIsWorking DEF Working, Step, MessageType, Idle
<1>3. Shaped(state)
  BY <1>2 DEF Shaped, Succeeded
<1> HIDE DEF state
<1>4. WorkersInv'
  <2>1. CASE worker' = [worker EXCEPT ![w] = state]
    BY <1>2, <1>3, <2>1, WorkerUpdate DEF IInv
  <2>2. CASE UNCHANGED worker
    BY <2>2 DEF IInv, WorkersInv, LeasesDistinct, Shaped
  <2>3. QED
    BY <2>1, <2>2 DEF Reconcile, state
<1>5. RestInv'
  BY DEF Reconcile, Remaining, IInv, RestInv, database, provider
<1>6. RowsInv'
  BY DEF Reconcile, IInv, RowsInv, LeaseIffPublishing, database
<1>7. QED
  BY <1>4, <1>5, <1>6 DEF IInv

LEMMA SearchStep ==
    ASSUME IInv, NEW w \in Workers, Search(w)
    PROVE  IInv'
<1>1. PICK out \in { "indeterminate", "found", "absent" } :
        worker' = [worker EXCEPT ![w] =
                     [@ EXCEPT !.out = out, !.step = "resolve"]]
  BY DEF Search
<1> DEFINE state == [worker[w] EXCEPT !.out = out, !.step = "resolve"]
<1>2. worker[w] \in Working
  BY DEF IInv, WorkersInv
<1>3. /\ state \in Working /\ state.step = "resolve" /\ state.out = out
      /\ state.lease = worker[w].lease
  BY <1>2 DEF Working, Step, Outcome
<1>4. Shaped(state)
  BY <1>3 DEF Shaped, Succeeded
<1>5. worker' = [worker EXCEPT ![w] = state]
  BY <1>1 DEF IInv, WorkersInv
<1> HIDE DEF state
<1>6. WorkersInv'
  BY <1>3, <1>4, <1>5, WorkerUpdate DEF IInv
<1>7. RestInv' /\ RowsInv'
  BY DEF Search, IInv, RestInv, RowsInv, LeaseIffPublishing, database,
         provider
<1>8. QED
  BY <1>6, <1>7 DEF IInv

LEMMA ResolveStep ==
    ASSUME IInv, NEW w \in Workers, Resolve(w)
    PROVE  IInv'
<1> DEFINE t == Target(w)
           status == StatusFor(worker[w].out)
           r == [row[t] EXCEPT !.status = status, !.lease = NoLease,
                               !.expired = FALSE, !.due = TRUE]
<1>1. t \in Targets /\ worker[w].out \in Outcome
  BY DEF IInv, WorkersInv, Working, Target
<1>2. WorkersInv'
  BY AdvanceWorking DEF Resolve, IInv
<1>3. RowsInv'
  <2>1. row' = row \/ row' = [row EXCEPT ![t] = r]
    BY <1>1 DEF Resolve, IInv, RowsInv
  <2>2. /\ status \in TargetStatus
        /\ status \notin { "publishing", "blocked_validation" }
    BY <1>1, StatusForIsStatus
  <2> HIDE DEF status, t
  <2>3. r \in Row /\ r.status = status /\ r.lease = NoLease
    BY <1>1, <2>2 DEF IInv, RowsInv, Row
  <2> HIDE DEF r
  <2>4. CASE row' = [row EXCEPT ![t] = r]
    BY <1>1, <2>2, <2>3, <2>4, RowUpdate DEF IInv
  <2>5. CASE row' = row
    BY <2>5 DEF IInv, RowsInv, LeaseIffPublishing
  <2>6. QED
    BY <2>1, <2>4, <2>5
<1>4. RestInv'
  BY DEF Resolve, IInv, RestInv, provider
<1>5. QED
  BY <1>2, <1>3, <1>4 DEF IInv

(* FanOut, Cancel and Retry rewrite the rows of a set of targets at once.  *)
LEMMA RowsUpdate ==
    ASSUME RowsInv, row' \in [Targets -> Row],
           \A t \in Targets :
               \/ row'[t] = row[t]
               \/ /\ row'[t].status \notin { "publishing",
                                            "blocked_validation" }
                  /\ row'[t].lease = NoLease
    PROVE  RowsInv'
BY DEF RowsInv, LeaseIffPublishing

LEMMA FanOutStep ==
    ASSUME IInv, NEW w \in Workers, NEW m \in queue, FanOut(w, m)
    PROVE  IInv'
<1> DEFINE claimed == { t \in Targets :
                          row[t].status \in { "pending", "scheduled",
                                              "awaiting_approval" } }
           moved(t) == [row[t] EXCEPT !.status = "queued", !.due = TRUE]
           step == IF claimed = {} THEN "recalc" ELSE "send"
           state == [Idle EXCEPT !.step = step, !.job = "scheduled_post",
                                 !.out = "fanned_out", !.batch = claimed]
<1>1. \A t \in Targets :
        /\ moved(t) \in Row
        /\ moved(t).status = "queued" /\ moved(t).lease = row[t].lease
  BY DEF IInv, RowsInv, Row, TargetStatus
<1>2. \A t \in claimed : row[t].lease = NoLease
  BY DEF IInv, RowsInv, LeaseIffPublishing
<1>3. row' = [ t \in Targets |-> IF t \in claimed THEN moved(t) ELSE row[t] ]
  BY DEF FanOut
<1>4. claimed \subseteq Targets
  OBVIOUS
<1>5. worker' = [worker EXCEPT ![w] = state]
  BY DEF FanOut
<1>6. step \in { "recalc", "send" }
  OBVIOUS
<1> HIDE DEF moved, claimed, step
<1>7. RowsInv'
  <2>1. row' \in [Targets -> Row]
    BY <1>1, <1>3 DEF IInv, RowsInv
  <2>2. QED
    BY <1>1, <1>2, <1>3, <2>1, RowsUpdate DEF IInv
<1>8. WorkersInv'
  <2>1. state \in Working
    BY <1>4, <1>6, IdleIsWorking DEF Working, Step, MessageType, Outcome
  <2>2. /\ state.step = step /\ state.out = "fanned_out"
        /\ state.lease = NoLease
    BY DEF Idle
  <2>3. Shaped(state)
    BY <1>6, <2>2 DEF Shaped, Succeeded
  <2> HIDE DEF state
  <2>4. QED
    BY <1>5, <2>1, <2>2, <2>3, WorkerUpdate DEF IInv
<1>9. RestInv'
  BY DEF FanOut, Remaining, IInv, RestInv, provider
<1>10. QED
  BY <1>7, <1>8, <1>9 DEF IInv

-----------------------------------------------------------------------------
(* Requests, the cron and the clock: no worker moves.                      *)

LEMMA WorkersUnchanged ==
    ASSUME WorkersInv, UNCHANGED worker
    PROVE  WorkersInv'
BY DEF WorkersInv, LeasesDistinct, Shaped

LEMMA CancelStep ==
    ASSUME IInv, Cancel
    PROVE  IInv'
<1> DEFINE gone(t) == [row[t] EXCEPT !.status = "cancelled",
                                     !.lease = NoLease, !.expired = FALSE,
                                     !.due = TRUE]
<1>1. \A t \in Targets :
        /\ gone(t) \in Row
        /\ gone(t).status = "cancelled" /\ gone(t).lease = NoLease
  BY DEF IInv, RowsInv, Row, TargetStatus
<1>2. row' = [ t \in Targets |-> IF row[t].status \in Cancellable
                                THEN gone(t) ELSE row[t] ]
  BY DEF Cancel
<1> HIDE DEF gone
<1>3. row' \in [Targets -> Row]
  BY <1>1, <1>2 DEF IInv, RowsInv
<1>4. RowsInv'
  BY <1>1, <1>2, <1>3, RowsUpdate DEF IInv
<1>5. RestInv'
  BY DEF Cancel, IInv, RestInv, provider
<1>6. QED
  BY <1>4, <1>5, WorkersUnchanged DEF Cancel, IInv

LEMMA RetryStep ==
    ASSUME IInv, Retry
    PROVE  IInv'
<1> DEFINE again(t) == [row[t] EXCEPT !.status = "queued",
                                      !.lease = NoLease, !.expired = FALSE,
                                      !.due = TRUE, !.attempts = 0]
<1>1. 0 \in 0 .. MaxAttempts
  BY BoundsAssumption
<1>2. \A t \in Targets :
        /\ again(t) \in Row
        /\ again(t).status = "queued" /\ again(t).lease = NoLease
  BY <1>1 DEF IInv, RowsInv, Row, TargetStatus
<1>3. PICK batch \in SUBSET Targets :
        /\ row' = [ t \in Targets |-> IF t \in batch THEN again(t)
                                     ELSE row[t] ]
        /\ api' = [ step |-> "recalc", batch |-> batch ]
  BY DEF Retry
<1> HIDE DEF again
<1>4. row' \in [Targets -> Row]
  BY <1>2, <1>3 DEF IInv, RowsInv
<1>5. RowsInv'
  BY <1>2, <1>3, <1>4, RowsUpdate DEF IInv
<1>6. retries' \in 0 .. MaxRetries
  <2>1. /\ retries \in 0 .. MaxRetries /\ retries < MaxRetries
        /\ retries' = retries + 1
    BY DEF Retry, IInv, RestInv
  <2>2. QED
    BY <2>1, BoundsAssumption
<1>7. RestInv'
  BY <1>3, <1>6 DEF Retry, IInv, RestInv, provider
<1>8. QED
  BY <1>5, <1>7, WorkersUnchanged DEF Retry, IInv

LEMMA ApiTailStep ==
    ASSUME IInv, ApiRecalculate \/ ApiSend \/ ApiAbort
    PROVE  IInv'
<1>1. RowsInv' /\ WorkersInv'
  BY WorkersUnchanged
     DEF ApiRecalculate, ApiSend, ApiAbort, IInv, RowsInv,
         LeaseIffPublishing, database
<1>2. api.batch \subseteq Targets /\ api \in [ step : { "idle", "recalc",
        "send" }, batch : SUBSET Targets ]
  BY DEF IInv, RestInv
<1>3. ASSUME ApiRecalculate PROVE RestInv'
  BY <1>2, <1>3, ReducedIsPostStatus
     DEF ApiRecalculate, IInv, RestInv, provider
<1>4. ASSUME ApiSend PROVE RestInv'
  <2>1. { Message("target", t) : t \in api.batch } \subseteq Messages
    BY <1>2, MessageIsMessage DEF MessageType
  <2>2. QED
    BY <1>4, <2>1 DEF ApiSend, IInv, RestInv, database, provider
<1>5. ASSUME ApiAbort PROVE RestInv'
  BY <1>5, BoundsAssumption
     DEF ApiAbort, Mishap, IInv, RestInv, database, provider
<1>6. QED
  BY <1>1, <1>3, <1>4, <1>5 DEF IInv

LEMMA CronStep ==
    ASSUME IInv, Cron
    PROVE  IInv'
<1>1. CASE SweepScheduled
  <2>1. ScheduledPost \in Messages
    BY IdleIsWorking, MessageIsMessage DEF ScheduledPost, MessageType
  <2>2. RestInv'
    BY <1>1, <2>1 DEF SweepScheduled, IInv, RestInv, database, provider
  <2>3. QED
    BY <1>1, <2>2, WorkersUnchanged
       DEF SweepScheduled, IInv, RowsInv, LeaseIffPublishing, database
<1>2. ASSUME NEW t \in Targets, SweepAbandoned(t)
      PROVE  IInv'
  <2> DEFINE freed == Marked(row[t], "released")
             r == [freed EXCEPT !.due = TRUE]
  <2>1. freed \in Row /\ freed.status = "queued" /\ freed.lease = NoLease
    BY MarkedIsRow DEF IInv, RowsInv, Outcome, StatusFor
  <2>2. row' = [row EXCEPT ![t] = r]
    BY <1>2 DEF SweepAbandoned, IInv, RowsInv
  <2> HIDE DEF freed
  <2>3. r \in Row /\ r.status = "queued" /\ r.lease = NoLease
    BY <2>1 DEF Row
  <2> HIDE DEF r
  <2>4. RowsInv'
    BY <2>2, <2>3, RowUpdate DEF IInv
  <2>5. queue' \subseteq Messages
    BY <1>2, MessageIsMessage DEF SweepAbandoned, IInv, RestInv, MessageType
  <2>6. mishaps' \in 0 .. MaxMishaps
    BY <1>2, BoundsAssumption DEF SweepAbandoned, Mishap, IInv, RestInv
  <2>7. RestInv'
    BY <1>2, <2>5, <2>6 DEF SweepAbandoned, IInv, RestInv, provider
  <2>8. QED
    BY <1>2, <2>4, <2>7, WorkersUnchanged DEF SweepAbandoned, IInv
<1>3. QED
  BY <1>1, <1>2 DEF Cron

LEMMA TimeStep ==
    ASSUME IInv, Time
    PROVE  IInv'
<1>1. CASE TimeArrives
  BY <1>1, WorkersUnchanged
     DEF TimeArrives, IInv, RowsInv, LeaseIffPublishing, RestInv, provider
<1>2. ASSUME NEW t \in Targets,
             \/ row' = [row EXCEPT ![t].due = TRUE]
             \/ row' = [row EXCEPT ![t].expired = TRUE]
      PROVE  RowsInv'
  <2>1. PICK r \in { [row[t] EXCEPT !.due = TRUE],
                     [row[t] EXCEPT !.expired = TRUE] } :
            row' = [row EXCEPT ![t] = r]
    BY <1>2 DEF IInv, RowsInv
  <2>2. /\ r \in Row /\ r.status = row[t].status
        /\ r.lease = row[t].lease
    BY <2>1 DEF IInv, RowsInv, Row
  <2>3. QED
    BY <2>1, <2>2, RowUpdate DEF IInv, RowsInv, LeaseIffPublishing
<1>3. ASSUME NEW t \in Targets, BackoffPasses(t)
      PROVE  IInv'
  <2>1. RowsInv'
    BY <1>2, <1>3 DEF BackoffPasses
  <2>2. QED
    BY <1>3, <2>1, WorkersUnchanged DEF BackoffPasses, IInv, RestInv, provider
<1>4. ASSUME NEW t \in Targets, LeaseExpires(t)
      PROVE  IInv'
  <2>1. RowsInv'
    BY <1>2, <1>4 DEF LeaseExpires
  <2>2. mishaps' \in 0 .. MaxMishaps
    BY <1>4, BoundsAssumption DEF LeaseExpires, Mishap, IInv, RestInv
  <2>3. QED
    BY <1>4, <2>1, <2>2, WorkersUnchanged
       DEF LeaseExpires, IInv, RestInv, provider
<1>5. QED
  BY <1>1, <1>3, <1>4 DEF Time

-----------------------------------------------------------------------------
(* The theorems.                                                           *)

LEMMA NextPreservesIInv == IInv /\ [Next]_vars => IInv'
<1> SUFFICES ASSUME IInv, [Next]_vars
             PROVE  IInv'
  OBVIOUS
<1>1. ASSUME NEW w \in Workers, WorkerStep(w)
      PROVE  IInv'
  BY <1>1, LoadContextStep, StartAttemptStep, PrepareFailsStep,
     CallProviderStep, MarkStep, TailStep, SearchStep, ResolveStep
     DEF WorkerStep
<1>2. ASSUME NEW w \in Workers, NEW m \in queue, Receive(w, m)
      PROVE  IInv'
  BY <1>2, LeaseTargetStep, QuietReceive, ReconcileStep, FanOutStep
     DEF Receive
<1>3. CASE Api
  BY <1>3, CancelStep, RetryStep, ApiTailStep DEF Api
<1>4. CASE UNCHANGED vars
  BY <1>4 DEF vars, database, provider, IInv, RowsInv, WorkersInv, RestInv,
              LeaseIffPublishing, LeasesDistinct, Shaped
<1>5. QED
  BY <1>1, <1>2, <1>3, <1>4, FaultStep, CronStep, TimeStep DEF Next

LEMMA IInvHolds == Spec => []IInv
<1>1. QED
  BY InitEstablishesIInv, NextPreservesIInv, PTL DEF Spec

(* Whatever is crashed, redelivered, cancelled, retried or late, every     *)
(* variable keeps its type.                                                *)
THEOREM TypeCorrect == Spec => []TypeOK
<1>1. QED
  BY IInvHolds, IInvImplies, PTL

(* The lease of ADR-006 layer 2: a row carries one exactly while it is     *)
(* publishing, and no two isolates ever carry the same one.                *)
THEOREM LeaseDisciplineHolds == Spec => []LeaseDiscipline
<1>1. QED
  BY IInvHolds, IInvImplies, PTL

-----------------------------------------------------------------------------
(* Where a step may take a status.                                         *)

Follows(t) ==
    \/ CanTransitionTarget(row[t].status, row'[t].status)
    \/ row[t].status = "publishing" /\ row'[t].status = "queued"

(* The moves the statements of the engine make are in the domain's table.  *)
LEMMA EngineMovesAreLegal ==
    /\ \A s \in LeasableTargetStatus : CanTransitionTarget(s, "publishing")
    /\ \A s \in { "pending", "scheduled", "awaiting_approval" } :
          CanTransitionTarget(s, "queued")
    /\ \A s \in Requeueable : CanTransitionTarget(s, "queued")
    /\ \A s \in Cancellable : CanTransitionTarget(s, "cancelled")
    /\ \A out \in Outcome :
          \/ CanTransitionTarget("publishing", StatusFor(out))
          \/ StatusFor(out) = "queued"
    /\ \A out \in { "found", "absent", "indeterminate" } :
          CanTransitionTarget("unknown_reconciliation_required",
                              StatusFor(out))
BY DEF CanTransitionTarget, TargetTransitions, TargetStatus, StatusFor,
       Outcome, LeasableTargetStatus, Requeueable, Cancellable

(* A row whose status is kept follows, whatever else happens to it.        *)
LEMMA KeptFollows ==
    ASSUME NEW t \in Targets, row'[t].status = row[t].status
    PROVE  Follows(t)
BY DEF Follows, CanTransitionTarget

(* The lease guard stands in for a status guard: whoever still holds the   *)
(* lease of the row finds it publishing.                                   *)
LEMMA MarkFollows ==
    ASSUME IInv, NEW w \in Workers, Mark(w), NEW t \in Targets
    PROVE  Follows(t)
<1>1. Target(w) \in Targets /\ worker[w].out \in Outcome
  BY DEF IInv, WorkersInv, Target, Working
<1>2. CASE HoldsLease(w) /\ t = Target(w)
  <2>1. row[t].lease # NoLease
    BY <1>2 DEF Mark, At, HoldsLease, IInv, WorkersInv, Shaped
  <2>2. row[t].status = "publishing"
    BY <2>1 DEF IInv, RowsInv, LeaseIffPublishing
  <2>3. row'[t] = Marked(row[t], worker[w].out)
    BY <1>2 DEF Mark, IInv, RowsInv
  <2>4. row'[t].status = StatusFor(worker[w].out)
    BY <1>1, <2>3, MarkedIsRow DEF IInv, RowsInv
  <2>5. QED
    BY <1>1, <2>2, <2>4, EngineMovesAreLegal DEF Follows
<1>3. CASE ~ (HoldsLease(w) /\ t = Target(w))
  <2>1. row'[t] = row[t]
    BY <1>1, <1>3 DEF Mark, IInv, RowsInv
  <2>2. QED
    BY <2>1, KeptFollows
<1>4. QED
  BY <1>2, <1>3

(* resolveReconciliation writes a verdict, and only over an unknown.       *)
LEMMA ResolveFollows ==
    ASSUME IInv, NEW w \in Workers, Resolve(w), NEW t \in Targets
    PROVE  Follows(t)
<1>1. worker[w].out \in { "found", "absent", "indeterminate" }
  BY DEF Resolve, At, IInv, WorkersInv, Shaped
<1>2. Target(w) \in Targets
  BY DEF IInv, WorkersInv, Target, Working
<1>3. CASE /\ t = Target(w)
           /\ row[t].status = "unknown_reconciliation_required"
  <2>1. row'[t].status = StatusFor(worker[w].out)
    BY <1>3 DEF Resolve, IInv, RowsInv, Row
  <2>2. QED
    BY <1>1, <1>3, <2>1, EngineMovesAreLegal DEF Follows
<1>4. CASE ~ (/\ t = Target(w)
              /\ row[t].status = "unknown_reconciliation_required")
  <2>1. row'[t] = row[t]
    BY <1>2, <1>4 DEF Resolve, IInv, RowsInv
  <2>2. QED
    BY <2>1, KeptFollows
<1>5. QED
  BY <1>3, <1>4

LEMMA ReceiveFollows ==
    ASSUME IInv, NEW w \in Workers, NEW m \in queue, Receive(w, m),
           NEW t \in Targets
    PROVE  Follows(t)
<1>1. CASE LeaseTarget(w, m)
  <2>1. /\ m.target \in Targets
        /\ row[m.target].status \in LeasableTargetStatus
    BY <1>1 DEF LeaseTarget, CanLease, IInv, RestInv, Messages
  <2>2. PICK lease \in Leases \ LeasesInUse :
            row' = [row EXCEPT ![m.target] = Leased(@, lease)]
    BY <1>1 DEF LeaseTarget
  <2>3. CASE t = m.target
    <3>1. row'[t].status = "publishing"
      BY <2>2, <2>3 DEF Leased, IInv, RowsInv, Row
    <3>2. QED
      BY <2>1, <2>3, <3>1, EngineMovesAreLegal DEF Follows
  <2>4. CASE t # m.target
    BY <2>2, <2>4, KeptFollows DEF IInv, RowsInv
  <2>5. QED
    BY <2>3, <2>4
<1>2. CASE FanOut(w, m)
  <2>1. CASE row[t].status \in { "pending", "scheduled",
                                 "awaiting_approval" }
    <3>1. row'[t].status = "queued"
      BY <1>2, <2>1 DEF FanOut, IInv, RowsInv, Row
    <3>2. QED
      BY <2>1, <3>1, EngineMovesAreLegal DEF Follows
  <2>2. CASE row[t].status \notin { "pending", "scheduled",
                                    "awaiting_approval" }
    BY <1>2, <2>2, KeptFollows DEF FanOut
  <2>3. QED
    BY <2>1, <2>2
<1>3. CASE UNCHANGED row
  BY <1>3, KeptFollows
<1>4. LeaseTarget(w, m) \/ FanOut(w, m) \/ UNCHANGED row
  BY DEF Receive, LeaseRefused, Reconcile, Poll, database
<1>5. QED
  BY <1>1, <1>2, <1>3, <1>4

LEMMA ApiFollows ==
    ASSUME IInv, Api, NEW t \in Targets
    PROVE  Follows(t)
<1>1. CASE Cancel
  <2>1. CASE row[t].status \in Cancellable
    <3>1. row'[t].status = "cancelled"
      BY <1>1, <2>1 DEF Cancel, IInv, RowsInv, Row
    <3>2. QED
      BY <2>1, <3>1, EngineMovesAreLegal DEF Follows
  <2>2. CASE row[t].status \notin Cancellable
    BY <1>1, <2>2, KeptFollows DEF Cancel
  <2>3. QED
    BY <2>1, <2>2
<1>2. CASE Retry
  <2>1. \/ row'[t] = row[t]
        \/ /\ row[t].status \in Requeueable
           /\ row'[t] = [row[t] EXCEPT !.status = "queued",
                                       !.lease = NoLease,
                                       !.expired = FALSE, !.due = TRUE,
                                       !.attempts = 0]
    BY <1>2 DEF Retry
  <2>2. CASE row[t].status \in Requeueable /\ row'[t].status = "queued"
    BY <2>2, EngineMovesAreLegal DEF Follows
  <2>3. QED
    BY <2>1, <2>2, KeptFollows DEF IInv, RowsInv, Row
<1>3. CASE UNCHANGED row
  BY <1>3, KeptFollows
<1>4. Cancel \/ Retry \/ UNCHANGED row
  BY DEF Api, ApiRecalculate, ApiSend, ApiAbort, database
<1>5. QED
  BY <1>1, <1>2, <1>3, <1>4

(* The sweep is the one place besides a denied permit that takes a target  *)
(* from publishing back to queued.                                         *)
LEMMA CronFollows ==
    ASSUME IInv, Cron, NEW t \in Targets
    PROVE  Follows(t)
<1>1. CASE SweepScheduled
  BY <1>1, KeptFollows DEF SweepScheduled, database
<1>2. ASSUME NEW u \in Targets, SweepAbandoned(u)
      PROVE  Follows(t)
  <2>1. CASE t = u
    <3> DEFINE freed == Marked(row[t], "released")
    <3>1. /\ freed.status = "queued" /\ freed \in Row
          /\ row[t].status = "publishing"
      BY <1>2, <2>1, MarkedIsRow
         DEF SweepAbandoned, IInv, RowsInv, Outcome, StatusFor
    <3>2. row'[t] = [freed EXCEPT !.due = TRUE]
      BY <1>2, <2>1 DEF SweepAbandoned, IInv, RowsInv
    <3> HIDE DEF freed
    <3>3. QED
      BY <3>1, <3>2 DEF Follows, Row
  <2>2. CASE t # u
    BY <1>2, <2>2, KeptFollows DEF SweepAbandoned, IInv, RowsInv
  <2>3. QED
    BY <2>1, <2>2
<1>3. QED
  BY <1>1, <1>2 DEF Cron

LEMMA TimeFollows ==
    ASSUME IInv, Time, NEW t \in Targets
    PROVE  Follows(t)
<1>1. row'[t].status = row[t].status
  BY DEF Time, TimeArrives, BackoffPasses, LeaseExpires, IInv, RowsInv, Row
<1>2. QED
  BY <1>1, KeptFollows

LEMMA StepFollows ==
    ASSUME IInv, [Next]_vars, NEW t \in Targets
    PROVE  Follows(t)
<1>1. ASSUME NEW w \in Workers, WorkerStep(w)
      PROVE  Follows(t)
  <2>1. Resolve(w) \/ Mark(w) \/ UNCHANGED row
    BY <1>1 DEF WorkerStep, LoadContext, StartAttempt, PrepareFails,
                CallProvider, Finish, Meter, Search, Send, Recalculate,
                database
  <2>2. QED
    BY <2>1, MarkFollows, ResolveFollows, KeptFollows
<1>2. CASE \E w \in Workers : Fault(w)
  BY <1>2, KeptFollows DEF Fault, CatchError, Abort, database
<1>3. CASE UNCHANGED vars
  BY <1>3, KeptFollows DEF vars, database
<1>4. QED
  BY <1>1, <1>2, <1>3, ReceiveFollows, ApiFollows, CronFollows, TimeFollows
     DEF Next

(* The table of legal transitions, which no line of the engine consults,   *)
(* is nevertheless obeyed by every statement, the release aside.           *)
THEOREM StatusesFollowTheDomainHolds == Spec => StatusesFollowTheDomain
<1>1. IInv /\ [Next]_vars => \A t \in Targets : Follows(t)
  BY StepFollows
<1>2. QED
  BY <1>1, IInvHolds, PTL DEF Spec, StatusesFollowTheDomain, Follows

(* The table has no way out of a terminal status but for a validation      *)
(* verdict, and the engine stores none.                                    *)
LEMMA TerminalStays ==
    ASSUME IInv, [Next]_vars, NEW t \in Targets,
           row[t].status \in TerminalTargetStatus
    PROVE  row'[t].status = row[t].status
<1>1. row[t].status \in { "published", "permanent_failed", "cancelled" }
  BY DEF IInv, RowsInv, TerminalTargetStatus
<1>2. TargetTransitions[row[t].status] = {}
  BY <1>1 DEF TargetTransitions, TargetStatus
<1>3. Follows(t)
  BY StepFollows
<1>4. QED
  BY <1>1, <1>2, <1>3 DEF Follows, CanTransitionTarget

(* Whatever arrives late - a stale worker, an old message, a second        *)
(* verdict, a customer's retry or cancel - finds a terminal target closed. *)
THEOREM TerminalIsFinalHolds == Spec => TerminalIsFinal
<1>1. IInv /\ [Next]_vars =>
        \A t \in Targets :
            row[t].status \in TerminalTargetStatus =>
                row'[t].status = row[t].status
  BY TerminalStays
<1>2. QED
  BY <1>1, IInvHolds, PTL DEF Spec, TerminalIsFinal

-----------------------------------------------------------------------------
(* The aggregate.                                                          *)

(* Only a recalculation writes the aggregate, from the rows as they are.   *)
LEMMA PostStatusIsReduced ==
    ASSUME [Next]_vars
    PROVE  \/ postStatus' = postStatus
           \/ postStatus' = Reduced /\ row' = row
<1>1. ASSUME NEW w \in Workers, WorkerStep(w) \/ Fault(w)
      PROVE  \/ postStatus' = postStatus
             \/ postStatus' = Reduced /\ row' = row
  BY <1>1 DEF WorkerStep, Fault, LoadContext, StartAttempt, PrepareFails,
     CallProvider, Mark, Finish, Meter, Search, Resolve, Send, Recalculate,
     CatchError, Abort, database
<1>2. ASSUME NEW w \in Workers, NEW m \in queue, Receive(w, m)
      PROVE  postStatus' = postStatus
  BY <1>2 DEF Receive, LeaseTarget, LeaseRefused, Reconcile, Poll, FanOut,
              database
<1>3. CASE Cron \/ Time
  BY <1>3 DEF Cron, SweepScheduled, SweepAbandoned, Time, TimeArrives,
              BackoffPasses, LeaseExpires, database
<1>4. CASE Api
  BY <1>4 DEF Api, Cancel, Retry, ApiRecalculate, ApiSend, ApiAbort, database
<1>5. CASE UNCHANGED vars
  BY <1>5 DEF vars, database
<1>6. QED
  BY <1>1, <1>2, <1>3, <1>4, <1>5 DEF Next

(* The reducer closes a post only when every target is terminal.           *)
LEMMA ClosedNeedsTerminal ==
    ASSUME NEW S \in SUBSET TargetStatus, S # {},
           ReducePostStatus(S) \in TerminalPostStatus
    PROVE  S \subseteq TerminalTargetStatus
<1> DEFINE open == S \ {"cancelled"}
<1>1. CASE S = {"cancelled"}
  BY <1>1 DEF TerminalTargetStatus
<1>2. CASE S # {"cancelled"}
  <2>1. ReduceLive(open) \in TerminalPostStatus
    BY <1>2 DEF ReducePostStatus
  <2>2. open \subseteq {"published", "permanent_failed", "blocked_validation"}
    BY <2>1 DEF ReduceLive, TerminalPostStatus
  <2>3. QED
    BY <2>2 DEF TerminalTargetStatus
<1>3. QED
  BY <1>1, <1>2

(* A post that reads closed is closed: a stale worker, a late verdict or a *)
(* customer's retry finds nothing in it to move, because the aggregate was *)
(* reduced from targets that were all terminal.                            *)
THEOREM ClosedPostIsSettledHolds == Spec => []ClosedPostIsSettled
<1>1. ASSUME IInv, ClosedPostIsSettled, [Next]_vars
      PROVE  ClosedPostIsSettled'
  <2> DEFINE S == { row[t].status : t \in Targets }
  <2>1. S \in SUBSET TargetStatus /\ S # {}
    BY <1>1, TargetsAssumption DEF IInv, RowsInv, Row
  <2>2. CASE row' = row /\ postStatus' = Reduced
    <3>1. Reduced' = Reduced
      BY <2>2 DEF Reduced
    <3>2. Reduced \in TerminalPostStatus =>
             \A t \in Targets : row[t].status \in TerminalTargetStatus
      <4>1. Reduced = ReducePostStatus(S)
        BY DEF Reduced
      <4> HIDE DEF S
      <4>2. Reduced \in TerminalPostStatus => S \subseteq TerminalTargetStatus
        BY <2>1, <4>1, ClosedNeedsTerminal
      <4>3. QED
        BY <4>2 DEF S
    <3>3. QED
      BY <2>2, <3>1, <3>2 DEF ClosedPostIsSettled
  <2>3. CASE postStatus' = postStatus /\ postStatus \in TerminalPostStatus
    <3>1. \A t \in Targets : row[t].status \in TerminalTargetStatus
      BY <1>1, <2>3 DEF ClosedPostIsSettled
    <3>2. \A t \in Targets : row'[t].status = row[t].status
      BY <1>1, <3>1, TerminalStays
    <3>3. Reduced' = Reduced
      <4>1. { row'[t].status : t \in Targets } = S
        BY <3>2
      <4>2. QED
        BY <4>1 DEF Reduced
    <3>4. QED
      BY <1>1, <2>3, <3>1, <3>2, <3>3 DEF ClosedPostIsSettled
  <2>4. CASE postStatus' = postStatus /\ postStatus \notin TerminalPostStatus
    BY <2>4 DEF ClosedPostIsSettled
  <2>5. QED
    BY <1>1, <2>2, <2>3, <2>4, PostStatusIsReduced
<1>2. Init => ClosedPostIsSettled
  BY DEF Init, ClosedPostIsSettled, TerminalPostStatus
<1>3. QED
  BY <1>1, <1>2, IInvHolds, PTL DEF Spec

-----------------------------------------------------------------------------
(* Before its time.                                                        *)

(* A post that is not due is scheduled or cancelled, no message about it   *)
(* has been sent and nobody works on it.                                   *)
NothingEarly ==
    publishAt = "future" =>
        /\ queue = {} /\ api.batch = {}
        /\ \A t \in Targets : row[t].status \in { "scheduled", "cancelled" }
                               /\ calls[t] = 0
        /\ \A w \in Workers : worker[w].step = "idle"
                               /\ worker[w].out = "none"

(* What the requests, the cron and the clock do to such a post.            *)
LEMMA EarlyRequests ==
    ASSUME IInv, NothingEarly, publishAt = "future", publishAt' = publishAt,
           Api \/ Cron \/ Time
    PROVE  NothingEarly'
<1>1. /\ queue = {} /\ api.batch = {}
      /\ \A t \in Targets : row[t].status \in { "scheduled", "cancelled" }
                             /\ calls[t] = 0
      /\ \A w \in Workers : worker[w].step = "idle" /\ worker[w].out = "none"
  BY DEF NothingEarly
<1>2. row \in [Targets -> Row]
  BY DEF IInv, RowsInv
<1>3. CASE Cancel
  BY <1>1, <1>2, <1>3 DEF Cancel, NothingEarly, Row, provider
<1>4. CASE Retry
  <2>1. { t \in Targets : row[t].status \in Requeueable } = {}
    BY <1>1 DEF Requeueable
  <2>2. PICK batch \in { {} } :
           /\ api' = [ step |-> "recalc", batch |-> batch ]
           /\ \A t \in Targets \ batch : row'[t] = row[t]
    <3>1. { { t } : t \in {} } = {}
      OBVIOUS
    <3>2. QED
      BY <1>4, <2>1, <3>1 DEF Retry
  <2>3. QED
    BY <1>1, <1>4, <2>2 DEF Retry, NothingEarly, provider
<1>5. CASE ApiRecalculate
  <2>1. api'.batch = {}
    BY <1>1, <1>5 DEF ApiRecalculate, IInv, RestInv
  <2>2. QED
    BY <1>1, <1>5, <2>1 DEF ApiRecalculate, NothingEarly, provider
<1>6. CASE ApiSend \/ ApiAbort
  BY <1>1, <1>6 DEF ApiSend, ApiAbort, NothingEarly, database, provider
<1>7. CASE Cron
  BY <1>1, <1>7 DEF Cron, SweepScheduled, Overdue, SweepAbandoned
<1>8. CASE Time
  <2>1. \A t \in Targets : row'[t].status = row[t].status
    BY <1>2, <1>8 DEF Time, TimeArrives, BackoffPasses, LeaseExpires, Row
  <2>2. calls' = calls /\ queue' = queue /\ worker' = worker /\ api' = api
    BY <1>8 DEF Time, TimeArrives, BackoffPasses, LeaseExpires, provider
  <2>3. QED
    BY <1>1, <2>1, <2>2 DEF NothingEarly
<1>9. QED
  BY <1>3, <1>4, <1>5, <1>6, <1>7, <1>8 DEF Api

(* Only the clock moves publish_at, and never back.                        *)
LEMMA TheFutureIsOver ==
    ASSUME [Next]_vars, publishAt' = "future"
    PROVE  publishAt = "future"
<1>1. ASSUME NEW w \in Workers, WorkerStep(w) \/ Fault(w)
      PROVE  publishAt' = publishAt
  BY <1>1 DEF WorkerStep, Fault, LoadContext, StartAttempt, PrepareFails,
     CallProvider, Mark, Finish, Meter, Search, Resolve, Send, Recalculate,
     CatchError, Abort, database
<1>2. ASSUME NEW w \in Workers, NEW m \in queue, Receive(w, m)
      PROVE  publishAt' = publishAt
  BY <1>2 DEF Receive, LeaseTarget, LeaseRefused, Reconcile, Poll, FanOut,
              database
<1>3. CASE Cron \/ Time
  BY <1>3 DEF Cron, SweepScheduled, SweepAbandoned, Time, TimeArrives,
              BackoffPasses, LeaseExpires, database
<1>4. CASE Api
  BY <1>4 DEF Api, Cancel, Retry, ApiRecalculate, ApiSend, ApiAbort, database
<1>5. CASE UNCHANGED vars
  BY <1>5 DEF vars, database
<1>6. QED
  BY <1>1, <1>2, <1>3, <1>4, <1>5 DEF Next

(* No provider hears of a scheduled post before its time, by any path:     *)
(* cancel and retry of a scheduled post, the sweep and the fan-out.        *)
THEOREM NoEarlyPublishHolds == Spec => []NoEarlyPublish
<1>1. ASSUME IInv, NothingEarly, [Next]_vars
      PROVE  NothingEarly'
  <2>1. CASE publishAt' # "future"
    BY <2>1 DEF NothingEarly
  <2>2. CASE publishAt' = "future"
    <3>1. /\ publishAt = "future" /\ queue = {}
          /\ \A w \in Workers : worker[w].step = "idle"
                                 /\ worker[w].out = "none"
      BY <1>1, <2>2, TheFutureIsOver DEF NothingEarly
    <3>2. \A w \in Workers : ~ WorkerStep(w) /\ ~ Fault(w)
      BY <3>1 DEF WorkerStep, Fault, LoadContext, StartAttempt, PrepareFails,
         CallProvider, Mark, Finish, Meter, Search, Resolve, Send,
         Recalculate, CatchError, Abort, At
    <3>3. CASE UNCHANGED vars
      BY <1>1, <3>3 DEF vars, database, provider, NothingEarly
    <3>4. QED
      BY <1>1, <2>2, <3>1, <3>2, <3>3, EarlyRequests DEF Next
  <2>3. QED
    BY <2>1, <2>2
<1>2. Init => NothingEarly
  BY DEF Init, NothingEarly, NewRow, Idle
<1>3. NothingEarly => NoEarlyPublish
  BY DEF NothingEarly, NoEarlyPublish
<1>4. QED
  BY <1>1, <1>2, <1>3, IInvHolds, PTL DEF Spec

=============================================================================
