-------------------------- MODULE RateLimiterProofs --------------------------
(***************************************************************************)
(* The cap on concurrent calls, proved for any targets, any permits, any   *)
(* cap and any durations that satisfy TtlAssumption.                       *)
(***************************************************************************)
EXTENDS RateLimiter, FiniteSetTheorems, TLAPS

(* Workers keep to the budgets of their steps.                             *)
BudgetsHold == "slow" \notin Faults

Shaped ==
    /\ ttl \in [ Permit -> Nat ]
    /\ step \in [ Job -> Step ]
    /\ timer = [ j \in Job |-> timer[j] ]
    /\ permit \in [ Job -> Permit \cup {Null} ]

PermitsCapped == IsFiniteSet(Active) /\ Cardinality(Active) <= Max

(* A permit outlasts what its holder may still do with it.                 *)
Covered(j) ==
    /\ step[j] = "granted" =>
           /\ permit[j] \in Permit /\ timer[j] \in Nat
           /\ ttl[permit[j]] > timer[j] + CallBudget
    /\ step[j] = "calling" =>
           /\ permit[j] \in Permit /\ timer[j] \in Nat
           /\ ttl[permit[j]] > timer[j]

AllCovered == \A j \in Job : Covered(j)

(* No permit has two holders.                                              *)
Distinct ==
    \A j, k \in Job : permit[j] = permit[k] /\ permit[j] # Null => j = k

IInv == Shaped /\ PermitsCapped /\ AllCovered /\ Distinct

LEMMA DurationsAreNatural ==
  /\ Ttl \in Nat /\ Startup \in Nat /\ CallBudget \in Nat /\ Max \in Nat
  /\ Startup + CallBudget < Ttl
  /\ Null \notin Permit
  BY ClockAssumption, TtlAssumption, ConcurrencyAssumption, NullAssumption
     DEF Null

(* Fewer active permits keep within the cap.                               *)
LEMMA FewerAreCapped ==
  ASSUME PermitsCapped, Active' \subseteq Active
  PROVE  PermitsCapped'
  <1>1. /\ IsFiniteSet(Active')
        /\ Cardinality(Active') <= Cardinality(Active)
    BY FS_Subset DEF PermitsCapped
  <1>2. Cardinality(Active') \in Nat /\ Cardinality(Active) \in Nat
    BY <1>1, FS_CardinalityType DEF PermitsCapped
  <1>. QED  BY <1>1, <1>2, DurationsAreNatural DEF PermitsCapped

LEMMA InitHolds == Init => IInv
  <1>. SUFFICES ASSUME Init PROVE IInv
    OBVIOUS
  <1>1. Active = {}
    BY DEF Init, Active
  <1>2. PermitsCapped
    BY <1>1, FS_EmptySet, DurationsAreNatural DEF PermitsCapped
  <1>. QED  BY <1>2 DEF Init, IInv, Shaped, AllCovered, Covered, Distinct, Step

LEMMA GrantKeeps ==
  ASSUME IInv, NEW j \in Job, Grant(j)
  PROVE  IInv'
  <1>. DEFINE p == CHOOSE q \in Fresh : TRUE
  <1>1. p \in Fresh
    BY DEF Grant
  <1>2. p \in Permit /\ ttl[p] = 0 /\ \A k \in Job : permit[k] # p
    BY <1>1 DEF Fresh
  <1>3. /\ ttl' = [ ttl EXCEPT ![p] = Ttl ]
        /\ permit' = [ permit EXCEPT ![j] = p ]
        /\ step' = [ step EXCEPT ![j] = "granted" ]
        /\ timer' = [ timer EXCEPT ![j] = Startup ]
    BY DEF Grant
  <1>. HIDE DEF p
  <1>4. Shaped'
    BY <1>2, <1>3, DurationsAreNatural DEF IInv, Shaped, Step
  <1>5. PermitsCapped'
    <2>1. Active' \subseteq Active \cup {p}
      BY <1>2, <1>3 DEF Active, IInv, Shaped
    <2>2. /\ IsFiniteSet(Active \cup {p})
          /\ Cardinality(Active \cup {p}) <= Cardinality(Active) + 1
      <3>1. IsFiniteSet(Active)
        BY DEF IInv, PermitsCapped
      <3>2. /\ IsFiniteSet(Active \cup {p})
            /\ Cardinality(Active \cup {p}) =
                 IF p \in Active THEN Cardinality(Active)
                 ELSE Cardinality(Active) + 1
        BY <3>1, FS_AddElement, Zenon
      <3>3. Cardinality(Active) \in Nat
        BY <3>1, FS_CardinalityType
      <3>. QED  BY <3>2, <3>3
    <2>3. /\ IsFiniteSet(Active')
          /\ Cardinality(Active') <= Cardinality(Active \cup {p})
      BY <2>1, <2>2, FS_Subset
    <2>4. /\ Cardinality(Active) \in Nat /\ Cardinality(Active') \in Nat
          /\ Cardinality(Active \cup {p}) \in Nat
      BY <2>2, <2>3, FS_CardinalityType DEF IInv, PermitsCapped
    <2>5. Cardinality(Active) < Max
      BY DEF Grant
    <2>. QED  BY <2>2, <2>3, <2>4, <2>5, DurationsAreNatural DEF PermitsCapped
  <1>6. AllCovered'
    <2>. SUFFICES ASSUME NEW k \in Job PROVE Covered(k)'
      BY DEF AllCovered
    <2>1. CASE k = j
      BY <2>1, <1>2, <1>3, DurationsAreNatural DEF Covered, IInv, Shaped
    <2>2. CASE k # j
      BY <2>2, <1>2, <1>3 DEF Covered, AllCovered, IInv, Shaped
    <2>. QED  BY <2>1, <2>2
  <1>7. Distinct'
    BY <1>2, <1>3 DEF Distinct, IInv, Shaped
  <1>. QED  BY <1>4, <1>5, <1>6, <1>7 DEF IInv

(* Report, Release and Throw: a permit is dropped or left to itself, and   *)
(* its holder is past the call.                                            *)
LEMMA GivingUpKeeps ==
  ASSUME IInv, NEW j \in Job,
         ttl' = Drop(permit[j]) \/ ttl' = ttl,
         step' = [ step EXCEPT ![j] = step'[j] ],
         step'[j] \in Step \ {"granted", "calling"},
         timer' = [ timer EXCEPT ![j] = timer'[j] ],
         permit' = permit \/ permit' = [ permit EXCEPT ![j] = Null ]
  PROVE  IInv'
  <1>1. Shaped'
    <2>1. ttl' \in [ Permit -> Nat ] /\ step' \in [ Job -> Step ]
      BY DEF IInv, Shaped, Drop
    <2>2. permit' \in [ Job -> Permit \cup {Null} ]
      BY DEF IInv, Shaped
    <2>3. DOMAIN timer = Job
      BY DEF IInv, Shaped
    <2>4. timer' = [ k \in Job |-> timer'[k] ]
      BY <2>3
    <2>. QED  BY <2>1, <2>2, <2>4 DEF Shaped
  <1>2. Active' \subseteq Active
    BY DEF Active, Drop, IInv, Shaped
  <1>3. AllCovered'
    <2>. SUFFICES ASSUME NEW k \in Job PROVE Covered(k)'
      BY DEF AllCovered
    <2>1. CASE k = j
      BY <2>1 DEF Covered, IInv, Shaped
    <2>2. CASE k # j
      <3>1. /\ step'[k] = step[k] /\ timer'[k] = timer[k]
            /\ permit'[k] = permit[k]
        BY <2>2 DEF IInv, Shaped
      <3>2. permit[k] \in Permit => ttl'[permit[k]] = ttl[permit[k]]
        BY <2>2, DurationsAreNatural DEF Drop, IInv, Distinct, Shaped
      <3>. QED  BY <3>1, <3>2 DEF Covered, AllCovered, IInv
    <2>. QED  BY <2>1, <2>2
  <1>4. Distinct'
    BY DEF Distinct, IInv, Shaped
  <1>. QED  BY <1>1, <1>2, <1>3, <1>4, FewerAreCapped DEF IInv

LEMMA TickKeeps ==
  ASSUME IInv, BudgetsHold, Tick
  PROVE  IInv'
  <1>1. /\ ttl' = [ p \in Permit |-> Less(ttl[p]) ]
        /\ timer' = [ j \in Job |-> Less(timer[j]) ]
        /\ step' = step /\ permit' = permit
        /\ \A j \in Job : step[j] \in {"granted", "calling"} => timer[j] > 0
    BY DEF Tick, Punctual, BudgetsHold
  <1>2. Shaped'
    BY <1>1 DEF IInv, Shaped, Less
  <1>3. Active' \subseteq Active
    BY <1>1 DEF Active, IInv, Shaped, Less
  <1>4. AllCovered'
    BY <1>1, DurationsAreNatural DEF AllCovered, Covered, IInv, Shaped, Less
  <1>5. Distinct'
    BY <1>1 DEF Distinct, IInv
  <1>. QED  BY <1>2, <1>3, <1>4, <1>5, FewerAreCapped DEF IInv

LEMMA StepKeeps ==
  ASSUME IInv, BudgetsHold, [Next]_vars
  PROVE  IInv'
  <1>1. ASSUME NEW j \in Job, Grant(j) PROVE IInv'
    BY <1>1, GrantKeeps
  <1>2. ASSUME NEW j \in Job, Deny(j) PROVE IInv'
    <2>1. /\ ttl' = ttl /\ step' = step /\ permit' = permit
          /\ timer' = [ timer EXCEPT ![j] = timer'[j] ]
          /\ step[j] = "queued"
      BY <1>2 DEF Deny, limiter, Leased, IInv, Shaped
    <2>. QED  BY <2>1, GivingUpKeeps DEF IInv, Shaped, Step
  <1>3. ASSUME NEW j \in Job, Call(j) PROVE IInv'
    <2>1. /\ ttl' = ttl /\ permit' = permit /\ step[j] = "granted"
          /\ step' = [ step EXCEPT ![j] = "calling" ]
          /\ timer' = [ timer EXCEPT ![j] = CallBudget ]
      BY <1>3 DEF Call, limiter
    <2>2. Shaped' /\ Active' = Active /\ Distinct'
      BY <2>1 DEF IInv, Shaped, Step, Active, Distinct
    <2>3. AllCovered'
      <3>. SUFFICES ASSUME NEW k \in Job PROVE Covered(k)'
        BY DEF AllCovered
      <3>. QED  BY <2>1, DurationsAreNatural
                DEF AllCovered, Covered, IInv, Shaped
    <2>. QED  BY <2>2, <2>3, FewerAreCapped DEF IInv
  <1>4. ASSUME NEW j \in Job, Answer(j) PROVE IInv'
    BY <1>4, GivingUpKeeps DEF Answer, limiter, IInv, Shaped, Step
  <1>5. ASSUME NEW j \in Job, Report(j) PROVE IInv'
    BY <1>5, GivingUpKeeps DEF Report, IInv, Shaped, Step
  <1>6. ASSUME NEW j \in Job, Release(j) PROVE IInv'
    <2>1. /\ ttl' = Drop(permit[j])
          /\ permit' = [ permit EXCEPT ![j] = Null ]
          /\ step' = [ step EXCEPT ![j] = step'[j] ]
          /\ step'[j] \in {"queued", "done"}
          /\ timer' = [ timer EXCEPT ![j] = timer'[j] ]
      BY <1>6 DEF Release, Requeue, IInv, Shaped
    <2>. QED  BY <2>1, GivingUpKeeps DEF Step
  <1>7. ASSUME NEW j \in Job, Throw(j) PROVE IInv'
    <2>1. /\ ttl' = ttl
          /\ permit' = [ permit EXCEPT ![j] = Null ]
          /\ step' = [ step EXCEPT ![j] = step'[j] ]
          /\ step'[j] = "queued"
          /\ timer' = [ timer EXCEPT ![j] = timer'[j] ]
      BY <1>7 DEF Throw, Requeue, limiter, IInv, Shaped
    <2>. QED  BY <2>1, GivingUpKeeps DEF Step
  <1>8. ASSUME NEW j \in Job, ReportThrows(j) PROVE IInv'
    <2>1. /\ ttl' = ttl /\ permit' = permit /\ timer' = timer
          /\ step' = [ step EXCEPT ![j] = step'[j] ]
          /\ step'[j] \in {"answered", "releasing"}
      BY <1>8 DEF ReportThrows, limiter, IInv, Shaped
    <2>. QED  BY <2>1, GivingUpKeeps DEF Step, IInv, Shaped
  <1>9. CASE Tick
    BY <1>9, TickKeeps
  <1>10. CASE UNCHANGED vars
    <2>1. ttl' = ttl /\ step' = step /\ timer' = timer /\ permit' = permit
      BY <1>10 DEF vars, limiter, client
    <2>2. Shaped' /\ Active' = Active /\ AllCovered' /\ Distinct'
      BY <2>1 DEF IInv, Shaped, Active, AllCovered, Covered, Distinct
    <2>. QED  BY <2>2, FewerAreCapped DEF IInv
  <1>. QED  BY <1>1, <1>2, <1>3, <1>4, <1>5, <1>6, <1>7, <1>8, <1>9, <1>10
            DEF Next, Worker

(* The calls in flight hold active permits, and no two the same.           *)
LEMMA CallsHoldPermits == IInv => ConcurrencyCapped
  <1>. SUFFICES ASSUME IInv PROVE ConcurrencyCapped
    OBVIOUS
  <1>. DEFINE held == [ j \in InFlight |-> permit[j] ]
  <1>1. \A j \in InFlight : permit[j] \in Active
    BY DEF InFlight, Active, IInv, AllCovered, Covered, Shaped
  <1>2. \A j, k \in InFlight : permit[j] = permit[k] => j = k
    BY <1>1, DurationsAreNatural DEF InFlight, Active, IInv, Distinct
  <1>3. held \in Injection(InFlight, Active)
    BY <1>1, <1>2 DEF Injection, IsInjective
  <1>4. /\ IsFiniteSet(InFlight)
        /\ Cardinality(InFlight) <= Cardinality(Active)
    BY <1>3, FS_Injection DEF IInv, PermitsCapped
  <1>5. Cardinality(InFlight) \in Nat /\ Cardinality(Active) \in Nat
    BY <1>4, FS_CardinalityType DEF IInv, PermitsCapped
  <1>. QED  BY <1>4, <1>5, DurationsAreNatural
            DEF ConcurrencyCapped, IInv, PermitsCapped

(* As long as workers keep to their budgets, leaked permits, lost reports  *)
(* and crossing answers never let more than Max posts of a destination be  *)
(* on their way at once: PERMIT_TTL_MS is long enough for every call.      *)
THEOREM CallsAreCapped ==
  ASSUME BudgetsHold
  PROVE  Spec => []ConcurrencyCapped
  <1>1. Init => IInv
    BY InitHolds
  <1>2. IInv /\ [Next]_vars => IInv'
    BY StepKeeps
  <1>. QED  BY <1>1, <1>2, CallsHoldPermits, PTL DEF Spec

(* ------------------------------- cooldowns ----------------------------- *)
(* The cooldown covers every wait the limiter was told of.                 *)
WaitsCovered ==
    /\ cooldown \in Nat /\ told \in Nat
    /\ step = [ j \in Job |-> step[j] ]
    /\ wait = [ j \in Job |-> wait[j] ] /\ \A j \in Job : wait[j] \in Nat
    /\ told <= cooldown

LEMMA FallbackIsNatural == \A n : Fallback(n) \in Nat
  BY ClockAssumption DEF Fallback

LEMMA ReportCovers ==
  ASSUME WaitsCovered, NEW j \in Job, Report(j)
  PROVE  WaitsCovered'
  <1>1. /\ wait' = wait /\ wait[j] \in Nat
        /\ step' = [ k \in Job |-> step'[k] ]
    BY DEF Report, WaitsCovered
  <1>2. /\ answer[j] = "deferred" => told' = AtLeast(told, wait[j])
        /\ answer[j] = "ok" => told' = 0
        /\ answer[j] \notin {"deferred", "ok"} => told' = told
    BY DEF Report
  <1>3. CASE answer[j] \in Refusal
    <2>1. Asked(j) \in Nat /\ (answer[j] = "deferred" => Asked(j) = wait[j])
      BY <1>1, FallbackIsNatural DEF Asked
    <2>2. cooldown' = AtLeast(cooldown, Asked(j))
      BY <1>3 DEF Report, Heard, Refusal
    <2>3. cooldown' \in Nat /\ told' \in Nat /\ told' <= cooldown'
      BY <1>1, <1>2, <2>1, <2>2 DEF WaitsCovered, AtLeast
    <2>. QED  BY <1>1, <2>3 DEF WaitsCovered
  <1>4. CASE answer[j] = "ok"
    <2>1. told' = 0 /\ cooldown' = 0
      BY <1>2, <1>4 DEF Report, Heard, Refusal
    <2>. QED  BY <1>1, <1>2, <1>4, <2>1 DEF WaitsCovered
  <1>5. CASE answer[j] = "error"
    <2>1. cooldown' = cooldown /\ told' = told
      BY <1>2, <1>5 DEF Report, Heard, Refusal
    <2>. QED  BY <1>1, <2>1 DEF WaitsCovered
  <1>. QED  BY <1>3, <1>4, <1>5 DEF Report, Heard

LEMMA StepCovers ==
  ASSUME WaitsCovered, [Next]_vars
  PROVE  WaitsCovered'
  <1>1. ASSUME NEW j \in Job, Report(j) PROVE WaitsCovered'
    BY <1>1, ReportCovers
  <1>2. ASSUME NEW j \in Job,
               Grant(j) \/ Deny(j) \/ Call(j) \/ Answer(j) \/ Release(j)
                 \/ Throw(j) \/ ReportThrows(j)
        PROVE  WaitsCovered'
    <2>1. cooldown' = cooldown /\ told' = told
      BY <1>2 DEF Grant, Deny, Call, Answer, Release, Throw, ReportThrows,
                  limiter
    <2>2. \/ wait' = wait
          \/ \E d \in Nat : wait' = [ wait EXCEPT ![j] = d ]
      <3>1. CASE Answer(j)
        <4>1. PICK said \in Outcome :
                \E d \in IF said = "deferred" THEN RetryDelays ELSE {0} :
                   wait' = [ wait EXCEPT ![j] = d ]
          BY <3>1 DEF Answer
        <4>. QED  BY <4>1, ClockAssumption
      <3>2. CASE Release(j) \/ Throw(j)
        BY <3>2 DEF Release, Throw
      <3>3. CASE Grant(j) \/ Deny(j) \/ Call(j) \/ ReportThrows(j)
        BY <3>3 DEF Grant, Deny, Call, ReportThrows
      <3>. QED  BY <1>2, <3>1, <3>2, <3>3
    <2>3. step' = [ k \in Job |-> step'[k] ]
      <3>1. CASE Release(j) \/ Throw(j)
        BY <3>1 DEF Release, Throw, Requeue, WaitsCovered
      <3>2. CASE Grant(j) \/ Deny(j) \/ Call(j) \/ Answer(j) \/ ReportThrows(j)
        BY <3>2 DEF Grant, Deny, Call, Answer, ReportThrows, WaitsCovered
      <3>. QED  BY <1>2, <3>1, <3>2
    <2>. QED  BY <2>1, <2>2, <2>3 DEF WaitsCovered
  <1>3. CASE Tick
    BY <1>3 DEF Tick, WaitsCovered, Less
  <1>4. CASE UNCHANGED vars
    BY <1>4 DEF vars, limiter, client, WaitsCovered
  <1>. QED  BY <1>1, <1>2, <1>3, <1>4 DEF Next, Worker

(* Only Grant issues a permit.                                             *)
LEMMA GrantsAreCool ==
  ASSUME WaitsCovered, [Next]_vars, NEW j \in Job,
         step[j] = "queued", step'[j] = "granted"
  PROVE  told = 0
  <1>1. ASSUME NEW k \in Job, Grant(k) PROVE told = 0
    BY <1>1 DEF Grant, WaitsCovered
  <1>2. ASSUME NEW k \in Job,
               Deny(k) \/ Call(k) \/ Answer(k) \/ Report(k) \/ Release(k)
                 \/ Throw(k) \/ ReportThrows(k) \/ Tick \/ UNCHANGED vars
        PROVE  FALSE
    <2>1. \/ step' = step
          \/ \E s \in {"calling", "answered", "releasing", "queued", "done"} :
                step' = [ step EXCEPT ![k] = s ]
      <3>1. CASE Deny(k) \/ Tick \/ UNCHANGED vars
        BY <3>1 DEF Deny, Tick, vars, client
      <3>2. CASE Call(k) \/ Answer(k) \/ Report(k)
        BY <3>2 DEF Call, Answer, Report
      <3>3. CASE Release(k)
        BY <3>3 DEF Release, Requeue
      <3>4. CASE Throw(k)
        BY <3>4 DEF Throw, Requeue
      <3>5. CASE ReportThrows(k)
        BY <3>5 DEF ReportThrows
      <3>. QED  BY <1>2, <3>1, <3>2, <3>3, <3>4, <3>5
    <2>2. CASE step' = step
      BY <2>2
    <2>3. CASE \E s \in {"calling", "answered", "releasing", "queued", "done"} :
                 step' = [ step EXCEPT ![k] = s ]
      <3>1. PICK s \in {"calling", "answered", "releasing", "queued", "done"} :
                   step' = [ step EXCEPT ![k] = s ]
        BY <2>3
      <3>2. step'[j] = "granted" => step'[j] = step[j] \/ step'[j] = s
        BY <3>1 DEF WaitsCovered
      <3>. QED  BY <3>1, <3>2
    <2>. QED  BY <2>1, <2>2, <2>3
  <1>. QED  BY <1>1, <1>2 DEF Next, Worker

(* For any targets, permits, cap and durations and under every fault, in   *)
(* whatever order reports arrive: no permit is issued before the longest   *)
(* wait reported since the last reported success has passed, whichever 429 *)
(* was heard first and however the fallback doubles.  The success may be   *)
(* that of a call the refusal overtook: nothing here says that it is not.  *)
THEOREM CooldownIsKept == Spec => CooldownKept
  <1>1. Init => WaitsCovered
    BY DEF Init, WaitsCovered
  <1>2. WaitsCovered /\ [Next]_vars => WaitsCovered'
    BY StepCovers
  <1>3. WaitsCovered /\ [Next]_vars =>
          [ \A j \in Job : step[j] = "queued" /\ step'[j] = "granted" =>
                            told = 0 ]_vars
    BY GrantsAreCool
  <1>. QED  BY <1>1, <1>2, <1>3, PTL DEF Spec, CooldownKept

(* --------------------------------- types ------------------------------- *)
(* A worker between its permit and the release has an attempt to give      *)
(* back: without it the attempt count could fall below zero.               *)
AttemptInHand ==
    \A j \in Job : step[j] \notin {"queued", "done"} => attempts[j] > 0

TypeInv == TypeOK /\ AttemptInHand

LEMMA BoundsAreNatural ==
  /\ Ttl \in Nat /\ Startup \in Nat /\ CallBudget \in Nat /\ BusyDelay \in Nat
  /\ SweepDelay \in Nat /\ MaxAttempts \in Nat /\ MaxMishaps \in Nat
  /\ RetryDelays \subseteq Nat
  BY ClockAssumption, BoundAssumption

LEMMA DroppedIsTyped ==
  ASSUME TypeOK, NEW p
  PROVE  Drop(p) \in [ Permit -> 0 .. Ttl ]
  BY BoundsAreNatural DEF Drop, TypeOK

LEMMA MishapIsTyped ==
  ASSUME TypeOK, NEW kind, Mishap(kind)
  PROVE  mishaps' \in 0 .. MaxMishaps
  BY BoundsAreNatural DEF Mishap, TypeOK

LEMMA InitIsTyped == Init => TypeInv
  BY BoundsAreNatural
     DEF Init, TypeInv, TypeOK, AttemptInHand, Step, Null, Later

LEMMA GrantIsTyped ==
  ASSUME TypeInv, NEW j \in Job, Grant(j)
  PROVE  TypeInv'
  <1>. DEFINE p == CHOOSE q \in Fresh : TRUE
  <1>1. p \in Permit
    BY DEF Grant, Fresh
  <1>2. /\ ttl' = [ ttl EXCEPT ![p] = Ttl ]
        /\ permit' = [ permit EXCEPT ![j] = p ]
    BY DEF Grant
  <1>. HIDE DEF p
  <1>3. ttl' \in [ Permit -> 0 .. Ttl ]
    BY <1>1, <1>2, BoundsAreNatural DEF TypeInv, TypeOK
  <1>4. permit' \in [ Job -> Permit \cup {Null} ]
    BY <1>1, <1>2 DEF TypeInv, TypeOK
  <1>5. /\ step' = [ step EXCEPT ![j] = "granted" ]
        /\ timer' = [ timer EXCEPT ![j] = Startup ]
        /\ attempts' = [ attempts EXCEPT ![j] = @ + 1 ]
        /\ attempts[j] < MaxAttempts
        /\ UNCHANGED << cooldown, consecutive, answer, wait, after, told,
                        mishaps >>
    BY DEF Grant, Leased
  <1>6. /\ attempts' \in [ Job -> 0 .. MaxAttempts ]
        /\ attempts'[j] > 0
        /\ step' \in [ Job -> Step ] /\ timer' \in [ Job -> Nat ]
    BY <1>5, BoundsAreNatural DEF TypeInv, TypeOK, Step
  <1>7. AttemptInHand'
    BY <1>5, <1>6 DEF TypeInv, TypeOK, AttemptInHand
  <1>. QED  BY <1>3, <1>4, <1>5, <1>6, <1>7 DEF TypeInv, TypeOK

LEMMA DenyIsTyped ==
  ASSUME TypeInv, NEW j \in Job, Deny(j)
  PROVE  TypeInv'
  <1>1. timer' \in [ Job -> Nat ]
    BY BoundsAreNatural DEF Deny, TypeInv, TypeOK
  <1>2. UNCHANGED << limiter, step, permit, answer, wait, attempts, after, told,
                    mishaps >>
    BY DEF Deny
  <1>. QED  BY <1>1, <1>2 DEF limiter, TypeInv, TypeOK, AttemptInHand

LEMMA CallIsTyped ==
  ASSUME TypeInv, NEW j \in Job, Call(j)
  PROVE  TypeInv'
  BY BoundsAreNatural DEF Call, limiter, TypeInv, TypeOK, AttemptInHand, Step

LEMMA AnswerIsTyped ==
  ASSUME TypeInv, NEW j \in Job, Answer(j)
  PROVE  TypeInv'
  <1>1. PICK said \in Outcome :
          /\ answer' = [ answer EXCEPT ![j] = said ]
          /\ \E d \in IF said = "deferred" THEN RetryDelays ELSE {0} :
                wait' = [ wait EXCEPT ![j] = d ]
    BY DEF Answer
  <1>2. answer' \in [ Job -> Outcome \cup {"none"} ]
    BY <1>1 DEF TypeInv, TypeOK
  <1>3. wait' \in [ Job -> Nat ]
    BY <1>1, BoundsAreNatural DEF TypeInv, TypeOK
  <1>4. /\ step[j] = "calling"
        /\ step' = [ step EXCEPT ![j] = "answered" ]
        /\ timer' = [ timer EXCEPT ![j] = 0 ]
        /\ UNCHANGED << limiter, permit, attempts, after, told, mishaps >>
    BY DEF Answer
  <1>. QED  BY <1>2, <1>3, <1>4
            DEF limiter, TypeInv, TypeOK, AttemptInHand, Step

LEMMA ReportIsTyped ==
  ASSUME TypeInv, NEW j \in Job, Report(j)
  PROVE  TypeInv'
  <1>1. ttl' \in [ Permit -> 0 .. Ttl ]
    BY DroppedIsTyped DEF Report, TypeInv
  <1>2. Asked(j) \in Nat
    BY FallbackIsNatural DEF Asked, TypeInv, TypeOK
  <1>3. cooldown' \in Nat /\ consecutive' \in Nat
    <2>1. CASE /\ cooldown' = AtLeast(cooldown, Asked(j))
               /\ consecutive' = consecutive + 1
      BY <1>2, <2>1 DEF AtLeast, TypeInv, TypeOK
    <2>2. CASE consecutive' = 0 /\ cooldown' = 0
      BY <2>2
    <2>3. CASE UNCHANGED << cooldown, consecutive >>
      BY <2>3 DEF TypeInv, TypeOK
    <2>. QED  BY <2>1, <2>2, <2>3 DEF Report, Heard
  <1>4. told' \in Nat
    BY DEF Report, AtLeast, TypeInv, TypeOK
  <1>5. after' \in [ Job -> Later ]
    BY DEF Report, Settle, Later, TypeInv, TypeOK
  <1>6. /\ step[j] = "answered"
        /\ step' = [ step EXCEPT ![j] = "releasing" ]
        /\ UNCHANGED << timer, permit, answer, wait, attempts, mishaps >>
    BY DEF Report
  <1>. QED  BY <1>1, <1>3, <1>4, <1>5, <1>6
            DEF TypeInv, TypeOK, AttemptInHand, Step

LEMMA ReportThrowsIsTyped ==
  ASSUME TypeInv, NEW j \in Job, ReportThrows(j)
  PROVE  TypeInv'
  <1>1. mishaps' \in 0 .. MaxMishaps
    BY MishapIsTyped DEF ReportThrows, TypeInv
  <1>2. UNCHANGED << limiter, timer, permit, wait, attempts, told >>
    BY DEF ReportThrows
  <1>3. step[j] = "answered"
    BY DEF ReportThrows
  <1>4. CASE /\ answer' = [ answer EXCEPT ![j] = "error" ]
             /\ UNCHANGED << step, after >>
    BY <1>1, <1>2, <1>4
       DEF limiter, TypeInv, TypeOK, AttemptInHand, Outcome
  <1>5. CASE /\ step' = [ step EXCEPT ![j] = "releasing" ]
             /\ after' = [ after EXCEPT ![j] = "swept" ]
             /\ UNCHANGED answer
    BY <1>1, <1>2, <1>3, <1>5
       DEF limiter, TypeInv, TypeOK, AttemptInHand, Step, Later
  <1>. QED  BY <1>4, <1>5 DEF ReportThrows

LEMMA BackoffIsNatural ==
  ASSUME TypeOK, NEW j \in Job
  PROVE  Backoff(j) \subseteq Nat
  <1>1. AtLeast(wait[j], 1) \in Nat
    BY DEF AtLeast, TypeOK
  <1>2. CASE answer[j] = "deferred"
    BY <1>1, <1>2 DEF Backoff
  <1>3. CASE answer[j] # "deferred"
    BY <1>3, BoundsAreNatural DEF Backoff
  <1>. QED  BY <1>2, <1>3

LEMMA ReleaseIsTyped ==
  ASSUME TypeInv, NEW j \in Job, Release(j)
  PROVE  TypeInv'
  <1>1. ttl' \in [ Permit -> 0 .. Ttl ]
    BY DroppedIsTyped DEF Release, TypeInv
  <1>2. /\ step[j] = "releasing"
        /\ permit' = [ permit EXCEPT ![j] = Null ]
        /\ answer' = [ answer EXCEPT ![j] = "none" ]
        /\ wait' = [ wait EXCEPT ![j] = 0 ]
        /\ after' = [ after EXCEPT ![j] = "done" ]
        /\ UNCHANGED << cooldown, consecutive, told, mishaps >>
    BY DEF Release
  <1>3. /\ \/ step' = [ step EXCEPT ![j] = "done" ]
           \/ step' = [ step EXCEPT ![j] = "queued" ]
        /\ timer' \in [ Job -> Nat ]
        /\ \/ attempts' = attempts
           \/ attempts' = [ attempts EXCEPT ![j] = @ - 1 ]
    <2>1. CASE step' = [ step EXCEPT ![j] = "done" ]
               /\ UNCHANGED << timer, attempts >>
      BY <2>1 DEF TypeInv, TypeOK
    <2>2. CASE Requeue(j, Backoff(j)) /\ UNCHANGED attempts
      BY <2>2, BackoffIsNatural DEF Requeue, TypeInv, TypeOK
    <2>3. CASE /\ Requeue(j, {SweepDelay})
               /\ attempts' = [ attempts EXCEPT ![j] = @ - 1 ]
      BY <2>3, BoundsAreNatural DEF Requeue, TypeInv, TypeOK
    <2>. QED  BY <2>1, <2>2, <2>3 DEF Release
  <1>4. attempts[j] > 0
    BY <1>2 DEF TypeInv, AttemptInHand
  <1>5. /\ attempts' \in [ Job -> 0 .. MaxAttempts ]
        /\ \A k \in Job : k # j => attempts'[k] = attempts[k]
    BY <1>3, <1>4, BoundsAreNatural DEF TypeInv, TypeOK
  <1>6. step' \in [ Job -> Step ] /\ AttemptInHand'
    BY <1>3, <1>5 DEF TypeInv, TypeOK, AttemptInHand, Step
  <1>. QED  BY <1>1, <1>2, <1>3, <1>5, <1>6 DEF TypeInv, TypeOK, Later

LEMMA ThrowIsTyped ==
  ASSUME TypeInv, NEW j \in Job, Throw(j)
  PROVE  TypeInv'
  <1>1. mishaps' \in 0 .. MaxMishaps
    BY MishapIsTyped DEF Throw, TypeInv
  <1>2. /\ step[j] \notin {"queued", "done"}
        /\ step' = [ step EXCEPT ![j] = "queued" ]
        /\ timer' = [ timer EXCEPT ![j] = SweepDelay ]
        /\ permit' = [ permit EXCEPT ![j] = Null ]
        /\ answer' = [ answer EXCEPT ![j] = "none" ]
        /\ wait' = [ wait EXCEPT ![j] = 0 ]
        /\ attempts' = [ attempts EXCEPT ![j] = @ - 1 ]
        /\ after' = [ after EXCEPT ![j] = "done" ]
        /\ UNCHANGED << limiter, told >>
    BY DEF Throw, Requeue
  <1>3. attempts[j] > 0
    BY <1>2 DEF TypeInv, AttemptInHand
  <1>4. /\ attempts' \in [ Job -> 0 .. MaxAttempts ]
        /\ \A k \in Job : k # j => attempts'[k] = attempts[k]
    BY <1>2, <1>3, BoundsAreNatural DEF TypeInv, TypeOK
  <1>5. step' \in [ Job -> Step ] /\ AttemptInHand'
    BY <1>2, <1>4 DEF TypeInv, TypeOK, AttemptInHand, Step
  <1>. QED  BY <1>1, <1>2, <1>4, <1>5, BoundsAreNatural
            DEF limiter, TypeInv, TypeOK, Later

LEMMA TickIsTyped ==
  ASSUME TypeInv, Tick
  PROVE  TypeInv'
  BY BoundsAreNatural DEF Tick, Less, TypeInv, TypeOK, AttemptInHand

(* However often permits leak, reports fail and workers die, clocks,       *)
(* permits and attempt counts keep their types: every attempt the client   *)
(* gives back is one it took, so attempt_count stays within                *)
(* 0 .. MaxAttempts, and no fault and no assumption on budgets is excluded.*)
THEOREM TypeCorrect == Spec => []TypeOK
  <1>1. TypeInv /\ [Next]_vars => TypeInv'
    <2>. SUFFICES ASSUME TypeInv, [Next]_vars PROVE TypeInv'
      OBVIOUS
    <2>1. ASSUME NEW j \in Job, Worker(j) \/ Throw(j) \/ ReportThrows(j)
          PROVE  TypeInv'
      BY <2>1, GrantIsTyped, DenyIsTyped, CallIsTyped, AnswerIsTyped,
         ReportIsTyped, ReleaseIsTyped, ThrowIsTyped, ReportThrowsIsTyped
         DEF Worker
    <2>2. CASE Tick
      BY <2>2, TickIsTyped
    <2>3. CASE UNCHANGED vars
      BY <2>3 DEF vars, limiter, client, TypeInv, TypeOK, AttemptInHand
    <2>. QED  BY <2>1, <2>2, <2>3 DEF Next
  <1>2. TypeInv => TypeOK
    BY DEF TypeInv
  <1>. QED  BY <1>1, <1>2, InitIsTyped, PTL DEF Spec
=============================================================================
