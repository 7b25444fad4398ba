------------------------- MODULE PublisherOnceProofs -------------------------
(***************************************************************************)
(* What the rows of Publisher say about the provider's books, for every    *)
(* set of targets, isolates and lease ids and every retry budget.          *)
(***************************************************************************)
EXTENDS PublisherProofs

-----------------------------------------------------------------------------
(* The conditions.  No isolate dies between a provider call and the        *)
(* statement that records its outcome, adapters call a lost response       *)
(* unknown, no worker outlives its lease, and no second reconciler is      *)
(* started by a redelivered message.                                       *)
OutcomesAreRecorded ==
    /\ { "crash", "lost_response", "slow" } \cap Faults = {}
    /\ "reconcile" \notin Redelivered

(* Statuses no statement moves a target out of.                            *)
Settled == TerminalTargetStatus \cup { "provider_processing" }

Unresolved == "unknown_reconciliation_required"

(* Past the gates, and before a provider call can have been made.          *)
Early == { "load", "attempt", "call" }

(* w carries the lease that is on the row of t.                            *)
Holder(w, t) ==
    /\ worker[w].target = t
    /\ worker[w].lease # NoLease
    /\ row[t].lease = worker[w].lease

(* A lease id that w carries is the row's until w has written a success;   *)
(* the catch block may then find w going on about a row that is settled.   *)
LeaseFits(w) ==
    worker[w].lease # NoLease =>
        \/ /\ row[worker[w].target].lease = worker[w].lease
           /\ worker[w].step \in Early \cup { "mark", "finish" }
           /\ worker[w].step = "finish" => ~ Succeeded(worker[w].out)
        \/ /\ row[worker[w].target].status \in
                  { "published", "provider_processing" }
           /\ worker[w].step \notin Early

(* What the locals of w say of the call it made, or of a search.           *)
LocalsFit(w) ==
    /\ worker[w].step \in Early =>
          worker[w].lease # NoLease /\ ~ worker[w].asked
    /\ worker[w].asked => worker[w].lease # NoLease
    /\ worker[w].out \in { "released", "simulated" } => ~ worker[w].asked
    /\ worker[w].step = "meter" => worker[w].out = "published"
    /\ worker[w].out \in { "published", "processing", "found" } =>
          live[worker[w].target] > 0

(* Reconciliations, and only they, search and reach a verdict; `absent' is *)
(* true as long as the row waits for it.                                   *)
VerdictFits(w) ==
    /\ worker[w].job = "reconcile" =>
          /\ worker[w].lease = NoLease
          /\ worker[w].step \in { "search", "resolve", "send", "recalc" }
          /\ worker[w].step \in { "send", "recalc" } =>
                worker[w].out \in { "found", "absent", "indeterminate" }
    /\ worker[w].step = "resolve" /\ worker[w].out = "absent"
          /\ row[worker[w].target].status = Unresolved
        => live[worker[w].target] = 0

Fits(w) == LeaseFits(w) /\ LocalsFit(w) /\ VerdictFits(w)

(* Whoever made the call and is about to record what came of it.           *)
Records(w, t) ==
    /\ Holder(w, t)
    /\ worker[w].asked
    /\ worker[w].out \in { "published", "processing", "unknown" }

RowIsTrue(t) ==
    /\ live[t] \in { 0, 1 }
    /\ live[t] = 1 =>
          \/ row[t].status \in { "published", "permanent_failed",
                                 "provider_processing", Unresolved }
          \/ row[t].status = "publishing" /\ \E w \in Workers : Records(w, t)
    /\ row[t].status = "provider_processing" => live[t] = 1
    /\ row[t].status = "published" => (row[t].simulated <=> live[t] = 0)
    /\ row[t].simulated => row[t].status = "published"
    /\ row[t].expired => \A w \in Workers : ~ Holder(w, t)
    /\ t \in metered => live[t] > 0

(* What may still bring t a verdict: a search, an outcome about to be      *)
(* reported, or a message that asks for a search.                          *)
Reconciles(w, t) ==
    /\ worker[w].target = t
    /\ \/ worker[w].step \in { "search", "resolve" }
       \/ worker[w].step = "send" /\ worker[w].out = "unknown"

Asked(t) == Message("reconcile", t) \in queue

OneReconciler(t) ==
    /\ row[t].status \notin Settled \cup { Unresolved } =>
          ~ Asked(t) /\ \A w \in Workers : ~ Reconciles(w, t)
    /\ row[t].status = Unresolved =>
          /\ \A v, w \in Workers :
                Reconciles(v, t) /\ Reconciles(w, t) => v = w
          /\ Asked(t) => \A w \in Workers : ~ Reconciles(w, t)

OnceInv ==
    /\ \A w \in Workers : Fits(w)
    /\ \A t \in Targets : RowIsTrue(t) /\ OneReconciler(t)
    /\ \A m \in queue : m.type = "reconcile" => ~ m.delayed

(* The calls made so far are paid from the attempts counted since the last *)
(* customer decision, and before its call a lease has one to spare.        *)
Purse(t) == MaxAttempts * retries + row[t].attempts

Uncalled(t) ==
    /\ row[t].status = "publishing"
    /\ \A w \in Workers : Holder(w, t) => ~ worker[w].asked

Paid(t) ==
    /\ calls[t] \leq Purse(t)
    /\ Uncalled(t) => calls[t] + 1 \leq Purse(t)

CallsArePaid == \A t \in Targets : Paid(t)

-----------------------------------------------------------------------------
(* What a step that makes no call and reaches no verdict preserves.        *)

Loose == { "pending", "scheduled", "awaiting_approval", "queued",
           "preparing_media", "retryable_failed" }

LEMMA StatusSplits ==
    ASSUME NEW s \in TargetStatus
    PROVE  \/ s \in Loose \/ s \in Settled
           \/ s = "publishing" \/ s = Unresolved
BY DEF TargetStatus, Loose, Settled, TerminalTargetStatus, Unresolved

(* The row keeps its place; a lease may run out once nobody holds it.      *)
Kept(t) ==
    /\ row'[t].status = row[t].status
    /\ row'[t].lease = row[t].lease
    /\ row'[t].simulated = row[t].simulated
    /\ row'[t].expired => row[t].expired \/ \A w \in Workers : ~ Holder(w, t)

(* The row goes where work may start again, or is cancelled.               *)
Freed(t) ==
    /\ row[t].status \in Loose \cup { "publishing" }
    /\ \A w \in Workers : ~ Holder(w, t)
    /\ row'[t].status \in Loose \cup { "cancelled" }
    /\ row'[t].lease = NoLease
    /\ row'[t].simulated = row[t].simulated

(* w holds no more than it did and still records what it recorded.         *)
Carries(w) ==
    \A t \in Targets :
        /\ Holder(w, t)' => Holder(w, t)
        /\ Records(w, t) /\ row'[t].lease = row[t].lease => Records(w, t)'

StartsNoSearch(w) == \A t \in Targets : Reconciles(w, t)' => Reconciles(w, t)

LEMMA Typed ==
    ASSUME IInv
    PROVE  /\ worker \in [Workers -> Working] /\ row \in [Targets -> Row]
           /\ \A w \in Workers : /\ worker[w] \in Working
                                 /\ worker[w].target \in Targets
                                 /\ worker[w].out \in Outcome
                                 /\ worker[w].step \in Step
           /\ \A t \in Targets : row[t] \in Row /\ row[t].status \in TargetStatus
           /\ live \in [Targets -> Nat] /\ calls \in [Targets -> Nat]
           /\ retries \in Nat
BY BoundsAssumption DEF IInv, WorkersInv, RowsInv, RestInv, Working, Row

(* The row of a holder is publishing, and it has one holder.               *)
LEMMA HolderPublishes ==
    ASSUME IInv, NEW t \in Targets, NEW w \in Workers, Holder(w, t)
    PROVE  /\ row[t].status = "publishing"
           /\ \A v \in Workers : Holder(v, t) => v = w
BY DEF IInv, RowsInv, WorkersInv, LeaseIffPublishing, LeasesDistinct, Holder

LEMMA FrameRows ==
    ASSUME IInv, OnceInv, NEW w \in Workers,
           \A v \in Workers \ {w} : worker'[v] = worker[v],
           worker'[w] = worker[w] \/ (Fits(w)' /\ Carries(w)),
           \A t \in Targets : Kept(t) \/ Freed(t),
           live' = live,
           \A t \in Targets : t \in metered' => t \in metered \/ live[t] > 0
    PROVE  /\ \A v \in Workers : Fits(v)'
           /\ \A t \in Targets : RowIsTrue(t)'
<1>1. \A v \in Workers, t \in Targets :
         /\ Holder(v, t)' => Holder(v, t)
         /\ Records(v, t) /\ row'[t].lease = row[t].lease => Records(v, t)'
  <2>1. TAKE v \in Workers, t \in Targets
  <2>2. CASE v = w /\ Carries(w)
    BY <2>2 DEF Carries
  <2>3. CASE worker'[v] = worker[v]
    <3>1. row[t].lease # row'[t].lease => row'[t].lease = NoLease
      BY DEF Kept, Freed
    <3>2. QED
      BY <2>3, <3>1 DEF Holder, Records
  <2>4. QED
    BY <2>2, <2>3
<1>2. ASSUME NEW v \in Workers
      PROVE  Fits(v)'
  <2>1. CASE v = w /\ Fits(w)'
    BY <2>1
  <2>2. CASE worker'[v] = worker[v]
    <3> DEFINE t == worker[v].target
    <3>1. worker'[v] = worker[v] /\ t \in Targets /\ Fits(v)
      BY <2>2, Typed DEF OnceInv
    <3>2. LeaseFits(v)'
      <4>1. CASE worker[v].lease # NoLease /\ row[t].lease = worker[v].lease
        <5>1. row'[t].lease = row[t].lease
          BY <3>1, <4>1 DEF Kept, Freed, Holder
        <5>2. QED
          BY <3>1, <4>1, <5>1, HolderPublishes
             DEF Fits, LeaseFits, Holder
      <4>2. CASE ~ (worker[v].lease # NoLease /\ row[t].lease = worker[v].lease)
        <5>1. row[t].status \in { "published", "provider_processing" } =>
                 row'[t].status = row[t].status
          BY <3>1 DEF Kept, Freed, Loose
        <5>2. QED
          BY <3>1, <4>2, <5>1 DEF Fits, LeaseFits
      <4>3. QED
        BY <4>1, <4>2
    <3>3. LocalsFit(v)'
      BY <3>1 DEF Fits, LocalsFit
    <3>4. VerdictFits(v)'
      <4>1. row'[t].status = Unresolved => row[t].status = Unresolved
        BY <3>1 DEF Kept, Freed, Loose, Unresolved
      <4>2. QED
        BY <3>1, <4>1 DEF Fits, VerdictFits
    <3>5. QED
      BY <3>2, <3>3, <3>4 DEF Fits
  <2>3. QED
    BY <2>1, <2>2
<1>3. ASSUME NEW t \in Targets
      PROVE  RowIsTrue(t)'
  <2>1. RowIsTrue(t)
    BY DEF OnceInv
  <2>2. CASE Kept(t)
    BY <1>1, <2>1, <2>2 DEF RowIsTrue, Kept
  <2>3. CASE Freed(t)
    <3>1. live[t] = 0
      BY <2>1, <2>3 DEF Freed, RowIsTrue, Loose, Records, Unresolved
    <3>2. ~ row'[t].simulated
      BY <2>1, <2>3 DEF Freed, RowIsTrue, Loose
    <3>3. t \notin metered'
      BY <2>1, <3>1 DEF RowIsTrue
    <3>4. \A v \in Workers : ~ Holder(v, t)'
      BY <1>1, <2>3 DEF Freed
    <3>5. live'[t] = 0 /\ row'[t].status \in Loose \cup { "cancelled" }
      BY <2>3, <3>1 DEF Freed
    <3>6. QED
      BY <3>2, <3>3, <3>4, <3>5 DEF RowIsTrue, Loose
  <2>4. QED
    BY <2>2, <2>3
<1>4. QED
  BY <1>2, <1>3

(* The same, when nothing begins or asks for a reconciliation.            *)
LEMMA Frame ==
    ASSUME IInv, OnceInv, NEW w \in Workers,
           \A v \in Workers \ {w} : worker'[v] = worker[v],
           \/ worker'[w] = worker[w]
           \/ Fits(w)' /\ Carries(w) /\ StartsNoSearch(w),
           \A t \in Targets : Kept(t) \/ Freed(t),
           live' = live,
           \A t \in Targets : t \in metered' => t \in metered \/ live[t] > 0,
           \A m \in queue' : m.type = "reconcile" => m \in queue
    PROVE  OnceInv'
<1>1. \A v \in Workers, t \in Targets :
         Reconciles(v, t)' => Reconciles(v, t)
  BY DEF Reconciles, StartsNoSearch
<1>0. worker'[w] = worker[w] \/ (Fits(w)' /\ Carries(w))
  OBVIOUS
<1>2. \A v \in Workers : Fits(v)'
  BY <1>0, FrameRows
<1>3. \A t \in Targets : RowIsTrue(t)'
  BY <1>0, FrameRows
<1>4. ASSUME NEW t \in Targets
      PROVE  OneReconciler(t)'
  <2>1. OneReconciler(t) /\ row[t].status \in TargetStatus
    BY Typed DEF OnceInv
  <2>2. Asked(t)' => Asked(t)
    BY DEF Asked, Message
  <2>3. CASE Kept(t)
    BY <1>1, <2>1, <2>2, <2>3 DEF OneReconciler, Kept
  <2>4. CASE Freed(t)
    <3>1. row[t].status \notin Settled \cup { Unresolved }
      BY <2>4 DEF Freed, Loose, Settled, TerminalTargetStatus, Unresolved
    <3>2. row'[t].status # Unresolved
      BY <2>4 DEF Freed, Loose, Unresolved
    <3>3. QED
      BY <1>1, <2>1, <2>2, <3>1, <3>2 DEF OneReconciler
  <2>5. QED
    BY <2>3, <2>4
<1>5. \A m \in queue' : m.type = "reconcile" => ~ m.delayed
  BY DEF OnceInv
<1>6. QED
  BY <1>2, <1>3, <1>4, <1>5 DEF OnceInv

-----------------------------------------------------------------------------
(* The ways a worker moves on.                                             *)

LEMMA OutcomeShape ==
    ASSUME NEW s \in Working, NEW out \in Outcome, NEW result,
           result = WithOutcome(s, out)
    PROVE  /\ result.target = s.target /\ result.lease = s.lease
           /\ result.asked = s.asked /\ result.job = s.job
           /\ result.out = out /\ result.step \in { "mark", "finish" }
           /\ result.step = "finish" => ~ Succeeded(out)
<1> DEFINE step == IF s.opened /\ ~ Succeeded(out) THEN "finish" ELSE "mark"
<1>1. step \in { "mark", "finish" } /\ (step = "finish" => ~ Succeeded(out))
  OBVIOUS
<1>2. result = [s EXCEPT !.out = out, !.number = 0, !.step = step]
  BY Zenon DEF WithOutcome
<1> HIDE DEF step
<1>3. QED
  BY <1>1, <1>2 DEF Working

(* Advance: done, or a failure that is on the row, or one step further.    *)
LEMMA AdvanceShape ==
    ASSUME IInv, NEW w \in Workers, Advance(w),
           NEW next, next = After(worker[w].step, worker[w].out)
    PROVE  /\ \A v \in Workers \ {w} : worker'[v] = worker[v]
           /\ \/ next = "idle" /\ worker'[w] = Idle
              \/ /\ next # "idle"
                 /\ worker[w].step = "mark" /\ ~ Succeeded(worker[w].out)
                 /\ worker'[w].step = next /\ worker'[w].out = worker[w].out
                 /\ worker'[w].target = worker[w].target
                 /\ worker'[w].lease = NoLease /\ ~ worker'[w].asked
                 /\ worker'[w].job = "target"
              \/ /\ next # "idle"
                 /\ ~ (worker[w].step = "mark" /\ ~ Succeeded(worker[w].out))
                 /\ worker'[w].step = next /\ worker'[w].out = worker[w].out
                 /\ worker'[w].target = worker[w].target
                 /\ worker'[w].lease = worker[w].lease
                 /\ worker'[w].asked = worker[w].asked
                 /\ worker'[w].job = worker[w].job
<1>1. worker[w] \in Working /\ worker \in [Workers -> Working]
  BY Typed
<1>2. CASE next = "idle"
  BY <1>1, <1>2 DEF Advance
<1>3. CASE next # "idle" /\ worker[w].step = "mark"
                         /\ ~ Succeeded(worker[w].out)
  <2>1. worker' = [worker EXCEPT ![w] =
           [Idle EXCEPT !.step = next, !.target = worker[w].target,
                        !.out = worker[w].out, !.batch = worker[w].batch]]
    BY <1>3 DEF Advance
  <2>2. QED
    BY <1>1, <1>3, <2>1 DEF Idle
<1>4. CASE next # "idle" /\ ~ (worker[w].step = "mark"
                               /\ ~ Succeeded(worker[w].out))
  <2>1. worker' = [worker EXCEPT ![w] = [worker[w] EXCEPT !.step = next]]
    BY <1>4 DEF Advance
  <2>2. QED
    BY <1>1, <1>4, <2>1 DEF Working
<1>5. QED
  BY <1>2, <1>3, <1>4

LEMMA IdleFits ==
    ASSUME IInv, NEW w \in Workers, worker'[w] = Idle
    PROVE  Fits(w)'
<1>1. /\ worker'[w].step = "idle" /\ worker'[w].lease = NoLease
      /\ worker'[w].out = "none" /\ ~ worker'[w].asked
      /\ worker'[w].job = "target"
  BY DEF Idle
<1>2. QED
  BY <1>1 DEF Fits, LeaseFits, LocalsFit, VerdictFits, Early

LEMMA IdleCarriesNothing ==
    ASSUME NEW w \in Workers, worker'[w] = Idle
    PROVE  \A t \in Targets : ~ Holder(w, t)' /\ ~ Reconciles(w, t)'
BY DEF Idle, Holder, Reconciles

(* A worker that goes from a step of the try block to an outcome it may    *)
(* have, with the row as it is.                                            *)
LEMMA OutcomeFits ==
    ASSUME IInv, OnceInv, NEW w \in Workers, NEW out \in Outcome,
           worker' = [worker EXCEPT ![w] = WithOutcome(@, out)],
           row' = row, live' = live,
           worker[w].lease # NoLease,
           out \notin { "published", "processing", "found" },
           out \in { "released", "simulated" } => ~ worker[w].asked,
           worker[w].step \in Early \/ out = "unknown"
    PROVE  /\ \A v \in Workers \ {w} : worker'[v] = worker[v]
           /\ Fits(w)' /\ Carries(w) /\ StartsNoSearch(w)
<1>1. worker[w] \in Working /\ worker \in [Workers -> Working] /\ Fits(w)
  BY Typed DEF OnceInv
<1>2. worker'[w] = WithOutcome(worker[w], out)
  BY <1>1
<1>3. /\ worker'[w].target = worker[w].target
      /\ worker'[w].lease = worker[w].lease
      /\ worker'[w].asked = worker[w].asked
      /\ worker'[w].job = worker[w].job
      /\ worker'[w].out = out /\ worker'[w].step \in { "mark", "finish" }
      /\ worker'[w].step = "finish" => ~ Succeeded(out)
  BY <1>1, <1>2, OutcomeShape
<1>4. worker[w].job # "reconcile"
  BY <1>1 DEF Fits, VerdictFits, LeaseFits, LocalsFit, Early
<1>5. Fits(w)'
  BY <1>1, <1>3, <1>4
     DEF Fits, LeaseFits, LocalsFit, VerdictFits, Early
<1>6. Carries(w) /\ StartsNoSearch(w)
  BY <1>1, <1>3 DEF Carries, StartsNoSearch, Holder, Records, Reconciles,
                    Fits, LocalsFit
<1>7. QED
  BY <1>1, <1>5, <1>6

(* The steps after the row is written, and the second of the two awaits of *)
(* a failure: an advance that leaves the row as it is.                     *)
LEMMA AdvanceFits ==
    ASSUME IInv, OnceInv, NEW w \in Workers, Advance(w),
           worker[w].step \in { "finish", "meter", "send", "recalc" },
           row' = row, live' = live
    PROVE  /\ \A v \in Workers \ {w} : worker'[v] = worker[v]
           /\ Fits(w)' /\ Carries(w) /\ StartsNoSearch(w)
<1> DEFINE next == After(worker[w].step, worker[w].out)
           t == worker[w].target
<1>1. /\ Fits(w) /\ t \in Targets /\ worker[w].out \in Outcome
      /\ worker[w] \in Working
  BY Typed DEF OnceInv
<1>2. /\ next \in { "idle", "mark", "meter", "send", "recalc" }
      /\ next = "mark" =>
            worker[w].step = "finish" /\ ~ Succeeded(worker[w].out)
      /\ next = "send" => worker[w].out = "processing"
      /\ worker[w].step = "finish" /\ ~ Succeeded(worker[w].out) =>
            next = "mark"
      /\ next = "meter" =>
            worker[w].step = "finish" /\ worker[w].out = "published"
  BY <1>1 DEF After, Outcome, Succeeded
<1> HIDE DEF next
<1>3. /\ \A v \in Workers \ {w} : worker'[v] = worker[v]
      /\ \/ next = "idle" /\ worker'[w] = Idle
         \/ /\ next # "idle"
            /\ worker'[w].step = next /\ worker'[w].out = worker[w].out
            /\ worker'[w].target = t
            /\ worker'[w].lease = worker[w].lease
            /\ worker'[w].asked = worker[w].asked
            /\ worker'[w].job = worker[w].job
  BY AdvanceShape DEF next
<1>4. Holder(w, t) => worker[w].step = "finish" /\ ~ Succeeded(worker[w].out)
  BY <1>1, HolderPublishes DEF Fits, LeaseFits, Holder, Early
<1>5. CASE next = "idle"
  <2>1. ~ Holder(w, t)
    BY <1>2, <1>4, <1>5
  <2>2. Carries(w) /\ StartsNoSearch(w)
    BY <1>3, <1>5, <2>1, IdleCarriesNothing
       DEF Carries, StartsNoSearch, Holder, Records
  <2>3. QED
    BY <1>3, <1>5, <2>2, IdleFits
<1>6. CASE next # "idle"
  <2>1. LeaseFits(w)'
    BY <1>1, <1>2, <1>3, <1>4, <1>6 DEF Fits, LeaseFits, Early, Holder
  <2>2. LocalsFit(w)'
    BY <1>1, <1>2, <1>3, <1>6 DEF Fits, LocalsFit, Early
  <2>3. VerdictFits(w)'
    BY <1>1, <1>2, <1>3, <1>6 DEF Fits, VerdictFits
  <2>4. Carries(w) /\ StartsNoSearch(w)
    BY <1>2, <1>3, <1>6
       DEF Carries, StartsNoSearch, Holder, Records, Reconciles
  <2>5. QED
    BY <1>3, <2>1, <2>2, <2>3, <2>4 DEF Fits
<1>7. QED
  BY <1>5, <1>6

-----------------------------------------------------------------------------
(* The steps of a handler that leave the rows alone.                       *)

LEMMA SameRows ==
    ASSUME row' = row
    PROVE  \A t \in Targets : Kept(t)
BY DEF Kept

(* A worker whose outcome cannot be a success.                             *)
LEMMA OutcomeStep ==
    ASSUME IInv, OnceInv, NEW w \in Workers, NEW out \in Outcome,
           worker' = [worker EXCEPT ![w] = WithOutcome(@, out)],
           row' = row, live' = live, metered' = metered, queue' = queue,
           worker[w].lease # NoLease,
           out \notin { "published", "processing", "found" },
           out \in { "released", "simulated" } => ~ worker[w].asked,
           worker[w].step \in Early \/ out = "unknown"
    PROVE  OnceInv'
BY OutcomeFits, SameRows, Frame

LEMMA LoadContextOnce ==
    ASSUME IInv, OnceInv, NEW w \in Workers, LoadContext(w)
    PROVE  OnceInv'
<1>1. /\ row' = row /\ live' = live /\ metered' = metered /\ queue' = queue
      /\ worker[w].step = "load"
  BY DEF LoadContext, database, provider, At
<1>2. /\ Fits(w) /\ worker[w].lease # NoLease /\ ~ worker[w].asked
      /\ worker[w] \in Working /\ worker \in [Workers -> Working]
  BY <1>1, Typed DEF OnceInv, Fits, LocalsFit, Early
<1>3. ASSUME NEW out \in BlockedAs \cup { "released" },
             worker' = [worker EXCEPT ![w] = WithOutcome(@, out)]
      PROVE  OnceInv'
  BY <1>1, <1>2, <1>3, OutcomeStep DEF BlockedAs, Outcome, Early
<1>4. ASSUME NEW out \in { "simulated", "none" },
             worker' = [worker EXCEPT ![w] =
                          [@ EXCEPT !.out = out, !.step = "attempt"]]
      PROVE  OnceInv'
  <2>1. worker'[w] = [worker[w] EXCEPT !.out = out, !.step = "attempt"]
    BY <1>2, <1>4
  <2>2. /\ worker'[w].target = worker[w].target
        /\ worker'[w].lease = worker[w].lease
        /\ worker'[w].asked = worker[w].asked
        /\ worker'[w].job = worker[w].job
        /\ worker'[w].out = out /\ worker'[w].step = "attempt"
    BY <1>2, <2>1 DEF Working
  <2>3. Fits(w)'
    BY <1>1, <1>2, <2>2 DEF Fits, LeaseFits, LocalsFit, VerdictFits, Early
  <2>4. Carries(w) /\ StartsNoSearch(w)
    BY <1>1, <1>2, <2>2
       DEF Carries, StartsNoSearch, Holder, Records, Reconciles
  <2>5. QED
    BY <1>1, <1>4, <2>3, <2>4, SameRows, Frame
<1>5. QED
  BY <1>3, <1>4 DEF LoadContext

LEMMA StartAttemptOnce ==
    ASSUME IInv, OnceInv, NEW w \in Workers, StartAttempt(w)
    PROVE  OnceInv'
<1> DEFINE step == IF worker[w].out = "simulated" THEN "mark" ELSE "call"
<1>1. /\ row' = row /\ live' = live /\ metered' = metered /\ queue' = queue
      /\ worker[w].step = "attempt"
  BY DEF StartAttempt, provider, At
<1>2. /\ Fits(w) /\ worker[w].lease # NoLease /\ ~ worker[w].asked
      /\ worker[w] \in Working /\ worker \in [Workers -> Working]
  BY <1>1, Typed DEF OnceInv, Fits, LocalsFit, Early
<1>3. worker' = [worker EXCEPT ![w] =
                   [worker[w] EXCEPT !.opened = TRUE, !.number = 0,
                                     !.step = step]]
  BY <1>2 DEF StartAttempt
<1>4. step \in { "mark", "call" }
  OBVIOUS
<1> HIDE DEF step
<1>5. /\ worker'[w].target = worker[w].target
      /\ worker'[w].lease = worker[w].lease
      /\ worker'[w].asked = worker[w].asked
      /\ worker'[w].job = worker[w].job
      /\ worker'[w].out = worker[w].out /\ worker'[w].step = step
  BY <1>2, <1>3 DEF Working
<1>6. Fits(w)'
  BY <1>1, <1>2, <1>4, <1>5
     DEF Fits, LeaseFits, LocalsFit, VerdictFits, Early
<1>7. Carries(w) /\ StartsNoSearch(w)
  BY <1>1, <1>2, <1>4, <1>5
     DEF Carries, StartsNoSearch, Holder, Records, Reconciles
<1>8. QED
  BY <1>1, <1>2, <1>3, <1>6, <1>7, SameRows, Frame

LEMMA PrepareFailsOnce ==
    ASSUME IInv, OnceInv, NEW w \in Workers, PrepareFails(w)
    PROVE  OnceInv'
<1>1. /\ row' = row /\ live' = live /\ metered' = metered /\ queue' = queue
      /\ worker[w].step = "call"
  BY DEF PrepareFails, database, provider, At
<1>2. worker[w].lease # NoLease
  BY <1>1 DEF OnceInv, Fits, LocalsFit, Early
<1>3. PICK out \in { "permanent", "retryable", "unknown" } :
         worker' = [worker EXCEPT ![w] = WithOutcome(@, out)]
  BY DEF PrepareFails
<1>4. QED
  BY <1>1, <1>2, <1>3, OutcomeStep DEF Outcome, Early

(* The catch block: the outcome may be any success, and is now unknown.    *)
LEMMA CatchErrorOnce ==
    ASSUME IInv, OnceInv, NEW w \in Workers, CatchError(w)
    PROVE  OnceInv'
<1>1. /\ row' = row /\ live' = live /\ metered' = metered /\ queue' = queue
      /\ worker[w].out \in { "published", "processing" }
  BY DEF CatchError, database, provider
<1>2. worker[w].lease # NoLease
  BY <1>1 DEF IInv, WorkersInv, Shaped, Succeeded
<1>3. worker' = [worker EXCEPT ![w] = WithOutcome(@, "unknown")]
  BY DEF CatchError
<1>4. "unknown" \in Outcome
  BY DEF Outcome
<1>5. QED
  BY <1>1, <1>2, <1>3, <1>4, OutcomeStep

LEMMA TailOnce ==
    ASSUME IInv, OnceInv, NEW w \in Workers,
           Finish(w) \/ Meter(w) \/ Recalculate(w)
    PROVE  OnceInv'
<1>1. /\ row' = row /\ live' = live /\ queue' = queue /\ Advance(w)
      /\ worker[w].step \in { "finish", "meter", "recalc" }
      /\ worker[w].step # "meter" => metered' = metered
      /\ metered' \subseteq metered \cup { worker[w].target }
  BY DEF Finish, Meter, Recalculate, database, provider, At, Target
<1>2. worker[w].step = "meter" => live[worker[w].target] > 0
  BY <1>1 DEF OnceInv, Fits, LocalsFit
<1>3. QED
  BY <1>1, <1>2, AdvanceFits, SameRows, Frame

-----------------------------------------------------------------------------
(* The provider call.                                                      *)

LEMMA CallProviderOnce ==
    ASSUME IInv, OnceInv, OutcomesAreRecorded,
           NEW w \in Workers, CallProvider(w)
    PROVE  OnceInv'
<1> DEFINE t == worker[w].target
           asked == [worker[w] EXCEPT !.asked = TRUE]
<1>1. /\ row' = row /\ metered' = metered /\ queue' = queue
      /\ worker[w].step = "call"
  BY DEF CallProvider, database, At
<1>2. /\ Fits(w) /\ worker[w].lease # NoLease /\ ~ worker[w].asked
      /\ worker[w] \in Working /\ worker \in [Workers -> Working]
      /\ t \in Targets /\ live \in [Targets -> Nat]
  BY <1>1, Typed DEF OnceInv, Fits, LocalsFit, Early
<1>3. Holder(w, t)
  BY <1>1, <1>2 DEF Fits, LeaseFits, Early, Holder
<1>4. /\ row[t].status = "publishing"
      /\ \A v \in Workers : Holder(v, t) => v = w
  BY <1>2, <1>3, HolderPublishes
<1>5. live[t] = 0
  BY <1>2, <1>4 DEF OnceInv, RowIsTrue, Records, Unresolved
<1>6. PICK out \in Outcome :
         /\ worker' = [worker EXCEPT ![w] = WithOutcome(asked, out)]
         /\ \/ /\ live' = [live EXCEPT ![t] = live[t] + 1]
               /\ out \in { "published", "processing", "unknown" }
            \/ /\ live' = live
               /\ out \in { "unknown", "permanent", "retryable" }
  BY <1>2 DEF CallProvider, OutcomesAreRecorded, TakenAs, RefusedAs, Outcome,
              Target
<1>7. asked \in Working /\ asked.target = t /\ asked.asked
      /\ asked.lease = worker[w].lease /\ asked.job = worker[w].job
  BY <1>2 DEF Working
<1> HIDE DEF asked
<1>8. worker'[w] = WithOutcome(asked, out)
  BY <1>2, <1>6
<1>9. /\ worker'[w].target = t /\ worker'[w].lease = worker[w].lease
      /\ worker'[w].asked /\ worker'[w].job = worker[w].job
      /\ worker'[w].out = out /\ worker'[w].step \in { "mark", "finish" }
      /\ worker'[w].step = "finish" => ~ Succeeded(out)
  BY <1>7, <1>8, OutcomeShape
<1>10. \A v \in Workers \ {w} : worker'[v] = worker[v]
  BY <1>2, <1>6
<1>11. /\ \A u \in Targets \ {t} : live'[u] = live[u]
       /\ live'[t] \in { 0, 1 }
       /\ live'[t] = 1 <=> live' # live
  BY <1>2, <1>5, <1>6
<1>12. Fits(w)'
  <2>1. LeaseFits(w)'
    BY <1>1, <1>2, <1>3, <1>9 DEF LeaseFits, Early, Holder
  <2>2. LocalsFit(w)'
    BY <1>2, <1>5, <1>6, <1>9 DEF LocalsFit, Early
  <2>3. VerdictFits(w)'
    BY <1>1, <1>2, <1>9 DEF Fits, VerdictFits
  <2>4. QED
    BY <2>1, <2>2, <2>3 DEF Fits
<1>13. ASSUME NEW v \in Workers \ {w}
       PROVE  Fits(v)'
  <2>1. Fits(v) /\ worker'[v] = worker[v] /\ worker[v].target \in Targets
    BY <1>10, Typed DEF OnceInv
  <2>2. live'[worker[v].target] \geq live[worker[v].target]
    BY <1>2, <1>5, <1>11, <2>1
  <2>3. LeaseFits(v)' /\ LocalsFit(v)'
    BY <1>1, <1>2, <1>11, <2>1, <2>2 DEF Fits, LeaseFits, LocalsFit
  <2>4. VerdictFits(v)'
    BY <1>1, <1>4, <1>11, <2>1 DEF Fits, VerdictFits, Unresolved
  <2>5. QED
    BY <2>3, <2>4 DEF Fits
<1>14. ASSUME NEW u \in Targets
       PROVE  RowIsTrue(u)'
  <2>1. RowIsTrue(u)
    BY DEF OnceInv
  <2>2. \A v \in Workers : Holder(v, u)' <=> Holder(v, u)
    BY <1>1, <1>9, <1>10 DEF Holder
  <2>3. CASE u # t
    <3>1. \A v \in Workers : Records(v, u) => Records(v, u)'
      BY <1>3, <1>9, <1>10, <2>2, <2>3 DEF Records, Holder
    <3>2. QED
      BY <1>1, <1>11, <2>1, <2>2, <2>3, <3>1 DEF RowIsTrue
  <2>4. CASE u = t
    <3>1. live'[u] = 1 => Records(w, u)'
      BY <1>3, <1>6, <1>9, <1>11, <2>2, <2>4 DEF Records
    <3>2. ~ row[t].expired /\ ~ row[t].simulated /\ t \notin metered
      BY <1>3, <1>4, <1>5, <2>1, <2>4 DEF RowIsTrue
    <3>3. QED
      <4>1. row'[u].status = "publishing" /\ live'[u] \in { 0, 1 }
        BY <1>1, <1>4, <1>11, <2>4
      <4>2. ~ row'[u].expired /\ ~ row'[u].simulated /\ u \notin metered'
        BY <1>1, <2>4, <3>2
      <4>3. QED
        BY <3>1, <4>1, <4>2 DEF RowIsTrue
  <2>5. QED
    BY <2>3, <2>4
<1>15. ASSUME NEW u \in Targets
       PROVE  OneReconciler(u)'
  <2>1. OneReconciler(u) /\ (Asked(u)' <=> Asked(u))
    BY <1>1 DEF OnceInv, Asked, Message
  <2>2. \A v \in Workers : Reconciles(v, u)' => Reconciles(v, u)
    BY <1>9, <1>10 DEF Reconciles
  <2>3. QED
    BY <1>1, <2>1, <2>2 DEF OneReconciler
<1>16. QED
  BY <1>1, <1>12, <1>13, <1>14, <1>15 DEF OnceInv

-----------------------------------------------------------------------------
(* Writing an outcome.                                                     *)

(* What Advance makes of a worker that has just tried to write.            *)
LEMMA MarkShape ==
    ASSUME IInv, OnceInv, NEW w \in Workers, Mark(w)
    PROVE  /\ \A v \in Workers \ {w} : worker'[v] = worker[v]
           /\ worker'[w].target = worker[w].target
           /\ worker'[w].out = worker[w].out
           /\ worker'[w].job # "reconcile"
           /\ worker[w].lease # NoLease
           /\ \/ /\ Succeeded(worker[w].out)
                 /\ worker'[w].step = "finish"
                 /\ worker'[w].lease = worker[w].lease
                 /\ worker'[w].asked = worker[w].asked
              \/ /\ ~ Succeeded(worker[w].out)
                 /\ worker'[w].step \in { "send", "recalc" }
                 /\ worker'[w].lease = NoLease
                 /\ ~ worker'[w].asked
<1> DEFINE next == After(worker[w].step, worker[w].out)
<1>1. /\ worker[w].step = "mark" /\ Advance(w) /\ Fits(w)
      /\ worker[w].out \in Outcome
  BY Typed DEF Mark, At, OnceInv
<1>2. /\ Succeeded(worker[w].out) => next = "finish"
      /\ ~ Succeeded(worker[w].out) => next \in { "send", "recalc" }
  BY <1>1 DEF After
<1>3. worker[w].lease # NoLease
  BY <1>1 DEF IInv, WorkersInv, Shaped
<1>4. worker[w].job # "reconcile"
  BY <1>1, <1>3 DEF Fits, VerdictFits
<1> HIDE DEF next
<1>5. QED
  BY <1>1, <1>2, <1>3, <1>4, AdvanceShape DEF next

(* The row has moved on under its own worker, which goes on regardless:    *)
(* its guarded statement finds no row.                                     *)
LEMMA MarkLateOnce ==
    ASSUME IInv, OnceInv, NEW w \in Workers, Mark(w), ~ HoldsLease(w)
    PROVE  OnceInv'
<1>1. /\ row' = row /\ live' = live /\ metered' = metered /\ queue' = queue
  BY DEF Mark, provider
<1>2. PICK t \in Targets : t = worker[w].target
  BY Typed
<1>3. Fits(w) /\ worker[w].lease # NoLease /\ row[t].lease # worker[w].lease
  BY <1>2, MarkShape DEF OnceInv, HoldsLease, Target
<1>4. row[t].status \in { "published", "provider_processing" }
  BY <1>2, <1>3 DEF Fits, LeaseFits
<1>5. Fits(w)'
  <2>1. LeaseFits(w)' /\ LocalsFit(w)'
    BY <1>1, <1>2, <1>3, <1>4, MarkShape DEF Fits, LeaseFits, LocalsFit, Early
  <2>2. VerdictFits(w)'
    BY MarkShape DEF VerdictFits
  <2>3. QED
    BY <2>1, <2>2 DEF Fits
<1>6. Carries(w)
  BY <1>1, <1>2, <1>3, MarkShape DEF Carries, Holder, Records
<1>7. /\ \A v \in Workers : Fits(v)'
      /\ \A u \in Targets : RowIsTrue(u)'
  BY <1>1, <1>5, <1>6, MarkShape, SameRows, FrameRows
<1>8. ASSUME NEW u \in Targets
      PROVE  OneReconciler(u)'
  <2>1. OneReconciler(u) /\ (Asked(u)' <=> Asked(u))
    BY <1>1 DEF OnceInv, Asked, Message
  <2>2. CASE u = t
    BY <1>1, <1>4, <2>2
       DEF OneReconciler, Settled, TerminalTargetStatus, Unresolved
  <2>3. CASE u # t
    <3>1. \A v \in Workers : Reconciles(v, u)' => Reconciles(v, u)
      BY <1>2, <2>3, MarkShape DEF Reconciles
    <3>2. QED
      BY <1>1, <2>1, <3>1 DEF OneReconciler
  <2>4. QED
    BY <2>2, <2>3
<1>9. QED
  BY <1>1, <1>7, <1>8 DEF OnceInv

(* The holder of the lease writes what it knows: the row it finds, the row *)
(* it leaves, and what the provider has by then.                           *)
LEMMA MarkedTruly ==
    ASSUME IInv, OnceInv, NEW w \in Workers, Mark(w), HoldsLease(w),
           NEW t \in Targets, t = worker[w].target,
           NEW out \in Outcome, out = worker[w].out
    PROVE  /\ row[t].status = "publishing"
           /\ \A v \in Workers : Holder(v, t) => v = w
           /\ Holder(w, t) /\ Fits(w)
           /\ row'[t].status = StatusFor(out) /\ row'[t].lease = NoLease
           /\ ~ row'[t].expired
           /\ row'[t].simulated <=> out = "simulated"
           /\ \A u \in Targets \ {t} : row'[u] = row[u]
           /\ live[t] \in { 0, 1 }
           /\ live[t] = 1 => worker[w].asked /\ out \in
                                { "published", "processing", "unknown" }
           /\ out \in { "published", "processing", "found" } => live[t] = 1
           /\ out = "simulated" => live[t] = 0
           /\ t \in metered => live[t] = 1
<1>4. Fits(w) /\ Holder(w, t)
  BY MarkShape DEF OnceInv, HoldsLease, Target, Holder
<1>5. /\ row[t].status = "publishing" /\ row[t] \in Row
      /\ \A v \in Workers : Holder(v, t) => v = w
      /\ RowIsTrue(t)
  BY <1>4, HolderPublishes, Typed DEF OnceInv
<1>6. /\ row'[t] = Marked(row[t], out)
      /\ \A u \in Targets \ {t} : row'[u] = row[u]
  BY Typed DEF Mark, Target
<1>7. /\ row'[t].status = StatusFor(out) /\ row'[t].lease = NoLease
      /\ ~ row'[t].expired
      /\ row'[t].simulated <=> out = "simulated"
  <2>1. ~ row[t].simulated
    BY <1>5 DEF RowIsTrue
  <2>2. QED
    BY <1>6, <2>1 DEF Marked
<1>8. live[t] = 1 =>
         worker[w].asked /\ out \in { "published", "processing", "unknown" }
  BY <1>5 DEF RowIsTrue, Records, Unresolved
<1>9. /\ live[t] \in { 0, 1 }
      /\ out \in { "published", "processing", "found" } => live[t] = 1
      /\ out = "simulated" => live[t] = 0
      /\ t \in metered => live[t] = 1
  BY <1>4, <1>5, <1>8 DEF Fits, LocalsFit, RowIsTrue
<1>10. QED
  BY <1>4, <1>5, <1>6, <1>7, <1>8, <1>9

LEMMA MarkHeldOnce ==
    ASSUME IInv, OnceInv, NEW w \in Workers, Mark(w), HoldsLease(w)
    PROVE  OnceInv'
<1>1. /\ live' = live /\ metered' = metered /\ queue' = queue
      /\ worker[w].step = "mark"
  BY DEF Mark, provider, At
<1>2. PICK t \in Targets : t = worker[w].target
  BY Typed
<1>3. PICK out \in Outcome : out = worker[w].out
  BY Typed
<1>4. Fits(w) /\ Holder(w, t)
  BY <1>2, <1>3, MarkedTruly
<1>5. /\ row[t].status = "publishing"
      /\ \A v \in Workers : Holder(v, t) => v = w
      /\ RowIsTrue(t) /\ OneReconciler(t)
  BY <1>2, <1>3, MarkedTruly DEF OnceInv
<1>6. \A u \in Targets \ {t} : row'[u] = row[u]
  BY <1>2, <1>3, MarkedTruly
<1>7. /\ row'[t].status = StatusFor(out) /\ row'[t].lease = NoLease
      /\ ~ row'[t].expired
      /\ row'[t].simulated <=> out = "simulated"
  BY <1>2, <1>3, MarkedTruly
<1>8. live[t] = 1 =>
         worker[w].asked /\ out \in { "published", "processing", "unknown" }
  BY <1>2, <1>3, MarkedTruly
<1>9. /\ live[t] \in { 0, 1 }
      /\ out \in { "published", "processing", "found" } => live[t] = 1
      /\ out = "simulated" => live[t] = 0
      /\ t \in metered => live[t] = 1
  BY <1>2, <1>3, MarkedTruly
<1>10. Fits(w)'
  <2>1. Succeeded(out) =>
           row'[t].status \in { "published", "provider_processing" }
    BY <1>7 DEF Succeeded, StatusFor
  <2>2. LeaseFits(w)'
    BY <1>2, <1>3, <2>1, MarkShape DEF LeaseFits, Early
  <2>3. LocalsFit(w)'
    BY <1>1, <1>2, <1>3, <1>4, MarkShape DEF Fits, LocalsFit, Early
  <2>4. VerdictFits(w)'
    BY MarkShape DEF VerdictFits
  <2>5. QED
    BY <2>2, <2>3, <2>4 DEF Fits
<1>11. ASSUME NEW v \in Workers \ {w}
       PROVE  Fits(v)'
  <2>1. /\ Fits(v) /\ worker'[v] = worker[v] /\ worker[v].target \in Targets
        /\ ~ Holder(v, t) /\ ~ Reconciles(v, t)
    BY <1>5, MarkShape, Typed
       DEF OnceInv, OneReconciler, Settled, TerminalTargetStatus, Unresolved
  <2>2. LeaseFits(v)'
    <3>1. worker[v].lease # NoLease => worker[v].target # t
      BY <1>5, <2>1 DEF Fits, LeaseFits, Holder
    <3>2. QED
      BY <1>6, <2>1, <3>1 DEF Fits, LeaseFits
  <2>3. LocalsFit(v)'
    BY <1>1, <2>1 DEF Fits, LocalsFit
  <2>4. VerdictFits(v)'
    BY <1>1, <1>6, <2>1 DEF Fits, VerdictFits, Reconciles
  <2>5. QED
    BY <2>2, <2>3, <2>4 DEF Fits
<1>12. ASSUME NEW u \in Targets
       PROVE  RowIsTrue(u)'
  <2>1. CASE u = t
    <3>1. live[t] = 1 =>
             row'[t].status \in { "published", "provider_processing",
                                  Unresolved }
      BY <1>7, <1>8 DEF StatusFor, Unresolved
    <3>2. /\ row'[t].status = "provider_processing" => out = "processing"
          /\ row'[t].status = "published" =>
                out \in { "published", "simulated", "found" }
          /\ out = "simulated" => row'[t].status = "published"
      BY <1>7 DEF StatusFor
    <3>3. QED
      BY <1>1, <1>7, <1>9, <2>1, <3>1, <3>2 DEF RowIsTrue
  <2>2. CASE u # t
    <3>1. \A v \in Workers : /\ Holder(v, u)' <=> Holder(v, u)
                             /\ Records(v, u)' <=> Records(v, u)
      BY <1>2, <1>6, <2>2, MarkShape DEF Holder, Records
    <3>2. RowIsTrue(u) /\ row'[u] = row[u]
      BY <1>6, <2>2 DEF OnceInv
    <3>3. QED
      BY <1>1, <3>1, <3>2 DEF RowIsTrue
  <2>3. QED
    BY <2>1, <2>2
<1>13. ASSUME NEW u \in Targets
       PROVE  OneReconciler(u)'
  <2>1. OneReconciler(u) /\ (Asked(u)' <=> Asked(u))
    BY <1>1 DEF OnceInv, Asked, Message
  <2>2. CASE u = t
    <3>1. ~ Asked(t) /\ \A v \in Workers : ~ Reconciles(v, t)
      BY <1>5 DEF OneReconciler, Settled, TerminalTargetStatus, Unresolved
    <3>2. \A v \in Workers : Reconciles(v, u)' => v = w /\ out = "unknown"
      BY <1>2, <1>3, <2>2, <3>1, MarkShape DEF Reconciles
    <3>3. out = "unknown" => row'[t].status = Unresolved
      BY <1>7 DEF StatusFor, Unresolved
    <3>4. QED
      BY <2>1, <2>2, <3>1, <3>2, <3>3 DEF OneReconciler
  <2>3. CASE u # t
    <3>1. \A v \in Workers : Reconciles(v, u)' => Reconciles(v, u)
      BY <1>2, <2>3, MarkShape DEF Reconciles
    <3>2. QED
      BY <1>6, <2>1, <2>3, <3>1 DEF OneReconciler
  <2>4. QED
    BY <2>2, <2>3
<1>14. QED
  BY <1>1, <1>10, <1>11, <1>12, <1>13 DEF OnceInv

-----------------------------------------------------------------------------
(* Reconciliation.                                                         *)

(* An idle worker holds nothing and searches for nothing.                  *)
LEMMA IdleHoldsNothing ==
    ASSUME IInv, OnceInv, NEW w \in Workers, worker[w].step = "idle"
    PROVE  \A t \in Targets : ~ Holder(w, t) /\ ~ Reconciles(w, t)
<1>1. ASSUME NEW t \in Targets, Holder(w, t)
      PROVE  FALSE
  BY <1>1, HolderPublishes DEF OnceInv, Fits, LeaseFits, Holder, Early
<1>2. QED
  BY <1>1 DEF Reconciles

(* The token of a reconciliation goes from the worker into the queue.      *)
LEMMA TokenReturns ==
    ASSUME IInv, OnceInv, NEW w \in Workers, NEW t \in Targets,
           Reconciles(w, t),
           \A v \in Workers \ {w} : worker'[v] = worker[v],
           \A u \in Targets : ~ Reconciles(w, u)',
           queue' = queue \cup { Message("reconcile", t) },
           row' = row
    PROVE  /\ \A u \in Targets : OneReconciler(u)'
           /\ \A m \in queue' : m.type = "reconcile" => ~ m.delayed
<1>1. \A v \in Workers, u \in Targets :
         Reconciles(v, u)' => v # w /\ Reconciles(v, u)
  BY DEF Reconciles
<1>2. ASSUME NEW u \in Targets
      PROVE  OneReconciler(u)'
  <2>1. OneReconciler(u)
    BY DEF OnceInv
  <2>2. CASE u # t
    <3>1. Asked(u)' => Asked(u)
      BY <2>2 DEF Asked, Message
    <3>2. QED
      BY <1>1, <2>1, <3>1 DEF OneReconciler
  <2>3. CASE u = t
    <3>1. row[t].status \in Settled \cup { Unresolved }
      BY <2>1, <2>3 DEF OneReconciler
    <3>2. row[t].status = Unresolved => \A v \in Workers : ~ Reconciles(v, u)'
      BY <1>1, <2>1, <2>3 DEF OneReconciler
    <3>3. QED
      BY <1>1, <2>3, <3>1, <3>2 DEF OneReconciler
  <2>4. QED
    BY <2>2, <2>3
<1>3. \A m \in queue' : m.type = "reconcile" => ~ m.delayed
  BY DEF OnceInv, Message
<1>4. QED
  BY <1>2, <1>3

LEMMA SearchOnce ==
    ASSUME IInv, OnceInv, NEW w \in Workers, Search(w)
    PROVE  OnceInv'
<1>1. /\ row' = row /\ live' = live /\ metered' = metered /\ queue' = queue
      /\ worker[w].step = "search"
  BY DEF Search, database, provider, At
<1>2. /\ Fits(w) /\ worker[w] \in Working
      /\ worker \in [Workers -> Working] /\ worker[w].target \in Targets
      /\ live \in [Targets -> Nat]
  BY Typed DEF OnceInv
<1> DEFINE verdict == IF live[worker[w].target] > 0 THEN "found" ELSE "absent"
<1>0. /\ verdict \in { "found", "absent" }
      /\ verdict = "found" => live[worker[w].target] > 0
      /\ verdict = "absent" => live[worker[w].target] = 0
  BY <1>2
<1>3. PICK out \in { "indeterminate", verdict } :
         worker' = [worker EXCEPT ![w] =
                      [@ EXCEPT !.out = out, !.step = "resolve"]]
  BY DEF Search, Target
<1> HIDE DEF verdict
<1>4. /\ worker'[w].target = worker[w].target
      /\ worker'[w].lease = worker[w].lease
      /\ worker'[w].asked = worker[w].asked
      /\ worker'[w].job = worker[w].job
      /\ worker'[w].out = out /\ worker'[w].step = "resolve"
  BY <1>2, <1>3 DEF Working
<1>5. Fits(w)'
  BY <1>0, <1>1, <1>2, <1>3, <1>4
     DEF Fits, LeaseFits, LocalsFit, VerdictFits, Early
<1>6. StartsNoSearch(w)
  BY <1>1, <1>4 DEF StartsNoSearch, Reconciles
<1>7. Carries(w)
  <2>1. \A t \in Targets : ~ Holder(w, t)
    BY <1>1, <1>2, HolderPublishes DEF Fits, LeaseFits, Holder, Early
  <2>2. \A t \in Targets : Holder(w, t)' => Holder(w, t)
    BY <1>1, <1>4 DEF Holder
  <2>3. QED
    BY <2>1, <2>2 DEF Carries, Records
<1>8. \A v \in Workers \ {w} : worker'[v] = worker[v]
  BY <1>2, <1>3
<1>9. QED
  BY <1>1, <1>5, <1>6, <1>7, <1>8, SameRows, Frame

(* What Advance makes of a worker that has just resolved.                  *)
LEMMA ResolveShape ==
    ASSUME IInv, OnceInv, NEW w \in Workers, Resolve(w)
    PROVE  /\ \A v \in Workers \ {w} : worker'[v] = worker[v]
           /\ worker[w].out \in { "found", "absent", "indeterminate" }
           /\ worker'[w].step \in { "send", "recalc" }
           /\ worker'[w].out = worker[w].out
           /\ worker'[w].target = worker[w].target
           /\ worker'[w].lease = worker[w].lease
           /\ worker'[w].asked = worker[w].asked
           /\ worker'[w].job = worker[w].job
<1>1. worker[w].step = "resolve" /\ Advance(w)
  BY DEF Resolve, At
<1>2. worker[w].out \in { "found", "absent", "indeterminate" }
  BY <1>1 DEF IInv, WorkersInv, Shaped
<1>3. After(worker[w].step, worker[w].out) \in { "send", "recalc" }
  BY <1>1, <1>2 DEF After
<1>4. QED
  BY <1>1, <1>2, <1>3, AdvanceShape

LEMMA ResolveOnce ==
    ASSUME IInv, OnceInv, NEW w \in Workers, Resolve(w)
    PROVE  OnceInv'
<1>1. /\ live' = live /\ metered' = metered /\ queue' = queue
      /\ worker[w].step = "resolve"
  BY DEF Resolve, provider, At
<1>2. PICK t \in Targets : t = worker[w].target
  BY Typed
<1>3. PICK out \in { "found", "absent", "indeterminate" } :
         out = worker[w].out
  BY ResolveShape
<1>4. Fits(w) /\ Reconciles(w, t)
  BY <1>1, <1>2 DEF OnceInv, Reconciles
<1>5. \A u \in Targets : ~ Holder(w, u) /\ ~ Reconciles(w, u)'
  <2>1. \A u \in Targets : ~ Holder(w, u)
    BY <1>1, <1>4, HolderPublishes DEF Fits, LeaseFits, Holder, Early
  <2>2. QED
    BY <1>3, <2>1, ResolveShape DEF Reconciles
<1>6. CASE row[t].status # Unresolved
  <2>1. row' = row
    BY <1>2, <1>6 DEF Resolve, Target, Unresolved
  <2>2. Fits(w)'
    BY <1>1, <1>3, <1>4, <2>1, ResolveShape
       DEF Fits, LeaseFits, LocalsFit, VerdictFits, Early
  <2>3. StartsNoSearch(w)
    BY <1>5 DEF StartsNoSearch
  <2>4. Carries(w)
    BY <1>5, <2>1, ResolveShape DEF Carries, Records, Holder
  <2>5. QED
    BY <1>1, <2>1, <2>2, <2>3, <2>4, ResolveShape, SameRows, Frame
<1>7. CASE row[t].status = Unresolved
  <2>1. /\ row[t] \in Row /\ row[t].lease = NoLease
        /\ row \in [Targets -> Row]
    BY <1>7, Typed DEF IInv, RowsInv, LeaseIffPublishing, Unresolved
  <2>2. row' = [row EXCEPT ![t].status = StatusFor(out),
                           ![t].lease = NoLease, ![t].expired = FALSE,
                           ![t].due = TRUE]
    BY <1>2, <1>3, <1>7 DEF Resolve, Target, Unresolved
  <2>3. /\ row'[t].status = StatusFor(out) /\ row'[t].lease = NoLease
        /\ ~ row'[t].expired /\ row'[t].simulated = row[t].simulated
        /\ \A u \in Targets \ {t} : row'[u] = row[u]
    BY <2>1, <2>2 DEF Row
  <2>4. /\ out = "found" => live[t] > 0
        /\ out = "absent" => live[t] = 0
    BY <1>1, <1>2, <1>3, <1>4, <1>7 DEF Fits, LocalsFit, VerdictFits
  <2>5. RowIsTrue(t) /\ OneReconciler(t)
    BY DEF OnceInv
  <2>6. /\ ~ Asked(t)
        /\ \A v \in Workers : Reconciles(v, t) => v = w
    BY <1>4, <1>7, <2>5 DEF OneReconciler
  <2>7. \A v \in Workers : worker[v].lease # NoLease => worker[v].target # t
    BY <1>7, <2>1 DEF OnceInv, Fits, LeaseFits, Unresolved
  <2>8. ASSUME NEW v \in Workers
        PROVE  Fits(v)'
    <3>1. CASE v = w
      <4>1. worker[w].lease = NoLease
        BY <1>2, <2>7
      <4>2. QED
        BY <1>1, <1>3, <1>4, <3>1, <4>1, ResolveShape
           DEF Fits, LeaseFits, LocalsFit, VerdictFits, Early
    <3>2. CASE v # w
      <4>1. /\ worker'[v] = worker[v] /\ Fits(v)
            /\ worker[v].target \in Targets
        BY <3>2, ResolveShape, Typed DEF OnceInv
      <4>2. LeaseFits(v)'
        BY <2>3, <2>7, <4>1 DEF Fits, LeaseFits
      <4>3. LocalsFit(v)'
        BY <1>1, <4>1 DEF Fits, LocalsFit
      <4>4. VerdictFits(v)'
        BY <1>1, <2>3, <2>6, <3>2, <4>1 DEF Fits, VerdictFits, Reconciles
      <4>5. QED
        BY <4>2, <4>3, <4>4 DEF Fits
    <3>3. QED
      BY <3>1, <3>2
  <2>9. ASSUME NEW u \in Targets
        PROVE  RowIsTrue(u)'
    <3>1. CASE u = t
      <4>1. /\ row'[t].status \in { "published", "permanent_failed",
                                     "retryable_failed" }
            /\ row'[t].status = "published" => out = "found"
            /\ row'[t].status = "retryable_failed" => out = "absent"
        BY <2>3 DEF StatusFor
      <4>2. ~ row'[t].simulated
        BY <1>7, <2>3, <2>5 DEF RowIsTrue, Unresolved
      <4>3. /\ live'[t] \in { 0, 1 } /\ (t \in metered' => live'[t] > 0)
            /\ out = "found" => live'[t] = 1
            /\ out = "absent" => live'[t] = 0
        BY <1>1, <2>4, <2>5 DEF RowIsTrue
      <4>4. ~ row'[t].expired
        BY <2>3
      <4>5. QED
        BY <3>1, <4>1, <4>2, <4>3, <4>4 DEF RowIsTrue
    <3>2. CASE u # t
      <4>1. \A v \in Workers : /\ Holder(v, u)' => Holder(v, u)
                               /\ Records(v, u) => Records(v, u)'
        BY <1>5, <2>3, <3>2, ResolveShape DEF Holder, Records
      <4>2. RowIsTrue(u) /\ row'[u] = row[u]
        BY <2>3, <3>2 DEF OnceInv
      <4>3. QED
        BY <1>1, <4>1, <4>2 DEF RowIsTrue
    <3>3. QED
      BY <3>1, <3>2
  <2>10. ASSUME NEW u \in Targets
         PROVE  OneReconciler(u)'
    <3>1. \A v \in Workers : Reconciles(v, u)' => v # w /\ Reconciles(v, u)
      BY <1>5, ResolveShape DEF Reconciles
    <3>2. Asked(u)' <=> Asked(u)
      BY <1>1 DEF Asked, Message
    <3>3. CASE u = t
      BY <2>6, <3>1, <3>2, <3>3 DEF OneReconciler
    <3>4. CASE u # t
      BY <2>3, <3>1, <3>2, <3>4 DEF OneReconciler, OnceInv
    <3>5. QED
      BY <3>3, <3>4
  <2>11. QED
    BY <1>1, <2>8, <2>9, <2>10 DEF OnceInv
<1>8. QED
  BY <1>6, <1>7

LEMMA SendOnce ==
    ASSUME IInv, OnceInv, NEW w \in Workers, Send(w)
    PROVE  OnceInv'
<1>1. /\ row' = row /\ live' = live /\ metered' = metered
      /\ worker[w].step = "send" /\ Advance(w)
      /\ queue' = queue \cup Outbox(w)
  BY DEF Send, database, provider, At
<1>2. /\ \A v \in Workers \ {w} : worker'[v] = worker[v]
      /\ Fits(w)' /\ Carries(w) /\ StartsNoSearch(w)
  BY <1>1, AdvanceFits
<1>3. CASE worker[w].out # "unknown"
  <2>1. \A m \in Outbox(w) : m.type # "reconcile"
    BY <1>3 DEF Outbox, Message, Delayed
  <2>2. \A m \in queue' : m.type = "reconcile" => m \in queue
    BY <1>1, <2>1
  <2>3. QED
    BY <1>1, <1>2, <2>2, SameRows, Frame
<1>4. CASE worker[w].out = "unknown"
  <2>1. PICK t \in Targets : t = worker[w].target
    BY Typed
  <2>2. Outbox(w) = { Message("reconcile", t) }
    BY <1>4, <2>1 DEF Outbox, Target
  <2>3. Reconciles(w, t)
    BY <1>1, <1>4, <2>1 DEF Reconciles
  <2>4. \A u \in Targets : ~ Reconciles(w, u)'
    <3>1. After(worker[w].step, worker[w].out) = "recalc"
      BY <1>1, <1>4 DEF After
    <3>2. worker'[w].step = "recalc"
      BY <1>1, <3>1, AdvanceShape
    <3>3. QED
      BY <3>2 DEF Reconciles
  <2>5. /\ \A u \in Targets : OneReconciler(u)'
        /\ \A m \in queue' : m.type = "reconcile" => ~ m.delayed
    BY <1>1, <1>2, <2>2, <2>3, <2>4, TokenReturns
  <2>6. /\ \A v \in Workers : Fits(v)'
        /\ \A u \in Targets : RowIsTrue(u)'
    BY <1>1, <1>2, SameRows, FrameRows
  <2>7. QED
    BY <2>5, <2>6 DEF OnceInv
<1>5. QED
  BY <1>3, <1>4

(* The isolate is gone, but not with an outcome it has not recorded.       *)
LEMMA AbortOnce ==
    ASSUME IInv, OnceInv, OutcomesAreRecorded, NEW w \in Workers, Abort(w)
    PROVE  OnceInv'
<1>1. /\ row' = row /\ live' = live /\ metered' = metered
      /\ queue' = queue \cup { Message(Job(w), Target(w)) }
      /\ ~ UnrecordedCall(w) /\ ~ ResolvedAlready(w)
      /\ worker[w].step # "idle"
  BY DEF Abort, database, provider, At, OutcomesAreRecorded
<1>2. /\ \A v \in Workers \ {w} : worker'[v] = worker[v]
      /\ worker'[w] = Idle
  BY Typed DEF Abort
<1>3. Fits(w)' /\ \A u \in Targets : ~ Holder(w, u)' /\ ~ Reconciles(w, u)'
  BY <1>2, IdleFits, IdleCarriesNothing
<1>4. \A u \in Targets : ~ Records(w, u)
  BY <1>1 DEF Records, Holder, UnrecordedCall, HoldsLease, Target
<1>5. Carries(w) /\ StartsNoSearch(w)
  BY <1>3, <1>4 DEF Carries, StartsNoSearch
<1>6. CASE Job(w) # "reconcile"
  <2>1. \A m \in queue' : m.type = "reconcile" => m \in queue
    BY <1>1, <1>6 DEF Message
  <2>2. QED
    BY <1>1, <1>2, <1>3, <1>5, <2>1, SameRows, Frame
<1>7. CASE Job(w) = "reconcile"
  <2>1. PICK t \in Targets : t = worker[w].target
    BY Typed
  <2>2. Reconciles(w, t)
    BY <1>1, <1>7, <2>1
       DEF OnceInv, Fits, VerdictFits, Job, ResolvedAlready, Reconciles
  <2>3. queue' = queue \cup { Message("reconcile", t) }
    BY <1>1, <1>7, <2>1 DEF Target
  <2>4. /\ \A u \in Targets : OneReconciler(u)'
        /\ \A m \in queue' : m.type = "reconcile" => ~ m.delayed
    BY <1>1, <1>2, <1>3, <2>2, <2>3, TokenReturns
  <2>5. /\ \A v \in Workers : Fits(v)'
        /\ \A u \in Targets : RowIsTrue(u)'
    BY <1>1, <1>2, <1>3, <1>5, SameRows, FrameRows
  <2>6. QED
    BY <2>4, <2>5 DEF OnceInv
<1>8. QED
  BY <1>6, <1>7

(* The token of a reconciliation goes from the queue to a worker: the      *)
(* message is the only one, and nobody searches while it is queued.        *)
LEMMA ReconcileOnce ==
    ASSUME IInv, OnceInv, OutcomesAreRecorded,
           NEW w \in Workers, NEW m \in queue, Reconcile(w, m)
    PROVE  OnceInv'
<1>1. /\ row' = row /\ live' = live /\ metered' = metered
      /\ worker[w].step = "idle" /\ m.type = "reconcile"
      /\ queue' = queue \ {m}
  BY DEF Reconcile, database, provider, At, CanReceive, Remaining,
         OutcomesAreRecorded
<1>2. CASE worker' = worker
  BY <1>1, <1>2, SameRows, Frame
<1>3. CASE worker' # worker
  <2>1. PICK t \in Targets : t = m.target
    BY DEF IInv, RestInv, Messages
  <2>2. m = Message("reconcile", t)
    <3>1. m \in Messages /\ ~ m.delayed
      BY <1>1 DEF IInv, RestInv, OnceInv
    <3>2. QED
      BY <1>1, <2>1, <3>1 DEF Messages, Message
  <2>3. /\ row[t].status = Unresolved
        /\ worker' = [worker EXCEPT ![w] =
                         [Idle EXCEPT !.step = "search", !.job = "reconcile",
                                      !.target = t, !.batch = {t}]]
    BY <1>3, <2>1 DEF Reconcile, Unresolved
  <2>4. \A v \in Workers : ~ Reconciles(v, t)
    <3>1. Asked(t)
      BY <2>2 DEF Asked
    <3>2. QED
      BY <2>3, <3>1 DEF OnceInv, OneReconciler
  <2>5. /\ \A v \in Workers \ {w} : worker'[v] = worker[v]
        /\ worker'[w].step = "search" /\ worker'[w].job = "reconcile"
        /\ worker'[w].target = t /\ worker'[w].lease = NoLease
        /\ ~ worker'[w].asked /\ worker'[w].out = "none"
    BY <2>3, Typed DEF Idle
  <2>6. Fits(w)'
    BY <2>5 DEF Fits, LeaseFits, LocalsFit, VerdictFits, Early
  <2>7. Carries(w)
    BY <1>1, <2>5, IdleHoldsNothing DEF Carries, Holder, Records
  <2>8. /\ \A v \in Workers : Fits(v)'
        /\ \A u \in Targets : RowIsTrue(u)'
    BY <1>1, <2>5, <2>6, <2>7, SameRows, FrameRows
  <2>9. ASSUME NEW u \in Targets
        PROVE  OneReconciler(u)'
    <3>1. OneReconciler(u) /\ (Asked(u)' => Asked(u))
      BY <1>1 DEF OnceInv, Asked, Message
    <3>2. CASE u = t
      <4>1. ~ Asked(t)'
        BY <1>1, <2>2 DEF Asked, Message
      <4>2. \A v \in Workers : Reconciles(v, t)' => v = w
        BY <2>4, <2>5 DEF Reconciles
      <4>3. QED
        BY <1>1, <2>3, <3>2, <4>1, <4>2
           DEF OneReconciler, Settled, TerminalTargetStatus
    <3>3. CASE u # t
      <4>1. \A v \in Workers : Reconciles(v, u)' => Reconciles(v, u)
        BY <2>5, <3>3 DEF Reconciles
      <4>2. QED
        BY <1>1, <3>1, <4>1 DEF OneReconciler
    <3>4. QED
      BY <3>2, <3>3
  <2>10. \A n \in queue' : n.type = "reconcile" => ~ n.delayed
    BY <1>1 DEF OnceInv
  <2>11. QED
    BY <2>8, <2>9, <2>10 DEF OnceInv
<1>4. QED
  BY <1>2, <1>3

-----------------------------------------------------------------------------
(* The other messages.                                                     *)

(* A fresh lease goes to a target whose row nobody holds, whose post is    *)
(* not live and which no reconciliation is after.                          *)
LEMMA LeaseTargetOnce ==
    ASSUME IInv, OnceInv, NEW w \in Workers, NEW m \in queue,
           LeaseTarget(w, m)
    PROVE  OnceInv'
<1>1. PICK t \in Targets : t = m.target
  BY DEF IInv, RestInv, Messages
<1>2. /\ live' = live /\ metered' = metered /\ queue' \subseteq queue
      /\ worker[w].step = "idle"
      /\ row[t].status \in LeasableTargetStatus
  BY <1>1 DEF LeaseTarget, provider, CanReceive, At, Remaining, CanLease
<1>3. PICK lease \in Leases \ LeasesInUse :
         /\ row' = [row EXCEPT ![t] = Leased(row[t], lease)]
         /\ worker' = [worker EXCEPT ![w] =
                         [Idle EXCEPT !.step = "load", !.target = t,
                                      !.lease = lease,
                                      !.number = row[t].attempts + 1,
                                      !.batch = {t}]]
  BY <1>1, Typed DEF LeaseTarget
<1>4. /\ lease # NoLease
      /\ \A v \in Workers : worker[v].lease # lease
  BY <1>3, LeasesAssumption DEF LeasesInUse
<1>5. /\ row'[t].status = "publishing" /\ row'[t].lease = lease
      /\ ~ row'[t].expired /\ row'[t].simulated = row[t].simulated
      /\ \A u \in Targets \ {t} : row'[u] = row[u]
  BY <1>3, Typed DEF Leased, Row
<1>6. /\ \A v \in Workers \ {w} : worker'[v] = worker[v]
      /\ worker'[w].step = "load" /\ worker'[w].job = "target"
      /\ worker'[w].target = t /\ worker'[w].lease = lease
      /\ ~ worker'[w].asked /\ worker'[w].out = "none"
  BY <1>3, Typed DEF Idle
<1>7. row[t].lease = NoLease /\ row[t].status \in Loose
  BY <1>2 DEF LeasableTargetStatus, Loose, IInv, RowsInv, LeaseIffPublishing
<1>8. RowIsTrue(t) /\ OneReconciler(t)
  BY DEF OnceInv
<1>9. live[t] = 0 /\ ~ row[t].simulated /\ t \notin metered
  BY <1>7, <1>8 DEF RowIsTrue, Loose, Unresolved
<1>10. \A v \in Workers : worker[v].lease # NoLease => worker[v].target # t
  BY <1>7 DEF OnceInv, Fits, LeaseFits, Loose
<1>11. \A u \in Targets : ~ Holder(w, u) /\ ~ Reconciles(w, u)
  BY <1>2, IdleHoldsNothing
<1>12. ASSUME NEW v \in Workers
       PROVE  Fits(v)'
  <2>1. CASE v = w
    <3>1. LeaseFits(v)'
      BY <1>5, <1>6, <2>1 DEF LeaseFits, Early
    <3>2. LocalsFit(v)' /\ VerdictFits(v)'
      BY <1>4, <1>6, <2>1 DEF LocalsFit, VerdictFits, Early
    <3>3. QED
      BY <3>1, <3>2 DEF Fits
  <2>2. CASE v # w
    <3>1. Fits(v) /\ worker'[v] = worker[v] /\ worker[v].target \in Targets
      BY <1>6, <2>2, Typed DEF OnceInv
    <3>2. LeaseFits(v)'
      BY <1>5, <1>10, <3>1 DEF Fits, LeaseFits
    <3>3. LocalsFit(v)'
      BY <1>2, <3>1 DEF Fits, LocalsFit
    <3>4. VerdictFits(v)'
      BY <1>2, <1>5, <3>1 DEF Fits, VerdictFits, Unresolved
    <3>5. QED
      BY <3>2, <3>3, <3>4 DEF Fits
  <2>3. QED
    BY <2>1, <2>2
<1>13. ASSUME NEW u \in Targets
       PROVE  RowIsTrue(u)'
  <2>1. CASE u = t
    BY <1>2, <1>5, <1>9, <2>1 DEF RowIsTrue
  <2>2. CASE u # t
    <3>1. \A v \in Workers : /\ Holder(v, u)' <=> Holder(v, u)
                             /\ Records(v, u) => Records(v, u)'
      BY <1>5, <1>6, <1>11, <2>2 DEF Holder, Records
    <3>2. RowIsTrue(u) /\ row'[u] = row[u]
      BY <1>5, <2>2 DEF OnceInv
    <3>3. QED
      BY <1>2, <3>1, <3>2 DEF RowIsTrue
  <2>3. QED
    BY <2>1, <2>2
<1>14. ASSUME NEW u \in Targets
       PROVE  OneReconciler(u)'
  <2>1. OneReconciler(u) /\ (Asked(u)' => Asked(u))
    BY <1>2 DEF OnceInv, Asked, Message
  <2>2. \A v \in Workers : Reconciles(v, u)' => Reconciles(v, u)
    BY <1>6 DEF Reconciles
  <2>3. CASE u = t
    <3>1. row[t].status \notin Settled \cup { Unresolved }
      BY <1>7 DEF Loose, Settled, TerminalTargetStatus, Unresolved
    <3>2. QED
      BY <1>5, <2>1, <2>2, <2>3, <3>1 DEF OneReconciler, Unresolved
  <2>4. CASE u # t
    BY <1>5, <2>1, <2>2, <2>4 DEF OneReconciler
  <2>5. QED
    BY <2>3, <2>4
<1>15. \A n \in queue' : n.type = "reconcile" => ~ n.delayed
  BY <1>2 DEF OnceInv
<1>16. QED
  BY <1>12, <1>13, <1>14, <1>15 DEF OnceInv

LEMMA QuietOnce ==
    ASSUME IInv, OnceInv, NEW w \in Workers, NEW m \in queue,
           LeaseRefused(w, m) \/ Poll(w, m)
    PROVE  OnceInv'
<1>1. /\ row' = row /\ live' = live /\ metered' = metered
      /\ worker' = worker /\ queue' \subseteq queue
  BY DEF LeaseRefused, Poll, Remaining, database, provider
<1>2. QED
  BY <1>1, SameRows, Frame

(* Rows that have waited are put where a worker may start.                 *)
LEMMA LooseIsFree ==
    ASSUME IInv, NEW t \in Targets, row[t].status \in Loose
    PROVE  row[t].lease = NoLease /\ \A w \in Workers : ~ Holder(w, t)
<1>1. row[t].lease = NoLease
  BY DEF Loose, IInv, RowsInv, LeaseIffPublishing
<1>2. QED
  BY <1>1 DEF Holder

LEMMA FanOutOnce ==
    ASSUME IInv, OnceInv, NEW w \in Workers, NEW m \in queue, FanOut(w, m)
    PROVE  OnceInv'
<1> DEFINE claimed == { t \in Targets :
                          row[t].status \in { "pending", "scheduled",
                                              "awaiting_approval" } }
           step == IF claimed = {} THEN "recalc" ELSE "send"
<1>1. /\ live' = live /\ metered' = metered /\ queue' \subseteq queue
      /\ worker[w].step = "idle"
  BY DEF FanOut, provider, CanReceive, At, Remaining
<1>2. step \in { "recalc", "send" }
  OBVIOUS
<1>3. /\ row' = [ t \in Targets |->
                    IF t \in claimed
                    THEN [row[t] EXCEPT !.status = "queued", !.due = TRUE]
                    ELSE row[t] ]
      /\ worker' = [worker EXCEPT ![w] =
                      [Idle EXCEPT !.step = step, !.job = "scheduled_post",
                                   !.out = "fanned_out", !.batch = claimed]]
  BY DEF FanOut
<1> HIDE DEF step
<1>4. /\ \A v \in Workers \ {w} : worker'[v] = worker[v]
      /\ worker'[w].step = step /\ worker'[w].job = "scheduled_post"
      /\ worker'[w].lease = NoLease /\ ~ worker'[w].asked
      /\ worker'[w].out = "fanned_out"
  BY <1>3, Typed DEF Idle
<1>5. Fits(w)'
  BY <1>2, <1>4 DEF Fits, LeaseFits, LocalsFit, VerdictFits, Early
<1>6. Carries(w) /\ StartsNoSearch(w)
  BY <1>1, <1>2, <1>4, IdleHoldsNothing
     DEF Carries, StartsNoSearch, Holder, Records, Reconciles
<1>7. ASSUME NEW t \in Targets
      PROVE  Kept(t) \/ Freed(t)
  <2>1. CASE t \in claimed
    <3>1. row[t].status \in Loose
      BY <2>1 DEF Loose
    <3>2. /\ row'[t].status = "queued" /\ row'[t].lease = row[t].lease
          /\ row'[t].simulated = row[t].simulated
      BY <1>3, <2>1, Typed DEF Row
    <3>3. QED
      BY <3>1, <3>2, LooseIsFree DEF Freed, Loose
  <2>2. CASE t \notin claimed
    BY <1>3, <2>2 DEF Kept
  <2>3. QED
    BY <2>1, <2>2
<1>8. QED
  BY <1>1, <1>4, <1>5, <1>6, <1>7, Frame

-----------------------------------------------------------------------------
(* Requests, the cron and the clock: no worker moves.                      *)

LEMMA CancelOnce ==
    ASSUME IInv, OnceInv, Cancel
    PROVE  OnceInv'
<1>1. /\ live' = live /\ metered' = metered /\ queue' = queue
      /\ worker' = worker
  BY DEF Cancel, provider
<1>2. ASSUME NEW t \in Targets
      PROVE  Kept(t) \/ Freed(t)
  <2>1. CASE row[t].status \in Cancellable
    <3>1. row[t].status \in Loose
      BY <2>1 DEF Cancellable, Loose, IInv, RowsInv
    <3>2. /\ row'[t].status = "cancelled" /\ row'[t].lease = NoLease
          /\ row'[t].simulated = row[t].simulated
      BY <2>1, Typed DEF Cancel, Row
    <3>3. QED
      BY <3>1, <3>2, LooseIsFree DEF Freed
  <2>2. CASE row[t].status \notin Cancellable
    BY <2>2 DEF Cancel, Kept
  <2>3. QED
    BY <2>1, <2>2
<1>3. PICK w \in Workers : TRUE
  BY WorkersAssumption
<1>4. QED
  BY <1>1, <1>2, Frame

LEMMA RetryOnce ==
    ASSUME IInv, OnceInv, Retry
    PROVE  OnceInv'
<1>1. /\ live' = live /\ metered' = metered /\ queue' = queue
      /\ worker' = worker
  BY DEF Retry, provider
<1>2. PICK batch \in SUBSET { t \in Targets : row[t].status \in Requeueable } :
         row' = [ t \in Targets |->
                    IF t \in batch
                    THEN [row[t] EXCEPT !.status = "queued",
                                        !.lease = NoLease,
                                        !.expired = FALSE, !.due = TRUE,
                                        !.attempts = 0]
                    ELSE row[t] ]
  BY DEF Retry
<1>3. ASSUME NEW t \in Targets
      PROVE  Kept(t) \/ Freed(t)
  <2>1. CASE t \in batch
    <3>1. row[t].status \in Loose
      BY <2>1 DEF Requeueable, Loose
    <3>2. /\ row'[t].status = "queued" /\ row'[t].lease = NoLease
          /\ row'[t].simulated = row[t].simulated
      <4>1. row[t] \in Row
        BY Typed
      <4>2. row'[t] = [row[t] EXCEPT !.status = "queued",
                                      !.lease = NoLease, !.expired = FALSE,
                                      !.due = TRUE, !.attempts = 0]
        BY <1>2, <2>1
      <4>3. QED
        BY <4>1, <4>2 DEF Row
    <3>3. QED
      BY <3>1, <3>2, LooseIsFree DEF Freed, Loose
  <2>2. CASE t \notin batch
    BY <1>2, <2>2 DEF Kept
  <2>3. QED
    BY <2>1, <2>2
<1>4. PICK w \in Workers : TRUE
  BY WorkersAssumption
<1>5. QED
  BY <1>1, <1>3, Frame

LEMMA ApiTailOnce ==
    ASSUME IInv, OnceInv, ApiRecalculate \/ ApiSend \/ ApiAbort
    PROVE  OnceInv'
<1>1. /\ row' = row /\ live' = live /\ metered' = metered
      /\ worker' = worker
      /\ \A m \in queue' : m.type = "reconcile" => m \in queue
  BY DEF ApiRecalculate, ApiSend, ApiAbort, database, provider, Message
<1>2. PICK w \in Workers : TRUE
  BY WorkersAssumption
<1>3. QED
  BY <1>1, <1>2, SameRows, Frame

LEMMA CronOnce ==
    ASSUME IInv, OnceInv, Cron
    PROVE  OnceInv'
<1>1. PICK w \in Workers : TRUE
  BY WorkersAssumption
<1>2. CASE SweepScheduled
  <2>1. /\ row' = row /\ live' = live /\ metered' = metered
        /\ worker' = worker
        /\ \A m \in queue' : m.type = "reconcile" => m \in queue
    BY <1>2 DEF SweepScheduled, database, provider, Message, ScheduledPost
  <2>2. QED
    BY <2>1, SameRows, Frame
<1>3. ASSUME NEW t \in Targets, SweepAbandoned(t)
      PROVE  OnceInv'
  <2>1. /\ live' = live /\ metered' = metered /\ worker' = worker
        /\ \A m \in queue' : m.type = "reconcile" => m \in queue
        /\ row[t].status = "publishing" /\ row[t].expired
        /\ row' = [row EXCEPT ![t] =
                      [Marked(row[t], "released") EXCEPT !.due = TRUE]]
    BY <1>3, Typed DEF SweepAbandoned, provider, Message
  <2>2. /\ row'[t].status = "queued" /\ row'[t].lease = NoLease
        /\ row'[t].simulated = row[t].simulated
        /\ \A u \in Targets \ {t} : row'[u] = row[u]
    BY <2>1, Typed DEF Marked, StatusFor, Succeeded
  <2>3. Freed(t)
    BY <2>1, <2>2 DEF Freed, Loose, OnceInv, RowIsTrue
  <2>4. \A u \in Targets \ {t} : Kept(u)
    BY <2>2 DEF Kept
  <2>5. QED
    BY <1>1, <2>1, <2>3, <2>4, Frame
<1>4. QED
  BY <1>2, <1>3 DEF Cron

(* Without slow workers a lease runs out only when its holder is gone.     *)
LEMMA TimeOnce ==
    ASSUME IInv, OnceInv, OutcomesAreRecorded, Time
    PROVE  OnceInv'
<1>1. PICK w \in Workers : TRUE
  BY WorkersAssumption
<1>2. /\ live' = live /\ metered' = metered /\ worker' = worker
      /\ queue' = queue
  BY DEF Time, TimeArrives, BackoffPasses, LeaseExpires, provider
<1>3. ASSUME NEW t \in Targets
      PROVE  Kept(t)
  <2>1. CASE TimeArrives
    BY <2>1 DEF TimeArrives, Kept
  <2>2. ASSUME NEW u \in Targets, BackoffPasses(u)
        PROVE  Kept(t)
    <3>1. row' = [row EXCEPT ![u].due = TRUE]
      BY <2>2 DEF BackoffPasses
    <3>2. QED
      BY <3>1, Typed DEF Kept, Row
  <2>3. ASSUME NEW u \in Targets, LeaseExpires(u)
        PROVE  Kept(t)
    <3>1. row' = [row EXCEPT ![u].expired = TRUE]
      BY <2>3 DEF LeaseExpires
    <3>2. \A v \in Workers : ~ Holder(v, u)
      <4>1. ASSUME NEW v \in Workers, Holder(v, u)
            PROVE  FALSE
        <5>1. worker[v].step # "idle"
          BY <4>1, IdleHoldsNothing
        <5>2. "slow" \in Faults
          BY <2>3, <4>1, <5>1
             DEF LeaseExpires, Holder, HoldsLease, At, Target
        <5>3. QED
          BY <5>2 DEF OutcomesAreRecorded
      <4>2. QED
        BY <4>1
    <3>3. QED
      BY <3>1, <3>2, Typed DEF Kept, Row
  <2>4. QED
    BY <2>1, <2>2, <2>3 DEF Time
<1>4. QED
  BY <1>1, <1>2, <1>3, Frame

-----------------------------------------------------------------------------
(* All steps together.                                                     *)

LEMMA InitEstablishesOnceInv == Init => OnceInv
<1> SUFFICES ASSUME Init PROVE OnceInv
  OBVIOUS
<1>1. /\ \A w \in Workers : worker[w] = Idle
      /\ \A t \in Targets : /\ row[t].status \in { "queued", "scheduled" }
                             /\ ~ row[t].simulated /\ ~ row[t].expired
                             /\ live[t] = 0
      /\ metered = {} /\ queue = {}
  BY DEF Init, NewRow
<1>2. \A w \in Workers : /\ worker[w].step = "idle"
                         /\ worker[w].lease = NoLease
                         /\ worker[w].out = "none" /\ ~ worker[w].asked
                         /\ worker[w].job = "target"
  BY <1>1 DEF Idle
<1>3. \A w \in Workers : Fits(w)
  BY <1>2 DEF Fits, LeaseFits, LocalsFit, VerdictFits, Early
<1>4. \A t \in Targets : RowIsTrue(t)
  BY <1>1 DEF RowIsTrue
<1>5. \A t \in Targets : OneReconciler(t)
  BY <1>1, <1>2 DEF OneReconciler, Asked, Reconciles, Unresolved
<1>6. QED
  BY <1>1, <1>3, <1>4, <1>5 DEF OnceInv

LEMMA NextPreservesOnceInv ==
    ASSUME OutcomesAreRecorded, IInv, OnceInv, [Next]_vars
    PROVE  OnceInv'
<1>1. ASSUME NEW w \in Workers, Mark(w)
      PROVE  OnceInv'
  BY <1>1, MarkLateOnce, MarkHeldOnce
<1>2. ASSUME NEW w \in Workers, WorkerStep(w)
      PROVE  OnceInv'
  BY <1>1, <1>2, LoadContextOnce, StartAttemptOnce, PrepareFailsOnce,
     CallProviderOnce, TailOnce, SearchOnce, ResolveOnce, SendOnce
     DEF WorkerStep
<1>3. ASSUME NEW w \in Workers, Fault(w)
      PROVE  OnceInv'
  BY <1>3, CatchErrorOnce, AbortOnce DEF Fault
<1>4. ASSUME NEW w \in Workers, NEW m \in queue, Receive(w, m)
      PROVE  OnceInv'
  BY <1>4, LeaseTargetOnce, QuietOnce, ReconcileOnce, FanOutOnce
     DEF Receive
<1>5. CASE Api
  BY <1>5, CancelOnce, RetryOnce, ApiTailOnce DEF Api
<1>6. CASE UNCHANGED vars
  <2>1. /\ row' = row /\ live' = live /\ metered' = metered
        /\ worker' = worker /\ queue' = queue
    BY <1>6 DEF vars, database, provider
  <2>2. PICK w \in Workers : TRUE
    BY WorkersAssumption
  <2>3. QED
    BY <2>1, <2>2, SameRows, Frame
<1>7. QED
  BY <1>2, <1>3, <1>4, <1>5, <1>6, CronOnce, TimeOnce DEF Next

LEMMA OnceInvHolds ==
    ASSUME OutcomesAreRecorded
    PROVE  Spec => []OnceInv
<1>1. IInv /\ OnceInv /\ [Next]_vars => OnceInv'
  BY NextPreservesOnceInv
<1>2. QED
  BY <1>1, InitEstablishesOnceInv, IInvHolds, PTL DEF Spec

(* However often messages are redelivered, isolates die outside a provider *)
(* call or the customer retries, at most one call per target creates a     *)
(* post at the provider.                                                   *)
THEOREM EffectivelyOnceHolds ==
    ASSUME OutcomesAreRecorded
    PROVE  Spec => []EffectivelyOnce
<1>1. OnceInv => EffectivelyOnce
  BY DEF OnceInv, RowIsTrue, EffectivelyOnce
<1>2. QED
  BY <1>1, OnceInvHolds, PTL

(* Whatever a worker may still lease is not live: a retry never publishes  *)
(* a second time.                                                          *)
THEOREM LeasableIsNotLiveHolds ==
    ASSUME OutcomesAreRecorded
    PROVE  Spec => []LeasableIsNotLive
<1>1. OnceInv => LeasableIsNotLive
  BY DEF OnceInv, RowIsTrue, LeasableIsNotLive, LeasableTargetStatus,
         Unresolved
<1>2. QED
  BY <1>1, OnceInvHolds, PTL

(* A row says published exactly when the provider has the post or the run  *)
(* was simulated, reconciled rows included; only live posts are metered.   *)
THEOREM PublishedIsLiveHolds ==
    ASSUME OutcomesAreRecorded
    PROVE  Spec => []PublishedIsLive
<1>1. OnceInv => PublishedIsLive
  BY DEF OnceInv, RowIsTrue, PublishedIsLive
<1>2. QED
  BY <1>1, OnceInvHolds, PTL

(* What was cancelled has not gone out, and never will.                    *)
THEOREM CancelledIsNotLiveHolds ==
    ASSUME OutcomesAreRecorded
    PROVE  Spec => []CancelledIsNotLive
<1>1. OnceInv => CancelledIsNotLive
  BY DEF OnceInv, RowIsTrue, CancelledIsNotLive, Unresolved
<1>2. QED
  BY <1>1, OnceInvHolds, PTL

-----------------------------------------------------------------------------
(* The budget.                                                             *)

LEMMA PurseIsNat ==
    ASSUME IInv, NEW t \in Targets
    PROVE  /\ MaxAttempts * retries \in Nat
           /\ row[t].attempts \in 0 .. MaxAttempts
           /\ row[t].attempts \in Nat /\ MaxAttempts \in Nat
           /\ calls[t] \in Nat
<1>1. retries \in Nat /\ MaxAttempts \in Nat
  BY Typed, BoundsAssumption
<1>2. MaxAttempts * retries \in Nat
  BY <1>1
<1>3. row[t].attempts \in 0 .. MaxAttempts
  BY Typed DEF Row
<1>4. QED
  BY <1>1, <1>2, <1>3, Typed

(* No attempt is given back and no lease becomes uncalled again.           *)
LEMMA PaidKept ==
    ASSUME IInv, IInv', NEW t \in Targets, Paid(t),
           calls'[t] = calls[t], retries' = retries,
           row'[t].attempts \geq row[t].attempts,
           Uncalled(t)' => Uncalled(t)
    PROVE  Paid(t)'
<1> DEFINE spent == MaxAttempts * retries
<1>0. row'[t].attempts \in Nat
  <2>1. row'[t].attempts \in 0 .. MaxAttempts
    BY DEF IInv, RowsInv, Row
  <2>2. QED
    BY <2>1, BoundsAssumption
<1>1. /\ spent \in Nat /\ row[t].attempts \in Nat /\ calls[t] \in Nat
      /\ row'[t].attempts \in Nat
  BY <1>0, PurseIsNat
<1>2. Purse(t) = spent + row[t].attempts
  BY DEF Purse
<1>3. Purse(t)' = spent + row'[t].attempts
  BY DEF Purse
<1> HIDE DEF spent
<1>4. QED
  BY <1>1, <1>2, <1>3 DEF Paid

(* w remembers a call it made on the lease that is on the row.             *)
Remembers(w) ==
    \A t \in Targets :
        Holder(w, t) /\ worker[w].asked => Holder(w, t)' /\ worker'[w].asked

(* No row that is published now was not, nor got another lease.            *)
LEMMA PaidByFrame ==
    ASSUME IInv, IInv', CallsArePaid, NEW w \in Workers,
           \A v \in Workers \ {w} : worker'[v] = worker[v],
           worker'[w] = worker[w] \/ Remembers(w),
           \A t \in Targets :
               /\ row'[t].attempts \geq row[t].attempts
               /\ row'[t].status = "publishing" =>
                     /\ row[t].status = "publishing"
                     /\ row'[t].lease = row[t].lease,
           calls' = calls, retries' = retries
    PROVE  CallsArePaid'
<1>1. ASSUME NEW t \in Targets, Uncalled(t)'
      PROVE  Uncalled(t)
  <2>1. row[t].status = "publishing" /\ row'[t].lease = row[t].lease
    BY <1>1 DEF Uncalled
  <2>2. ASSUME NEW v \in Workers, Holder(v, t)
        PROVE  ~ worker[v].asked
    <3>1. CASE worker'[v] = worker[v]
      <4>1. Holder(v, t)'
        BY <2>1, <2>2, <3>1 DEF Holder
      <4>2. QED
        BY <1>1, <3>1, <4>1 DEF Uncalled
    <3>2. CASE v = w /\ Remembers(w)
      BY <1>1, <2>2, <3>2 DEF Uncalled, Remembers
    <3>3. QED
      BY <3>1, <3>2
  <2>3. QED
    BY <2>1, <2>2 DEF Uncalled
<1>2. ASSUME NEW t \in Targets
      PROVE  Paid(t)'
  BY <1>1, PaidKept DEF CallsArePaid
<1>3. QED
  BY <1>2 DEF CallsArePaid

(* No worker forgets a call while the row is still its own, but for a dead *)
(* one.                                                                    *)
LEMMA EarlyHaveNotAsked ==
    ASSUME OnceInv, NEW w \in Workers, worker[w].step \in Early
    PROVE  ~ worker[w].asked
BY DEF OnceInv, Fits, LocalsFit

LEMMA StepRemembers ==
    ASSUME IInv, OnceInv, OutcomesAreRecorded, NEW w \in Workers,
           \/ LoadContext(w) \/ StartAttempt(w) \/ PrepareFails(w)
           \/ CatchError(w) \/ Finish(w) \/ Meter(w) \/ Search(w)
           \/ Resolve(w) \/ Send(w) \/ Recalculate(w) \/ Abort(w)
    PROVE  Remembers(w)
<1>1. worker[w] \in Working /\ worker \in [Workers -> Working] /\ Fits(w)
  BY Typed DEF OnceInv
<1>2. CASE LoadContext(w) \/ StartAttempt(w) \/ PrepareFails(w)
  <2>1. worker[w].step \in Early
    BY <1>2 DEF LoadContext, StartAttempt, PrepareFails, At, Early
  <2>2. QED
    BY <2>1, EarlyHaveNotAsked DEF Remembers
<1>3. CASE CatchError(w)
  <2>1. /\ worker'[w] = WithOutcome(worker[w], "unknown") /\ row' = row
        /\ "unknown" \in Outcome
    BY <1>1, <1>3 DEF CatchError, database, Outcome
  <2>2. /\ worker'[w].target = worker[w].target
        /\ worker'[w].lease = worker[w].lease
        /\ worker'[w].asked = worker[w].asked
    BY <1>1, <2>1, OutcomeShape
  <2>3. QED
    BY <2>1, <2>2 DEF Remembers, Holder
<1>4. CASE Finish(w)
  <2>1. row' = row /\ Advance(w) /\ worker[w].step = "finish"
    BY <1>4 DEF Finish, database, At
  <2>2. ASSUME NEW t \in Targets, Holder(w, t)
        PROVE  Holder(w, t)' /\ worker'[w].asked = worker[w].asked
    <3>1. ~ Succeeded(worker[w].out)
      BY <1>1, <2>1, <2>2, HolderPublishes DEF Fits, LeaseFits, Holder
    <3>2. After(worker[w].step, worker[w].out) = "mark"
      BY <2>1, <3>1 DEF After, Succeeded
    <3>3. /\ worker'[w].target = worker[w].target
          /\ worker'[w].lease = worker[w].lease
          /\ worker'[w].asked = worker[w].asked
      BY <2>1, <3>2, AdvanceShape
    <3>4. QED
      BY <2>1, <2>2, <3>3 DEF Holder
  <2>3. QED
    BY <2>2 DEF Remembers
<1>5. CASE Meter(w) \/ Search(w) \/ Resolve(w) \/ Send(w) \/ Recalculate(w)
  <2>1. worker[w].step \in { "meter", "search", "resolve", "send", "recalc" }
    BY <1>5 DEF Meter, Search, Resolve, Send, Recalculate, At
  <2>2. \A t \in Targets : ~ Holder(w, t)
    BY <1>1, <2>1, HolderPublishes DEF Fits, LeaseFits, Holder, Early
  <2>3. QED
    BY <2>2 DEF Remembers
<1>6. CASE Abort(w)
  <2>1. ~ UnrecordedCall(w)
    BY <1>6 DEF Abort, OutcomesAreRecorded
  <2>2. QED
    BY <2>1 DEF Remembers, Holder, UnrecordedCall, HoldsLease, Target
<1>7. QED
  BY <1>2, <1>3, <1>4, <1>5, <1>6

LEMMA OthersStay ==
    ASSUME IInv, NEW w \in Workers, WorkerStep(w) \/ Fault(w)
    PROVE  \A v \in Workers \ {w} : worker'[v] = worker[v]
<1>1. worker \in [Workers -> Working]
  BY Typed
<1>2. CASE Advance(w)
  BY <1>2, AdvanceShape
<1>3. CASE ~ Advance(w)
  BY <1>1, <1>3 DEF WorkerStep, Fault, LoadContext, StartAttempt,
     PrepareFails, CallProvider, Mark, Finish, Meter, Search, Resolve, Send,
     Recalculate, CatchError, Abort
<1>4. QED
  BY <1>2, <1>3

LEMMA StepPaid ==
    ASSUME IInv, IInv', OnceInv, CallsArePaid, OutcomesAreRecorded,
           NEW w \in Workers,
           \/ LoadContext(w) \/ StartAttempt(w) \/ PrepareFails(w)
           \/ CatchError(w) \/ Finish(w) \/ Meter(w) \/ Search(w)
           \/ Resolve(w) \/ Send(w) \/ Recalculate(w) \/ Abort(w)
    PROVE  CallsArePaid'
<1>1. Remembers(w) /\ \A v \in Workers \ {w} : worker'[v] = worker[v]
  BY StepRemembers, OthersStay DEF WorkerStep, Fault
<1>2. calls' = calls /\ retries' = retries
  BY DEF LoadContext, StartAttempt, PrepareFails, CatchError, Finish, Meter,
         Search, Resolve, Send, Recalculate, Abort, provider
<1>3. row' = row \/ Resolve(w)
  BY DEF LoadContext, StartAttempt, PrepareFails, CatchError, Finish, Meter,
         Search, Send, Recalculate, Abort, database
<1>4. ASSUME NEW t \in Targets
      PROVE  /\ row'[t].attempts \geq row[t].attempts
             /\ row'[t].status = "publishing" =>
                   /\ row[t].status = "publishing"
                   /\ row'[t].lease = row[t].lease
  <2>1. row[t].attempts \in Nat
    BY PurseIsNat
  <2>2. CASE row'[t] = row[t]
    BY <2>1, <2>2
  <2>3. CASE row'[t] # row[t]
    <3>1. PICK out \in { "found", "absent", "indeterminate" } :
             out = worker[w].out
      BY <1>3, <2>3, ResolveShape
    <3>2. row'[t] = [row[t] EXCEPT !.status = StatusFor(out),
                                   !.lease = NoLease, !.expired = FALSE,
                                   !.due = TRUE]
      <4>1. row \in [Targets -> Row]
        BY Typed
      <4>2. /\ row[Target(w)].status = "unknown_reconciliation_required"
            /\ row' = [row EXCEPT ![Target(w)].status = StatusFor(out),
                                  ![Target(w)].lease = NoLease,
                                  ![Target(w)].expired = FALSE,
                                  ![Target(w)].due = TRUE]
        BY <1>3, <2>3, <3>1 DEF Resolve
      <4>3. Target(w) = t
        BY <2>3, <4>1, <4>2
      <4>4. QED
        BY <4>1, <4>2, <4>3
    <3>3. /\ row'[t].status = StatusFor(out)
          /\ row'[t].attempts = row[t].attempts
      BY <3>2, Typed DEF Row
    <3>4. QED
      BY <2>1, <3>3 DEF StatusFor
  <2>4. QED
    BY <2>2, <2>3
<1>5. QED
  BY <1>1, <1>2, <1>4, PaidByFrame

(* The holder makes its one call; until then its lease had one to spare.   *)
LEMMA CallProviderPaid ==
    ASSUME IInv, IInv', OnceInv, CallsArePaid, NEW w \in Workers,
           CallProvider(w)
    PROVE  CallsArePaid'
<1>1. PICK t \in Targets : t = worker[w].target
  BY Typed
<1>2. /\ row' = row /\ retries' = retries /\ worker[w].step = "call"
      /\ calls' = [calls EXCEPT ![t] = @ + 1]
  BY <1>1 DEF CallProvider, database, At, Target
<1>3. /\ Fits(w) /\ worker[w] \in Working
      /\ worker \in [Workers -> Working]
  BY Typed DEF OnceInv
<1>4. Holder(w, t) /\ ~ worker[w].asked
  BY <1>1, <1>2, <1>3 DEF Fits, LeaseFits, LocalsFit, Early, Holder
<1>5. \A v \in Workers \ {w} : worker'[v] = worker[v]
  BY OthersStay DEF WorkerStep
<1>6. /\ worker'[w].target = t /\ worker'[w].lease = worker[w].lease
      /\ worker'[w].asked
  <2> DEFINE asked == [worker[w] EXCEPT !.asked = TRUE]
  <2>1. PICK out \in Outcome : worker'[w] = WithOutcome(asked, out)
    BY <1>3 DEF CallProvider, TakenAs, RefusedAs, Outcome
  <2>2. /\ asked \in Working /\ asked.target = worker[w].target
        /\ asked.lease = worker[w].lease /\ asked.asked
    BY <1>3 DEF Working
  <2> HIDE DEF asked
  <2>3. QED
    BY <1>1, <2>1, <2>2, OutcomeShape
<1>7. Uncalled(t) /\ ~ Uncalled(t)'
  <2>1. Uncalled(t)
    BY <1>4, HolderPublishes DEF Uncalled
  <2>2. Holder(w, t)'
    BY <1>2, <1>4, <1>6 DEF Holder
  <2>3. QED
    BY <1>6, <2>1, <2>2 DEF Uncalled
<1>8. ASSUME NEW u \in Targets
      PROVE  Paid(u)'
  <2>1. Purse(u)' = Purse(u) /\ Paid(u)
    BY <1>2 DEF Purse, CallsArePaid
  <2>2. CASE u = t
    <3>1. calls'[t] = calls[t] + 1
      BY <1>2, Typed
    <3>2. QED
      BY <1>7, <2>1, <2>2, <3>1 DEF Paid
  <2>3. CASE u # t
    <3>1. calls'[u] = calls[u]
      BY <1>2, <2>3, Typed
    <3>2. Uncalled(u)' => Uncalled(u)
      BY <1>1, <1>2, <1>5, <2>3 DEF Uncalled, Holder
    <3>3. row'[u].attempts \geq row[u].attempts
      BY <1>2, PurseIsNat
    <3>4. QED
      BY <1>2, <2>1, <3>1, <3>2, <3>3, PaidKept
  <2>4. QED
    BY <2>2, <2>3
<1>9. QED
  BY <1>8 DEF CallsArePaid

(* An attempt is given back only for a lease that has made no call.        *)
LEMMA RefundPaid ==
    ASSUME IInv, IInv', NEW t \in Targets, Paid(t), Uncalled(t),
           calls' = calls, retries' = retries,
           row'[t].status # "publishing",
           row'[t].attempts \in { row[t].attempts, row[t].attempts - 1 }
    PROVE  Paid(t)'
<1> DEFINE spent == MaxAttempts * retries
<1>1. /\ spent \in Nat /\ row[t].attempts \in Nat /\ calls[t] \in Nat
  BY PurseIsNat
<1>2. Purse(t) = spent + row[t].attempts
  BY DEF Purse
<1>3. Purse(t)' = spent + row'[t].attempts
  BY DEF Purse
<1>4. ~ Uncalled(t)'
  BY DEF Uncalled
<1> HIDE DEF spent
<1>5. QED
  BY <1>1, <1>2, <1>3, <1>4 DEF Paid

LEMMA MarkPaid ==
    ASSUME IInv, IInv', OnceInv, CallsArePaid, NEW w \in Workers, Mark(w)
    PROVE  CallsArePaid'
<1>1. /\ calls' = calls /\ retries' = retries /\ worker[w].step = "mark"
      /\ \A v \in Workers \ {w} : worker'[v] = worker[v]
  BY MarkShape DEF Mark, provider, At
<1>2. PICK t \in Targets : t = worker[w].target
  BY Typed
<1>3. PICK out \in Outcome : out = worker[w].out
  BY Typed
<1>4. \A u \in Targets \ {t} : row'[u] = row[u] /\ ~ Holder(w, u)
  BY <1>2, Typed DEF Mark, Target, Holder
<1>5. ASSUME NEW u \in Targets, row'[u] = row[u], ~ Holder(w, u)
      PROVE  Paid(u)'
  <2>1. Uncalled(u)' => Uncalled(u)
    BY <1>1, <1>5 DEF Uncalled, Holder
  <2>2. row'[u].attempts \geq row[u].attempts
    BY <1>5, PurseIsNat
  <2>3. QED
    BY <1>1, <2>1, <2>2, PaidKept DEF CallsArePaid
<1>6. CASE ~ HoldsLease(w)
  <2>1. row' = row /\ ~ Holder(w, t)
    BY <1>2, <1>6 DEF Mark, HoldsLease, Target, Holder
  <2>2. QED
    BY <1>4, <1>5, <2>1 DEF CallsArePaid
<1>7. CASE HoldsLease(w)
  <2>1. Holder(w, t) /\ Fits(w)
    BY <1>2, <1>7, MarkShape DEF HoldsLease, Target, Holder, OnceInv
  <2>2. row'[t] = Marked(row[t], out) /\ row[t] \in Row
    BY <1>2, <1>3, <1>7, Typed DEF Mark, Target
  <2>3. row'[t].status = StatusFor(out) /\ StatusFor(out) # "publishing"
    BY <2>2 DEF Marked, StatusFor
  <2>4. Paid(t)'
    <3>1. CASE out = "released"
      <4>1. ~ worker[w].asked
        BY <1>3, <2>1, <3>1 DEF Fits, LocalsFit
      <4>2. Uncalled(t)
        BY <2>1, <4>1, HolderPublishes DEF Uncalled
      <4>3. row'[t].attempts \in { row[t].attempts, row[t].attempts - 1 }
        BY <2>2 DEF Marked
      <4>4. QED
        BY <1>1, <2>3, <4>2, <4>3, RefundPaid DEF CallsArePaid
    <3>2. CASE out # "released"
      <4>1. row'[t].attempts = row[t].attempts
        BY <2>2, <3>2 DEF Marked
      <4>2. row'[t].attempts \geq row[t].attempts
        BY <4>1, PurseIsNat
      <4>3. ~ Uncalled(t)'
        BY <2>3 DEF Uncalled
      <4>4. QED
        BY <1>1, <4>2, <4>3, PaidKept DEF CallsArePaid
    <3>3. QED
      BY <3>1, <3>2
  <2>5. QED
    BY <1>4, <1>5, <2>4 DEF CallsArePaid
<1>8. QED
  BY <1>6, <1>7

(* Taking the lease costs an attempt, which is what its call is paid from. *)
LEMMA LeaseTargetPaid ==
    ASSUME IInv, IInv', OnceInv, CallsArePaid,
           NEW w \in Workers, NEW m \in queue, LeaseTarget(w, m)
    PROVE  CallsArePaid'
<1>1. PICK t \in Targets : t = m.target
  BY DEF IInv, RestInv, Messages
<1>2. calls' = calls /\ retries' = retries /\ worker[w].step = "idle"
  BY DEF LeaseTarget, provider, CanReceive, At
<1>3. PICK lease \in Leases :
         /\ row' = [row EXCEPT ![t] = Leased(row[t], lease)]
         /\ worker' = [worker EXCEPT ![w] =
                         [Idle EXCEPT !.step = "load", !.target = t,
                                      !.lease = lease,
                                      !.number = row[t].attempts + 1,
                                      !.batch = {t}]]
  BY <1>1, Typed DEF LeaseTarget
<1>4. /\ row'[t].attempts = row[t].attempts + 1
      /\ \A u \in Targets \ {t} : row'[u] = row[u]
  BY <1>3, Typed DEF Leased, Row
<1>5. \A v \in Workers \ {w} : worker'[v] = worker[v]
  BY <1>3, Typed
<1>6. ASSUME NEW u \in Targets
      PROVE  Paid(u)'
  <2>1. Paid(u)
    BY DEF CallsArePaid
  <2>2. CASE u = t
    <3> DEFINE spent == MaxAttempts * retries
    <3>1. spent \in Nat /\ row[t].attempts \in Nat /\ calls[t] \in Nat
      BY PurseIsNat
    <3>2. Purse(t) = spent + row[t].attempts
      BY DEF Purse
    <3>3. Purse(t)' = spent + row'[t].attempts
      BY <1>2 DEF Purse
    <3> HIDE DEF spent
    <3>4. QED
      BY <1>2, <1>4, <2>1, <2>2, <3>1, <3>2, <3>3 DEF Paid
  <2>3. CASE u # t
    <3>1. ~ Holder(w, u)
      BY <1>2, IdleHoldsNothing
    <3>2. Uncalled(u)' => Uncalled(u)
      BY <1>4, <1>5, <2>3, <3>1 DEF Uncalled, Holder
    <3>3. row'[u].attempts \geq row[u].attempts
      BY <1>4, <2>3, PurseIsNat
    <3>4. QED
      BY <1>2, <2>1, <3>2, <3>3, PaidKept
  <2>4. QED
    BY <2>2, <2>3
<1>7. QED
  BY <1>6 DEF CallsArePaid

LEMMA OtherReceivePaid ==
    ASSUME IInv, IInv', OnceInv, CallsArePaid,
           NEW w \in Workers, NEW m \in queue,
           \/ LeaseRefused(w, m) \/ Reconcile(w, m)
           \/ Poll(w, m) \/ FanOut(w, m)
    PROVE  CallsArePaid'
<1>1. /\ calls' = calls /\ retries' = retries /\ worker[w].step = "idle"
  BY DEF LeaseRefused, Reconcile, Poll, FanOut, provider, CanReceive, At
<1>2. \A v \in Workers \ {w} : worker'[v] = worker[v]
  BY Typed DEF LeaseRefused, Reconcile, Poll, FanOut
<1>3. Remembers(w)
  BY <1>1, IdleHoldsNothing DEF Remembers
<1>4. ASSUME NEW t \in Targets
      PROVE  /\ row'[t].attempts \geq row[t].attempts
             /\ row'[t].status = "publishing" =>
                   /\ row[t].status = "publishing"
                   /\ row'[t].lease = row[t].lease
  <2>1. row[t].attempts \in Nat /\ row[t] \in Row
    BY PurseIsNat, Typed
  <2>2. \/ row'[t] = row[t]
        \/ row'[t] = [row[t] EXCEPT !.status = "queued", !.due = TRUE]
    BY DEF LeaseRefused, Reconcile, Poll, FanOut, database
  <2>3. \/ row'[t] = row[t]
        \/ row'[t].status = "queued" /\ row'[t].attempts = row[t].attempts
    BY <2>1, <2>2 DEF Row
  <2>4. QED
    BY <2>1, <2>3
<1>5. QED
  BY <1>1, <1>2, <1>3, <1>4, PaidByFrame

(* A customer decision buys max_attempts calls and resets the count.       *)
LEMMA RetryPaid ==
    ASSUME IInv, IInv', CallsArePaid, Retry
    PROVE  CallsArePaid'
<1>1. PICK batch \in SUBSET { t \in Targets : row[t].status \in Requeueable } :
         row' = [ t \in Targets |->
                    IF t \in batch
                    THEN [row[t] EXCEPT !.status = "queued",
                                        !.lease = NoLease,
                                        !.expired = FALSE, !.due = TRUE,
                                        !.attempts = 0]
                    ELSE row[t] ]
  BY DEF Retry
<1>2. calls' = calls /\ retries' = retries + 1 /\ worker' = worker
  BY DEF Retry, provider
<1>3. ASSUME NEW t \in Targets
      PROVE  Paid(t)'
  <2> DEFINE spent == MaxAttempts * retries
             spent1 == MaxAttempts * (retries + 1)
  <2>1. /\ spent \in Nat /\ calls[t] \in Nat /\ MaxAttempts \in Nat
        /\ row[t].attempts \in Nat /\ row[t].attempts \leq MaxAttempts
    BY PurseIsNat
  <2>2. spent1 = spent + MaxAttempts
    <3>1. MaxAttempts \in Nat /\ retries \in Nat
      BY Typed, BoundsAssumption
    <3>2. QED
      BY <3>1
  <2>3. Purse(t) = spent + row[t].attempts
    BY DEF Purse
  <2>4. Purse(t)' = spent1 + row'[t].attempts
    BY <1>2 DEF Purse
  <2> HIDE DEF spent, spent1
  <2>5. Paid(t)
    BY DEF CallsArePaid
  <2>6. CASE t \in batch
    <3>1. row'[t].status = "queued" /\ row'[t].attempts = 0
      <4>1. row[t] \in Row
        BY Typed
      <4>2. row'[t] = [row[t] EXCEPT !.status = "queued",
                                      !.lease = NoLease, !.expired = FALSE,
                                      !.due = TRUE, !.attempts = 0]
        BY <1>1, <2>6
      <4>3. QED
        BY <4>1, <4>2 DEF Row
    <3>2. ~ Uncalled(t)'
      BY <3>1 DEF Uncalled
    <3>3. QED
      BY <1>2, <2>1, <2>2, <2>3, <2>4, <2>5, <3>1, <3>2 DEF Paid
  <2>7. CASE t \notin batch
    <3>1. row'[t] = row[t]
      BY <1>1, <2>7
    <3>2. Uncalled(t)' => Uncalled(t)
      BY <1>2, <3>1 DEF Uncalled, Holder
    <3>3. QED
      BY <1>2, <2>1, <2>2, <2>3, <2>4, <2>5, <3>1, <3>2 DEF Paid
  <2>8. QED
    BY <2>6, <2>7
<1>4. QED
  BY <1>3 DEF CallsArePaid

LEMMA ApiPaid ==
    ASSUME IInv, IInv', CallsArePaid, Api
    PROVE  CallsArePaid'
<1>1. CASE Retry
  BY <1>1, RetryPaid
<1>2. CASE Cancel \/ ApiRecalculate \/ ApiSend \/ ApiAbort
  <2>1. calls' = calls /\ retries' = retries /\ worker' = worker
    BY <1>2 DEF Cancel, ApiRecalculate, ApiSend, ApiAbort, provider
  <2>2. ASSUME NEW t \in Targets
        PROVE  /\ row'[t].attempts \geq row[t].attempts
               /\ row'[t].status = "publishing" =>
                     /\ row[t].status = "publishing"
                     /\ row'[t].lease = row[t].lease
    <3>1. row[t].attempts \in Nat /\ row[t] \in Row
      BY PurseIsNat, Typed
    <3>2. \/ row'[t] = row[t]
          \/ row'[t] = [row[t] EXCEPT !.status = "cancelled",
                                      !.lease = NoLease, !.expired = FALSE,
                                      !.due = TRUE]
      BY <1>2 DEF Cancel, ApiRecalculate, ApiSend, ApiAbort, database
    <3>3. \/ row'[t] = row[t]
          \/ row'[t].status = "cancelled" /\ row'[t].attempts = row[t].attempts
      BY <3>1, <3>2 DEF Row
    <3>4. QED
      BY <3>1, <3>3
  <2>3. PICK w \in Workers : TRUE
    BY WorkersAssumption
  <2>4. QED
    BY <2>1, <2>2, <2>3, PaidByFrame
<1>3. QED
  BY <1>1, <1>2 DEF Api

(* A lease the sweep takes back was never used: its holder is gone.        *)
LEMMA CronPaid ==
    ASSUME IInv, IInv', OnceInv, CallsArePaid, Cron
    PROVE  CallsArePaid'
<1>1. CASE SweepScheduled
  <2>1. /\ row' = row /\ worker' = worker
        /\ calls' = calls /\ retries' = retries
    BY <1>1 DEF SweepScheduled, database, provider
  <2>2. PICK w \in Workers : TRUE
    BY WorkersAssumption
  <2>3. \A t \in Targets : row'[t].attempts \geq row[t].attempts
    BY <2>1, PurseIsNat
  <2>4. QED
    BY <2>1, <2>2, <2>3, PaidByFrame
<1>2. ASSUME NEW t \in Targets, SweepAbandoned(t)
      PROVE  CallsArePaid'
  <2>1. /\ calls' = calls /\ retries' = retries /\ worker' = worker
        /\ row[t].status = "publishing" /\ row[t].expired
        /\ row' = [row EXCEPT ![t] =
                      [Marked(row[t], "released") EXCEPT !.due = TRUE]]
    BY <1>2, Typed DEF SweepAbandoned, provider
  <2>2. /\ row'[t].status = "queued"
        /\ row'[t].attempts \in { row[t].attempts, row[t].attempts - 1 }
        /\ \A u \in Targets \ {t} : row'[u] = row[u]
    BY <2>1, Typed DEF Marked, StatusFor
  <2>3. Uncalled(t)
    BY <2>1 DEF Uncalled, OnceInv, RowIsTrue
  <2>4. Paid(t)'
    BY <2>1, <2>2, <2>3, RefundPaid DEF CallsArePaid
  <2>5. ASSUME NEW u \in Targets \ {t}
        PROVE  Paid(u)'
    <3>1. row'[u] = row[u]
      BY <2>2
    <3>2. Uncalled(u)' => Uncalled(u)
      BY <2>1, <3>1 DEF Uncalled, Holder
    <3>3. row'[u].attempts \geq row[u].attempts
      BY <3>1, PurseIsNat
    <3>4. QED
      BY <2>1, <3>2, <3>3, PaidKept DEF CallsArePaid
  <2>6. QED
    BY <2>4, <2>5 DEF CallsArePaid
<1>3. QED
  BY <1>1, <1>2 DEF Cron

LEMMA TimePaid ==
    ASSUME IInv, IInv', CallsArePaid, Time
    PROVE  CallsArePaid'
<1>1. calls' = calls /\ retries' = retries /\ worker' = worker
  BY DEF Time, TimeArrives, BackoffPasses, LeaseExpires, provider
<1>2. ASSUME NEW t \in Targets
      PROVE  /\ row'[t].attempts = row[t].attempts
             /\ row'[t].status = row[t].status
             /\ row'[t].lease = row[t].lease
  <2>1. row \in [Targets -> Row]
    BY Typed
  <2>2. CASE TimeArrives
    BY <2>2 DEF TimeArrives
  <2>3. CASE \E u \in Targets : BackoffPasses(u) \/ LeaseExpires(u)
    BY <2>1, <2>3 DEF BackoffPasses, LeaseExpires, Row
  <2>4. QED
    BY <2>2, <2>3 DEF Time
<1>3. \A t \in Targets : row'[t].attempts \geq row[t].attempts
  BY <1>2, PurseIsNat
<1>4. PICK w \in Workers : TRUE
  BY WorkersAssumption
<1>5. QED
  BY <1>1, <1>2, <1>3, <1>4, PaidByFrame

LEMMA NextPreservesPaid ==
    ASSUME OutcomesAreRecorded, IInv, OnceInv, CallsArePaid, [Next]_vars
    PROVE  CallsArePaid'
<1>1. IInv'
  BY NextPreservesIInv
<1>2. ASSUME NEW w \in Workers, WorkerStep(w) \/ Fault(w)
      PROVE  CallsArePaid'
  BY <1>1, <1>2, StepPaid, CallProviderPaid, MarkPaid DEF WorkerStep, Fault
<1>3. ASSUME NEW w \in Workers, NEW m \in queue, Receive(w, m)
      PROVE  CallsArePaid'
  BY <1>1, <1>3, LeaseTargetPaid, OtherReceivePaid DEF Receive
<1>4. CASE UNCHANGED vars
  <2>1. /\ row' = row /\ worker' = worker
        /\ calls' = calls /\ retries' = retries
    BY <1>4 DEF vars, database, provider
  <2>2. PICK w \in Workers : TRUE
    BY WorkersAssumption
  <2>3. \A t \in Targets : row'[t].attempts \geq row[t].attempts
    BY <2>1, PurseIsNat
  <2>4. QED
    BY <1>1, <2>1, <2>2, <2>3, PaidByFrame
<1>5. QED
  BY <1>1, <1>2, <1>3, <1>4, ApiPaid, CronPaid, TimePaid DEF Next

(* The provider is asked at most max_attempts times per customer decision, *)
(* whatever the refunds for denied permits and swept leases were worth.    *)
THEOREM BudgetRespectedHolds ==
    ASSUME OutcomesAreRecorded
    PROVE  Spec => []BudgetRespected
<1>1. Init => CallsArePaid
  <2> SUFFICES ASSUME Init, NEW t \in Targets PROVE Paid(t)
    BY DEF CallsArePaid
  <2>1. /\ row[t].status # "publishing" /\ row[t].attempts = 0
        /\ calls[t] = 0 /\ retries = 0
    BY DEF Init, NewRow
  <2>2. MaxAttempts * retries = 0
    BY <2>1, BoundsAssumption
  <2>3. QED
    BY <2>1, <2>2 DEF Paid, Purse, Uncalled
<1>2. IInv /\ OnceInv /\ CallsArePaid /\ [Next]_vars => CallsArePaid'
  BY NextPreservesPaid
<1>3. IInv /\ CallsArePaid => BudgetRespected
  <2> SUFFICES ASSUME IInv, CallsArePaid, NEW t \in Targets
               PROVE  calls[t] \leq MaxAttempts * (retries + 1)
    BY DEF BudgetRespected
  <2> DEFINE spent == MaxAttempts * retries
             spent1 == MaxAttempts * (retries + 1)
  <2>1. /\ spent \in Nat /\ calls[t] \in Nat /\ MaxAttempts \in Nat
        /\ row[t].attempts \in Nat /\ row[t].attempts \leq MaxAttempts
    BY PurseIsNat
  <2>2. spent1 = spent + MaxAttempts
    <3>1. MaxAttempts \in Nat /\ retries \in Nat
      BY Typed, BoundsAssumption
    <3>2. QED
      BY <3>1
  <2>3. calls[t] \leq spent + row[t].attempts
    BY DEF CallsArePaid, Paid, Purse
  <2> HIDE DEF spent, spent1
  <2>4. calls[t] \leq spent1
    BY <2>1, <2>2, <2>3
  <2>5. QED
    BY <2>4 DEF spent1
<1>4. QED
  BY <1>1, <1>2, <1>3, IInvHolds, OnceInvHolds, PTL DEF Spec

-----------------------------------------------------------------------------
(* The promise.                                                            *)

claims == [ t \in Targets |-> ClaimOf(row[t]) ]

Stutter == UNCHANGED << claims, live >>

LEMMA StutterIsPromised == Stutter => UNCHANGED Promise!vars
BY DEF Stutter, Promise!vars, claims

(* Where work may start or is going on, the row claims nothing.            *)
LEMMA OpenClaims ==
    ASSUME NEW r, r.status \in Loose \cup { "publishing" }
    PROVE  ClaimOf(r) = "open"
BY DEF ClaimOf, Loose

LEMMA SameClaims ==
    ASSUME \A t \in Targets :
               \/ /\ row'[t].status = row[t].status
                  /\ row'[t].simulated = row[t].simulated
               \/ /\ row[t].status \in Loose \cup { "publishing" }
                  /\ row'[t].status \in Loose \cup { "publishing" }
    PROVE  claims' = claims
<1>1. ASSUME NEW t \in Targets
      PROVE  ClaimOf(row'[t]) = ClaimOf(row[t])
  <2>1. CASE /\ row'[t].status = row[t].status
             /\ row'[t].simulated = row[t].simulated
    BY <2>1 DEF ClaimOf
  <2>2. CASE /\ row[t].status \in Loose \cup { "publishing" }
             /\ row'[t].status \in Loose \cup { "publishing" }
    BY <2>2, OpenClaims
  <2>3. QED
    BY <2>1, <2>2
<1>2. QED
  BY <1>1 DEF claims

(* A step that writes one row makes one claim.                             *)
LEMMA OneClaim ==
    ASSUME NEW t \in Targets,
           \A u \in Targets \ {t} : row'[u] = row[u]
    PROVE  claims' = [claims EXCEPT ![t] = ClaimOf(row'[t])]
<1>1. \A u \in Targets :
         claims'[u] = IF u = t THEN ClaimOf(row'[t]) ELSE claims[u]
  BY DEF claims
<1>2. /\ claims = [ u \in Targets |-> claims[u] ]
      /\ claims' = [ u \in Targets |-> claims'[u] ]
  BY DEF claims
<1> HIDE DEF claims
<1>3. QED
  BY <1>1, <1>2

LEMMA CallPosts ==
    ASSUME IInv, OnceInv, NEW w \in Workers, CallProvider(w)
    PROVE  Promise!Next \/ Stutter
<1>1. PICK t \in Targets : t = worker[w].target
  BY Typed
<1>2. /\ row' = row /\ worker[w].step = "call"
      /\ live' = live \/ live' = [live EXCEPT ![t] = live[t] + 1]
  BY <1>1, Typed DEF CallProvider, database, At, Target
<1>3. Holder(w, t) /\ ~ worker[w].asked
  BY <1>1, <1>2 DEF OnceInv, Fits, LeaseFits, LocalsFit, Early, Holder
<1>4. row[t].status = "publishing" /\ \A v \in Workers : Holder(v, t) => v = w
  BY <1>3, HolderPublishes
<1>5. live[t] = 0
  BY <1>3, <1>4 DEF OnceInv, RowIsTrue, Records, Unresolved
<1>6. claims' = claims
  BY <1>2 DEF claims
<1>7. CASE live' = live
  BY <1>6, <1>7 DEF Stutter
<1>8. CASE live' = [live EXCEPT ![t] = live[t] + 1]
  <2>1. claims[t] = "open"
    BY <1>4, OpenClaims DEF claims
  <2>2. live' = [live EXCEPT ![t] = 1]
    BY <1>5, <1>8
  <2>3. Promise!Post(t)
    BY <1>5, <1>6, <2>1, <2>2 DEF Promise!Post, claims
  <2>4. QED
    BY <2>3 DEF Promise!Next
<1>9. QED
  BY <1>2, <1>7, <1>8

LEMMA MarkClaims ==
    ASSUME IInv, OnceInv, NEW w \in Workers, Mark(w)
    PROVE  Promise!Next \/ Stutter
<1>1. live' = live
  BY DEF Mark, provider
<1>2. CASE ~ HoldsLease(w)
  BY <1>1, <1>2 DEF Mark, Stutter, claims
<1>3. CASE HoldsLease(w)
  <2>1. PICK t \in Targets : t = worker[w].target
    BY Typed
  <2>2. PICK out \in Outcome : out = worker[w].out
    BY Typed
  <2>3. /\ row[t].status = "publishing"
        /\ row'[t].status = StatusFor(out)
        /\ row'[t].simulated <=> out = "simulated"
        /\ \A u \in Targets \ {t} : row'[u] = row[u]
        /\ live[t] \in { 0, 1 }
        /\ live[t] = 1 => out \in { "published", "processing", "unknown" }
        /\ out \in { "published", "processing", "found" } => live[t] = 1
        /\ out = "simulated" => live[t] = 0
    BY <1>3, <2>1, <2>2, MarkedTruly
  <2>4. claims[t] = "open"
    BY <2>3, OpenClaims DEF claims
  <2>5. claims' = [claims EXCEPT ![t] = ClaimOf(row'[t])]
    BY <2>3, OneClaim
  <2>6. CASE out \in { "published", "found" }
    <3>1. ClaimOf(row'[t]) = "published"
      BY <2>3, <2>6 DEF ClaimOf, StatusFor
    <3>2. Promise!Succeed(t)
      BY <1>1, <2>3, <2>4, <2>5, <2>6, <3>1
         DEF Promise!Succeed, Promise!Says, claims
    <3>3. QED
      BY <3>2 DEF Promise!Next
  <2>7. CASE out = "processing"
    <3>1. ClaimOf(row'[t]) = "accepted"
      BY <2>3, <2>7 DEF ClaimOf, StatusFor
    <3>2. Promise!Succeed(t)
      BY <1>1, <2>3, <2>4, <2>5, <2>7, <3>1
         DEF Promise!Succeed, Promise!Says, claims
    <3>3. QED
      BY <3>2 DEF Promise!Next
  <2>8. CASE out = "simulated"
    <3>1. ClaimOf(row'[t]) = "simulated"
      BY <2>3, <2>8 DEF ClaimOf, StatusFor
    <3>2. Promise!Simulate(t)
      BY <1>1, <2>3, <2>4, <2>5, <2>8, <3>1
         DEF Promise!Simulate, Promise!Says, claims
    <3>3. QED
      BY <3>2 DEF Promise!Next
  <2>9. CASE out \in { "permanent", "indeterminate" }
    <3>1. ClaimOf(row'[t]) = "failed" /\ live[t] = 0
      BY <2>3, <2>9 DEF ClaimOf, StatusFor
    <3>2. Promise!Fail(t)
      BY <1>1, <2>4, <2>5, <3>1 DEF Promise!Fail, Promise!Says, claims
    <3>3. QED
      BY <3>2 DEF Promise!Next
  <2>10. CASE out \in { "retryable", "absent", "released" }
    <3>1. row'[t].status \in Loose
      BY <2>3, <2>10 DEF StatusFor, Loose
    <3>2. claims' = claims
      BY <2>3, <3>1, SameClaims
    <3>3. QED
      BY <1>1, <3>2 DEF Stutter
  <2>11. CASE out \in { "none", "unknown", "fanned_out" }
    <3>1. ClaimOf(row'[t]) = "in_doubt"
      BY <2>3, <2>11 DEF ClaimOf, StatusFor
    <3>2. Promise!Doubt(t)
      BY <1>1, <2>4, <2>5, <3>1 DEF Promise!Doubt, Promise!Says, claims
    <3>3. QED
      BY <3>2 DEF Promise!Next
  <2>12. QED
    BY <2>6, <2>7, <2>8, <2>9, <2>10, <2>11 DEF Outcome
<1>4. QED
  BY <1>2, <1>3

LEMMA ResolveClaims ==
    ASSUME IInv, OnceInv, NEW w \in Workers, Resolve(w)
    PROVE  Promise!Next \/ Stutter
<1>1. live' = live /\ worker[w].step = "resolve"
  BY DEF Resolve, provider, At
<1>2. PICK t \in Targets : t = worker[w].target
  BY Typed
<1>3. PICK out \in { "found", "absent", "indeterminate" } :
         out = worker[w].out
  BY ResolveShape
<1>4. CASE row[t].status # Unresolved
  BY <1>1, <1>2, <1>4 DEF Resolve, Target, Unresolved, Stutter, claims
<1>5. CASE row[t].status = Unresolved
  <2>1. row' = [row EXCEPT ![t].status = StatusFor(out),
                           ![t].lease = NoLease, ![t].expired = FALSE,
                           ![t].due = TRUE]
    BY <1>2, <1>3, <1>5 DEF Resolve, Target, Unresolved
  <2>2. /\ row'[t].status = StatusFor(out)
        /\ row'[t].simulated = row[t].simulated
        /\ \A u \in Targets \ {t} : row'[u] = row[u]
    BY <2>1, Typed DEF Row
  <2>3. /\ ~ row[t].simulated /\ live[t] \in { 0, 1 }
        /\ out = "found" => live[t] = 1
        /\ out = "absent" => live[t] = 0
    BY <1>1, <1>2, <1>3, <1>5
       DEF OnceInv, Fits, LocalsFit, VerdictFits, RowIsTrue, Unresolved
  <2>4. claims[t] = "in_doubt"
    BY <1>5 DEF claims, ClaimOf, Unresolved
  <2>5. claims' = [claims EXCEPT ![t] = ClaimOf(row'[t])]
    BY <2>2, OneClaim
  <2>6. /\ out = "found" => ClaimOf(row'[t]) = "published"
        /\ out = "absent" => ClaimOf(row'[t]) = "open"
        /\ out = "indeterminate" => ClaimOf(row'[t]) = "failed"
    BY <2>2, <2>3 DEF ClaimOf, StatusFor
  <2>7. CASE out # "indeterminate"
    <3>1. Promise!Resolve(t)
      BY <1>1, <2>3, <2>4, <2>5, <2>6, <2>7
         DEF Promise!Resolve, Promise!Says, claims
    <3>2. QED
      BY <3>1 DEF Promise!Next
  <2>8. CASE out = "indeterminate"
    <3>1. Promise!GiveUp(t)
      BY <1>1, <2>4, <2>5, <2>6, <2>8
         DEF Promise!GiveUp, Promise!Says, claims
    <3>2. QED
      BY <3>1 DEF Promise!Next
  <2>9. QED
    BY <2>7, <2>8
<1>6. QED
  BY <1>4, <1>5

LEMMA ReceiveStutters ==
    ASSUME IInv, NEW w \in Workers, NEW m \in queue, Receive(w, m)
    PROVE  Stutter
<1>1. live' = live /\ row \in [Targets -> Row]
  BY Typed DEF Receive, LeaseTarget, LeaseRefused, Reconcile, Poll, FanOut,
               provider
<1>2. ASSUME NEW t \in Targets
      PROVE  \/ row'[t] = row[t]
             \/ /\ row[t].status \in Loose \cup { "publishing" }
                /\ row'[t].status \in Loose \cup { "publishing" }
  <2>1. CASE LeaseTarget(w, m)
    <3>1. PICK lease \in Leases :
             row' = [row EXCEPT ![m.target] = Leased(row[m.target], lease)]
      BY <1>1, <2>1 DEF LeaseTarget, IInv, RestInv, Messages
    <3>2. row[m.target].status \in Loose
      BY <2>1 DEF LeaseTarget, CanLease, LeasableTargetStatus, Loose
    <3>3. QED
      BY <1>1, <3>1, <3>2 DEF Leased, Row
  <2>2. CASE FanOut(w, m)
    BY <1>1, <2>2 DEF FanOut, Row, Loose
  <2>3. CASE LeaseRefused(w, m) \/ Reconcile(w, m) \/ Poll(w, m)
    BY <2>3 DEF LeaseRefused, Reconcile, Poll, database
  <2>4. QED
    BY <2>1, <2>2, <2>3 DEF Receive
<1>3. claims' = claims
  BY <1>2, SameClaims
<1>4. QED
  BY <1>1, <1>3 DEF Stutter

LEMMA CancelCallsOff ==
    ASSUME IInv, OnceInv, Cancel
    PROVE  Promise!Next
<1> DEFINE S == { t \in Targets : row[t].status \in Cancellable }
<1>1. live' = live /\ row \in [Targets -> Row]
  BY Typed DEF Cancel, provider
<1>2. ASSUME NEW t \in S
      PROVE  row[t].status \in Loose /\ claims[t] = "open" /\ live[t] = 0
  <2>1. row[t].status \in Loose
    BY <1>2 DEF Cancellable, Loose, IInv, RowsInv
  <2>2. live[t] = 0
    BY <1>2, <2>1 DEF OnceInv, RowIsTrue, Loose, Unresolved
  <2>3. QED
    BY <1>2, <2>1, <2>2, OpenClaims DEF claims
<1>3. ASSUME NEW t \in Targets
      PROVE  ClaimOf(row'[t]) = IF t \in S THEN "cancelled" ELSE claims[t]
  <2>1. CASE t \in S
    <3>1. row'[t].status = "cancelled"
      BY <1>1, <2>1 DEF Cancel, Row
    <3>2. QED
      BY <2>1, <3>1 DEF ClaimOf
  <2>2. CASE t \notin S
    BY <2>2 DEF Cancel, claims
  <2>3. QED
    BY <2>1, <2>2
<1>4. claims' = [ t \in Targets |-> IF t \in S THEN "cancelled" ELSE claims[t] ]
  BY <1>3 DEF claims
<1>5. S \in SUBSET Targets
  OBVIOUS
<1> HIDE DEF S
<1>6. Promise!Cancel(S)
  BY <1>1, <1>2, <1>4, <1>5 DEF Promise!Cancel, claims
<1>7. QED
  BY <1>5, <1>6 DEF Promise!Next

LEMMA RestStutters ==
    ASSUME IInv, Retry \/ ApiRecalculate \/ ApiSend \/ ApiAbort \/ Cron \/ Time
    PROVE  Stutter
<1>1. row \in [Targets -> Row]
  BY Typed
<1>2. live' = live
  BY DEF Retry, ApiRecalculate, ApiSend, ApiAbort, Cron, SweepScheduled,
         SweepAbandoned, Time, TimeArrives, BackoffPasses, LeaseExpires,
         provider
<1>3. ASSUME NEW t \in Targets
      PROVE  \/ /\ row'[t].status = row[t].status
                /\ row'[t].simulated = row[t].simulated
             \/ /\ row[t].status \in Loose \cup { "publishing" }
                /\ row'[t].status \in Loose \cup { "publishing" }
  <2>1. CASE Retry
    <3>1. \/ row'[t] = row[t]
          \/ /\ row[t].status = "retryable_failed"
             /\ row'[t] = [row[t] EXCEPT !.status = "queued",
                                         !.lease = NoLease,
                                         !.expired = FALSE, !.due = TRUE,
                                         !.attempts = 0]
      BY <2>1 DEF Retry, Requeueable
    <3>2. QED
      BY <1>1, <3>1 DEF Row, Loose
  <2>2. CASE ApiRecalculate \/ ApiSend \/ ApiAbort
    BY <2>2 DEF ApiRecalculate, ApiSend, ApiAbort, database
  <2>3. CASE SweepScheduled
    BY <2>3 DEF SweepScheduled, database
  <2>4. ASSUME NEW u \in Targets, SweepAbandoned(u)
        PROVE  \/ row'[t] = row[t]
               \/ /\ row[t].status = "publishing"
                  /\ row'[t].status = "queued"
    <3>1. row[u].status = "publishing"
      BY <2>4 DEF SweepAbandoned
    <3>2. row' = [row EXCEPT ![u] =
                    [Marked(row[u], "released") EXCEPT !.due = TRUE]]
      BY <1>1, <2>4 DEF SweepAbandoned
    <3>3. row'[u].status = "queued"
      BY <1>1, <3>2 DEF Marked, StatusFor
    <3>4. QED
      BY <1>1, <3>1, <3>2, <3>3
  <2>5. CASE Time
    BY <1>1, <2>5 DEF Time, TimeArrives, BackoffPasses, LeaseExpires, Row
  <2>6. QED
    BY <2>1, <2>2, <2>3, <2>4, <2>5 DEF Cron, Loose
<1>4. claims' = claims
  BY <1>3, SameClaims
<1>5. QED
  BY <1>2, <1>4 DEF Stutter

LEMMA StepIsPromised ==
    IInv /\ OnceInv /\ [Next]_vars => [Promise!Next]_(Promise!vars)
<1> SUFFICES ASSUME IInv, OnceInv, [Next]_vars
             PROVE  Promise!Next \/ UNCHANGED Promise!vars
  OBVIOUS
<1>1. ASSUME NEW w \in Workers, WorkerStep(w) \/ Fault(w)
      PROVE  Promise!Next \/ Stutter
  <2>1. CASE CallProvider(w) \/ Mark(w) \/ Resolve(w)
    BY <2>1, CallPosts, MarkClaims, ResolveClaims
  <2>2. CASE ~ (CallProvider(w) \/ Mark(w) \/ Resolve(w))
    <3>1. row' = row /\ live' = live
      BY <1>1, <2>2 DEF WorkerStep, Fault, LoadContext, StartAttempt,
         PrepareFails, Finish, Meter, Search, Send, Recalculate, CatchError,
         Abort, database, provider
    <3>2. QED
      BY <3>1 DEF Stutter, claims
  <2>3. QED
    BY <2>1, <2>2
<1>2. ASSUME UNCHANGED vars
      PROVE  Stutter
  BY <1>2 DEF vars, database, provider, Stutter, claims
<1>3. ASSUME NEW w \in Workers, NEW m \in queue, Receive(w, m)
      PROVE  Stutter
  BY <1>3, ReceiveStutters
<1>4. ASSUME Cancel
      PROVE  Promise!Next
  BY <1>4, CancelCallsOff
<1>5. ASSUME Retry \/ ApiRecalculate \/ ApiSend \/ ApiAbort \/ Cron \/ Time
      PROVE  Stutter
  BY <1>5, RestStutters
<1>6. Promise!Next \/ Stutter
  BY <1>1, <1>2, <1>3, <1>4, <1>5 DEF Next, Api
<1>7. QED
  BY <1>6, StutterIsPromised

LEMMA InitIsPromised == Init => Promise!Init
BY DEF Init, Promise!Init, NewRow, ClaimOf

(* The engine, with its leases, attempts, messages, sweeps, searches and   *)
(* requests, is a way to keep PublishPromise: it posts each target at most *)
(* once, only while it is open, and never says of a post what is not so.   *)
THEOREM KeepsThePromise ==
    ASSUME OutcomesAreRecorded
    PROVE  Spec => PromiseKept
<1>1. QED
  BY InitIsPromised, StepIsPromised, IInvHolds, OnceInvHolds, PTL
     DEF Spec, PromiseKept, Promise!Spec

=============================================================================
