----------------------------- MODULE WebhookProofs -----------------------------
(***************************************************************************)
(* What holds of WebhookDelivery for every set of deliveries and isolates, *)
(* every length of the ladder and every combination of faults, consumers   *)
(* that die at any await included: the types, that one isolate at a time   *)
(* works on a delivery, and that every step is a step of DeliveryPromise   *)
(* or changes nothing the customer was promised.                           *)
(***************************************************************************)
EXTENDS WebhookDelivery, TLAPS

-----------------------------------------------------------------------------
(* The inductive invariant.                                                *)

Row == [ status : DeliveryStatus, lease : Workers \cup {NoWorker},
         attempts : 0 .. Rungs - 1, wait : { "delay", "over" } ]

Local == [ step : Step, delivery : Deliveries, number : 0 .. Rungs,
           out : Outcome ]

Engaged == { "context", "post", "record" }

(* A row that may be leased is free and has a rung left; a row without a   *)
(* lease is not being delivered; no request was made without an attempt.   *)
RowOK(r, n) ==
    /\ r.status = "none" => r.attempts = 0
    /\ r.status \in { "none", "pending", "failed_retryable" } =>
         r.attempts <= Rungs - 2 /\ r.lease = NoWorker
    /\ n <= r.attempts

(* Between lease and record the row is the isolate's; its attempt number   *)
(* is one ahead of the row, and before the request so is the row of the    *)
(* requests made.                                                          *)
Holding(state, w) ==
    LET d == state.delivery IN
    /\ row[d].lease = w
    /\ row[d].status = "delivering"
    /\ state.number = row[d].attempts + 1
    /\ state.step \in { "context", "post" } => posts[d] < row[d].attempts

LocalOK(state, w) ==
    /\ state.step \in Engaged => Holding(state, w)
    /\ state.step = "record" =>
         /\ state.out \in { "succeeded", "retrying", "exhausted", "refused" }
         /\ state.out = "succeeded" => state.delivery \in acked
         /\ state.out = "retrying" => state.number < Rungs
    /\ state.step = "send" => state.number \in 1 .. Rungs - 1

Types ==
    /\ row \in [Deliveries -> Row]
    /\ endpoint \in [ status : { "enabled", "disabled", "auto_disabled" },
                      failures : Nat ]
    /\ queue \subseteq [ delivery : Deliveries, after : 0 .. Rungs - 2 ]
    /\ worker \in [Workers -> Local]
    /\ posts \in [Deliveries -> 0 .. Rungs - 1]
    /\ acked \subseteq Deliveries
    /\ mishaps \in 0 .. MaxMishaps

IInv ==
    /\ Types
    /\ \A d \in Deliveries : RowOK(row[d], posts[d])
    /\ \A w \in Workers : LocalOK(worker[w], w)

(* The types of the runs are those of the proof.                           *)
LEMMA TypesAreTypeOK == Types <=> TypeOK
BY DEF Types, TypeOK, Row, Local

(* An idle isolate has no claim on anything.                               *)
LEMMA IdleIsLocal ==
    /\ Idle \in Local
    /\ Idle.step = "idle"
<1>1. AnyDelivery \in Deliveries
  BY DeliveriesAssumption DEF AnyDelivery
<1>2. QED
  BY <1>1, LadderAssumption DEF Idle, Doing, Local, Step, Outcome

(* No two isolates hold one row.                                           *)
LEMMA HoldersDiffer ==
    ASSUME IInv, NEW v \in Workers, NEW w \in Workers, v # w,
           worker[v].step \in Engaged, worker[w].step \in Engaged
    PROVE  Delivery(v) # Delivery(w)
BY DEF IInv, LocalOK, Holding, Delivery

-----------------------------------------------------------------------------
THEOREM InitIInv == Init => IInv
<1> SUFFICES ASSUME Init PROVE IInv
  OBVIOUS
<1>1. ASSUME NEW d \in Deliveries
      PROVE  /\ row[d] \in Row
             /\ row[d] = [ status |-> "none", lease |-> NoWorker,
                           attempts |-> 0, wait |-> "over" ]
  BY LadderAssumption DEF Init, NewRow, Row, DeliveryStatus
<1>2. Types
  <2>1. row \in [Deliveries -> Row]
    BY <1>1, Zenon DEF Init
  <2>2. worker \in [Workers -> Local]
    BY IdleIsLocal DEF Init
  <2>3. posts \in [Deliveries -> 0 .. Rungs - 1]
    BY LadderAssumption DEF Init
  <2>4. QED
    BY <2>1, <2>2, <2>3, FaultsAssumption DEF Init, Types
<1>3. \A d \in Deliveries : RowOK(row[d], posts[d])
  BY <1>1, LadderAssumption DEF Init, RowOK
<1>4. \A w \in Workers : LocalOK(worker[w], w)
  BY IdleIsLocal DEF Init, LocalOK, Engaged
<1>5. QED
  BY <1>2, <1>3, <1>4 DEF IInv

-----------------------------------------------------------------------------
(* An isolate keeps what it knows through a step that leaves it alone, and *)
(* its row and requests too while it is engaged.                           *)
LEMMA BystanderKeeps ==
    ASSUME NEW w \in Workers, LocalOK(worker[w], w),
           worker'[w] = worker[w], acked \subseteq acked',
           worker[w].step \in Engaged =>
               /\ row'[Delivery(w)] = row[Delivery(w)]
               /\ posts'[Delivery(w)] = posts[Delivery(w)]
    PROVE  LocalOK(worker[w], w)'
BY DEF LocalOK, Holding, Delivery

(* A row nobody leased is not that of an engaged isolate.                  *)
LEMMA FreeRowIsNobodys ==
    ASSUME IInv, NEW w \in Workers, worker[w].step \in Engaged,
           NEW d \in Deliveries, row[d].lease = NoWorker
    PROVE  Delivery(w) # d
BY NoWorkerAssumption DEF IInv, LocalOK, Holding, Delivery

(* Whatever leaves the isolates and their rows alone keeps IInv, if it     *)
(* keeps the types and the rows in order.                                  *)
LEMMA QuietStep ==
    ASSUME IInv, Types', \A d \in Deliveries : RowOK(row[d], posts[d])',
           UNCHANGED << worker, posts, acked >>,
           \A w \in Workers : worker[w].step \in Engaged =>
               row'[Delivery(w)] = row[Delivery(w)]
    PROVE  IInv'
<1>1. ASSUME NEW w \in Workers PROVE LocalOK(worker[w], w)'
  BY <1>1, BystanderKeeps DEF IInv
<1>2. QED
  BY <1>1 DEF IInv

(* A new row was nobody's before.                                          *)
LEMMA InsertKeeps ==
    ASSUME IInv, NEW d \in Deliveries, Insert(d)
    PROVE  IInv'
<1>1. NewRow("pending") \in Row
  BY LadderAssumption DEF NewRow, Row, DeliveryStatus
<1>2. /\ row[d].lease = NoWorker /\ row[d].attempts = 0
      /\ posts[d] \in Nat /\ posts[d] <= 0
  BY LadderAssumption DEF Insert, IInv, Types, RowOK, Row
<1>3. \A e \in Deliveries :
         row'[e] = IF e = d THEN NewRow("pending") ELSE row[e]
  BY DEF Insert, IInv, Types
<1>4. Types'
  <2>1. row' \in [Deliveries -> Row]
    BY <1>1 DEF Insert, IInv, Types
  <2>2. queue' \subseteq [ delivery : Deliveries, after : 0 .. Rungs - 2 ]
    BY LadderAssumption DEF Insert, IInv, Types, Message
  <2>3. QED
    BY <2>1, <2>2 DEF Insert, IInv, Types
<1>5. \A e \in Deliveries : RowOK(row[e], posts[e])'
  <2>1. RowOK(NewRow("pending"), posts[d])
    BY <1>2, LadderAssumption DEF RowOK, NewRow
  <2>2. QED
    BY <1>3, <2>1 DEF IInv, Insert
<1>6. \A w \in Workers : worker[w].step \in Engaged =>
         row'[Delivery(w)] = row[Delivery(w)]
  <2> SUFFICES ASSUME NEW w \in Workers, worker[w].step \in Engaged
               PROVE  row'[Delivery(w)] = row[Delivery(w)]
    OBVIOUS
  <2>1. Delivery(w) # d /\ Delivery(w) \in Deliveries
    BY <1>2, FreeRowIsNobodys DEF IInv, Types, Local, Delivery
  <2>2. QED
    BY <2>1, <1>3
<1>7. QED
  BY <1>4, <1>5, <1>6, QuietStep DEF Insert

(* Switching the endpoint on or off.                                       *)
LEMMA SwitchKeeps ==
    ASSUME IInv, Enable \/ Disable
    PROVE  IInv'
<1>1. Types'
  BY DEF Enable, Disable, IInv, Types
<1>2. QED
  BY <1>1, QuietStep DEF Enable, Disable, IInv

LEMMA SweepKeeps ==
    ASSUME IInv, NEW d \in Deliveries, Sweep(d)
    PROVE  IInv'
<1>1. Types'
  BY LadderAssumption DEF Sweep, Message, IInv, Types
<1>2. QED
  BY <1>1, QuietStep DEF Sweep, IInv

(* The clock changes nothing of a row but its wait.                        *)
LEMMA WaitedIsRow ==
    ASSUME NEW r \in Row
    PROVE  /\ Waited(r) \in Row
           /\ Waited(r).status = r.status /\ Waited(r).lease = r.lease
           /\ Waited(r).attempts = r.attempts
BY DEF Waited, Row

LEMMA ClockKeeps ==
    ASSUME IInv, NEW d \in Deliveries, WaitPasses(d)
    PROVE  IInv'
<1>1. ASSUME NEW e \in Deliveries
      PROVE  /\ row'[e] \in Row
             /\ row'[e].status = row[e].status
             /\ row'[e].lease = row[e].lease
             /\ row'[e].attempts = row[e].attempts
  BY WaitedIsRow DEF WaitPasses, IInv, Types
<1>2. Types'
  <2>1. row' \in [Deliveries -> Row]
    BY WaitedIsRow DEF WaitPasses, IInv, Types
  <2>2. QED
    BY <2>1 DEF WaitPasses, IInv, Types
<1>3. \A e \in Deliveries : RowOK(row[e], posts[e])'
  BY <1>1 DEF WaitPasses, IInv, RowOK
<1>4. ASSUME NEW w \in Workers PROVE LocalOK(worker[w], w)'
  <2>1. Delivery(w) \in Deliveries
    BY DEF IInv, Types, Local, Delivery
  <2>2. QED
    BY <2>1, <1>1 DEF WaitPasses, IInv, LocalOK, Holding, Delivery
<1>5. QED
  BY <1>2, <1>3, <1>4 DEF IInv

-----------------------------------------------------------------------------
(* The consumer.                                                           *)

LEMMA RefusedLeaseKeeps ==
    ASSUME IInv, NEW w \in Workers, NEW m \in queue, LeaseRefused(w, m)
    PROVE  IInv'
<1>1. Types'
  BY FaultsAssumption DEF LeaseRefused, Remaining, Mishap, IInv, Types
<1>2. QED
  BY <1>1, QuietStep DEF LeaseRefused, IInv

LEMMA LeaseKeeps ==
    ASSUME IInv, NEW w \in Workers, NEW m \in queue, Lease(w, m)
    PROVE  IInv'
<1> DEFINE d == m.delivery
           new == Doing("context", d, Leased(row[d], w).attempts + 1, "none")
<1>1. /\ d \in Deliveries
      /\ row[d] \in Row /\ row[d].lease = NoWorker
      /\ row[d].attempts \in Nat /\ row[d].attempts <= Rungs - 2
      /\ posts[d] \in Nat /\ posts[d] <= row[d].attempts
  BY LadderAssumption DEF Lease, Leasable, IInv, Types, Row, RowOK
<1>2. /\ Leased(row[d], w) \in Row
      /\ Leased(row[d], w).status = "delivering"
      /\ Leased(row[d], w).lease = w
      /\ Leased(row[d], w).attempts = row[d].attempts + 1
  BY <1>1, LadderAssumption DEF Leased, Row, DeliveryStatus
<1>3. /\ new \in Local
      /\ new.step = "context" /\ new.delivery = d
      /\ new.number = row[d].attempts + 2
  BY <1>1, <1>2, LadderAssumption DEF Doing, Local, Step, Outcome
<1>4. /\ \A e \in Deliveries :
            row'[e] = IF e = d THEN Leased(row[d], w) ELSE row[e]
      /\ \A v \in Workers : worker'[v] = IF v = w THEN new ELSE worker[v]
  BY DEF Lease, IInv, Types
<1>5. Types'
  <2>1. row' \in [Deliveries -> Row] /\ worker' \in [Workers -> Local]
    BY <1>2, <1>3 DEF Lease, IInv, Types
  <2>2. QED
    BY <2>1, FaultsAssumption DEF Lease, Remaining, Mishap, IInv, Types
<1>6. \A e \in Deliveries : RowOK(row[e], posts[e])'
  <2>1. RowOK(Leased(row[d], w), posts[d])
    BY <1>1, <1>2 DEF RowOK
  <2>2. QED
    BY <1>4, <2>1 DEF IInv, Lease
<1>7. ASSUME NEW v \in Workers PROVE LocalOK(worker[v], v)'
  <2>1. CASE v = w
    <3> HIDE DEF new, d
    <3>1. posts'[d] < row'[d].attempts /\ row'[d] = Leased(row[d], w)
      BY <1>1, <1>2, <1>4 DEF Lease
    <3>2. QED
      BY <2>1, <1>1, <1>2, <1>3, <1>4, <3>1
      DEF LocalOK, Holding, Engaged
  <2>2. CASE v # w
    <3>1. worker[v].step \in Engaged =>
             Delivery(v) # d /\ Delivery(v) \in Deliveries
      BY <1>1, FreeRowIsNobodys DEF IInv, Types, Local, Delivery
    <3>2. QED
      BY <2>2, <3>1, <1>4, BystanderKeeps DEF IInv, Lease
  <2>3. QED
    BY <2>1, <2>2
<1>8. QED
  BY <1>5, <1>6, <1>7 DEF IInv

(* An isolate moves on and touches no row: only its own state needs        *)
(* looking at.                                                             *)
LEMMA MoveKeeps ==
    ASSUME IInv, NEW w \in Workers, NEW new \in Local,
           worker' = [worker EXCEPT ![w] = new],
           UNCHANGED << row, endpoint, posts, acked >>,
           queue' \subseteq [ delivery : Deliveries, after : 0 .. Rungs - 2 ],
           mishaps' \in 0 .. MaxMishaps,
           LocalOK(new, w)
    PROVE  IInv'
<1>1. Types'
  BY DEF IInv, Types
<1>2. ASSUME NEW v \in Workers PROVE LocalOK(worker[v], v)'
  <2>1. CASE v = w
    <3>1. worker'[v] = new
      BY <2>1 DEF IInv, Types
    <3>2. QED
      BY <2>1, <3>1 DEF LocalOK, Holding
  <2>2. CASE v # w
    BY <2>2, BystanderKeeps DEF IInv, Types
  <2>3. QED
    BY <2>1, <2>2
<1>3. QED
  BY <1>1, <1>2 DEF IInv

LEMMA ReadContextKeeps ==
    ASSUME IInv, NEW w \in Workers, ReadContext(w)
    PROVE  IInv'
<1>1. /\ worker[w] \in Local /\ worker[w].step = "context"
      /\ Holding(worker[w], w)
  BY DEF ReadContext, At, IInv, Types, LocalOK, Engaged
<1>2. ASSUME NEW step \in { "post", "record" }, NEW out \in Outcome,
             step = "record" => out = "refused",
             worker' = [worker EXCEPT ![w] =
                          Doing(step, Delivery(w), worker[w].number, out)]
      PROVE  IInv'
  <2> DEFINE new == Doing(step, Delivery(w), worker[w].number, out)
  <2>1. /\ new \in Local
        /\ new.step = step /\ new.delivery = worker[w].delivery
        /\ new.number = worker[w].number /\ new.out = out
    BY <1>1, <1>2 DEF Doing, Local, Delivery, Step
  <2>2. LocalOK(new, w)
    <3> HIDE DEF new
    <3>1. QED
      BY <1>1, <1>2, <2>1 DEF LocalOK, Holding, Engaged
  <2>3. QED
    <3> HIDE DEF new
    <3>1. worker' = [worker EXCEPT ![w] = new]
      BY <1>2 DEF new
    <3>2. QED
      BY <2>1, <2>2, <3>1, MoveKeeps DEF ReadContext, IInv, Types
<1>3. "none" \in Outcome /\ "refused" \in Outcome
  BY DEF Outcome
<1>4. CASE endpoint.status = "enabled"
  BY <1>2, <1>3, <1>4 DEF ReadContext
<1>5. CASE endpoint.status # "enabled"
  BY <1>2, <1>3, <1>5 DEF ReadContext
<1>6. QED
  BY <1>4, <1>5

LEMMA SendKeeps ==
    ASSUME IInv, NEW w \in Workers, Send(w)
    PROVE  IInv'
<1>1. worker[w] \in Local /\ worker[w].number \in 1 .. Rungs - 1
  BY DEF Send, At, IInv, Types, LocalOK
<1>2. queue' \subseteq [ delivery : Deliveries, after : 0 .. Rungs - 2 ]
  BY <1>1, LadderAssumption DEF Send, IInv, Types, Message, Local, Delivery
<1>3. Idle \in Local /\ LocalOK(Idle, w)
  BY IdleIsLocal DEF LocalOK, Engaged
<1>4. QED
  BY <1>2, <1>3, MoveKeeps DEF Send, IInv, Types

LEMMA AbortKeeps ==
    ASSUME IInv, NEW w \in Workers, Abort(w)
    PROVE  IInv'
<1>1. worker[w] \in Local
  BY DEF IInv, Types
<1>2. queue' \subseteq [ delivery : Deliveries, after : 0 .. Rungs - 2 ]
  BY <1>1, LadderAssumption DEF Abort, IInv, Types, Message, Local, Delivery
<1>3. Idle \in Local /\ LocalOK(Idle, w)
  BY IdleIsLocal DEF LocalOK, Engaged
<1>4. mishaps' \in 0 .. MaxMishaps
  BY FaultsAssumption DEF Abort, Mishap, IInv, Types
<1>5. QED
  BY <1>2, <1>3, <1>4, MoveKeeps DEF Abort

(* A request is one more, of an isolate that holds its row; the answer     *)
(* decides what will be recorded.                                          *)
LEMMA PostKeeps ==
    ASSUME IInv, NEW w \in Workers, Post(w)
    PROVE  IInv'
<1> DEFINE d == Delivery(w)
<1>1. /\ d \in Deliveries /\ worker[w] \in Local /\ worker[w].step = "post"
      /\ Holding(worker[w], w)
  BY DEF Post, At, IInv, Types, LocalOK, Engaged, Local, Delivery
<1>2. /\ posts[d] \in Nat /\ row[d].attempts \in 0 .. Rungs - 1
      /\ posts[d] < row[d].attempts
      /\ worker[w].number = row[d].attempts + 1
  BY <1>1 DEF Holding, IInv, Types, Row, Delivery
<1>3. PICK answer \in { "2xx", "other", "acked_too_late" } :
        /\ acked' = IF answer = "other" THEN acked ELSE acked \cup {d}
        /\ worker' = [worker EXCEPT ![w] =
              Doing("record", d, worker[w].number,
                    IF Success(answer) THEN "succeeded"
                    ELSE FailedAs(worker[w].number))]
  BY DEF Post
<1> DEFINE out == IF Success(answer) THEN "succeeded"
                  ELSE FailedAs(worker[w].number)
           new == Doing("record", d, worker[w].number, out)
<1>4. /\ out \in { "succeeded", "retrying", "exhausted" }
      /\ out = "succeeded" => d \in acked'
      /\ out = "retrying" => worker[w].number < Rungs
  BY <1>3 DEF Success, FailedAs
<1>5. /\ new \in Local
      /\ new.step = "record" /\ new.delivery = d
      /\ new.number = worker[w].number /\ new.out = out
  <2> HIDE DEF out, d
  <2>1. QED
    BY <1>1, <1>4 DEF Doing, Local, Step, Outcome
<1>6. \A v \in Workers : worker'[v] = IF v = w THEN new ELSE worker[v]
  BY <1>3 DEF IInv, Types
<1>7. \A e \in Deliveries :
         posts'[e] = IF e = d THEN posts[d] + 1 ELSE posts[e]
  BY DEF Post, IInv, Types
<1>8. Types'
  <2>1. posts' \in [Deliveries -> 0 .. Rungs - 1]
    <3>1. posts' = [posts EXCEPT ![d] = posts[d] + 1]
      BY DEF Post
    <3>2. posts[d] + 1 \in 0 .. Rungs - 1
      BY <1>2, LadderAssumption
    <3> HIDE DEF d
    <3>3. QED
      BY <3>1, <3>2 DEF IInv, Types
  <2>2. worker' \in [Workers -> Local]
    BY <1>3, <1>5 DEF IInv, Types
  <2>3. acked' \subseteq Deliveries
    BY <1>1, <1>3 DEF IInv, Types
  <2>4. QED
    BY <2>1, <2>2, <2>3 DEF Post, IInv, Types
<1>9. \A e \in Deliveries : RowOK(row[e], posts[e])'
  BY <1>1, <1>2, <1>7 DEF Post, IInv, Types, Row, RowOK, Holding, Delivery
<1>10. ASSUME NEW v \in Workers PROVE LocalOK(worker[v], v)'
  <2>1. CASE v = w
    <3>1. PICK mine \in Local : mine = new
      BY <1>5
    <3>2. /\ mine.step = "record" /\ mine.delivery = d
          /\ mine.number = worker[w].number /\ mine.out = out
          /\ worker'[w] = mine
      BY <3>1, <1>5, <1>6
    <3> HIDE DEF out, new
    <3>3. UNCHANGED row
      BY DEF Post
    <3>4. QED
      BY <2>1, <1>1, <1>4, <3>2, <3>3 DEF LocalOK, Holding, Delivery
  <2>2. CASE v # w
    <3>1. worker[v].step \in Engaged => Delivery(v) # d
      BY <2>2, <1>1, HoldersDiffer DEF Engaged
    <3>2. Delivery(v) \in Deliveries
      BY DEF IInv, Types, Local, Delivery
    <3>3. acked \subseteq acked' /\ worker'[v] = worker[v]
      BY <2>2, <1>3, <1>6
    <3>4. QED
      BY <3>1, <3>2, <3>3, <1>7, BystanderKeeps DEF IInv, Post
  <2>3. QED
    BY <2>1, <2>2
<1>11. QED
  BY <1>8, <1>9, <1>10 DEF IInv

(* recordDeliveryResult stores an outcome of deliver, frees the row and    *)
(* leaves its count alone; only a retry can be leased again.               *)
LEMMA RecordedIsRow ==
    ASSUME NEW r \in Row,
           NEW out \in { "succeeded", "retrying", "exhausted", "refused" },
           out = "retrying" => r.attempts <= Rungs - 2,
           NEW n, n <= r.attempts
    PROVE  /\ Recorded(r, out) \in Row
           /\ RowOK(Recorded(r, out), n)
<1>1. StatusFor(out) \in { "succeeded", "failed_retryable", "exhausted" }
  BY DEF StatusFor
<1>2. StatusFor(out) = "failed_retryable" => out = "retrying"
  BY DEF StatusFor
<1>3. /\ Recorded(r, out) \in Row
      /\ Recorded(r, out).status = StatusFor(out)
      /\ Recorded(r, out).lease = NoWorker
      /\ Recorded(r, out).attempts = r.attempts
  BY <1>1 DEF Recorded, Row, DeliveryStatus
<1>4. QED
  BY <1>1, <1>2, <1>3 DEF RowOK

LEMMA RecordKeeps ==
    ASSUME IInv, NEW w \in Workers, Record(w)
    PROVE  IInv'
<1> DEFINE d == Delivery(w)
           out == worker[w].out
           new == IF out = "retrying"
                  THEN Doing("send", d, worker[w].number, "none") ELSE Idle
<1>1. /\ d \in Deliveries /\ worker[w] \in Local /\ worker[w].step = "record"
      /\ out \in { "succeeded", "retrying", "exhausted", "refused" }
      /\ out = "retrying" => worker[w].number < Rungs
      /\ HoldsLease(w)
      /\ worker[w].number = row[d].attempts + 1
  BY DEF Record, At, IInv, Types, LocalOK, Holding, Engaged, Local, Delivery,
         HoldsLease
<1>2. /\ row[d] \in Row /\ row[d].attempts \in 0 .. Rungs - 1
      /\ posts[d] \in Nat /\ posts[d] <= row[d].attempts
  BY <1>1, LadderAssumption DEF IInv, Types, Row, RowOK
<1>3. /\ Recorded(row[d], out) \in Row
      /\ RowOK(Recorded(row[d], out), posts[d])
  <2>1. out = "retrying" => row[d].attempts <= Rungs - 2
    BY <1>1, <1>2, LadderAssumption
  <2> HIDE DEF d, out
  <2>2. QED
    BY <1>1, <1>2, <2>1, RecordedIsRow
<1>4. /\ row' = [row EXCEPT ![d] = Recorded(row[d], out)]
      /\ endpoint' = Counted(out)
      /\ worker' = [worker EXCEPT ![w] = new]
      /\ UNCHANGED << queue, posts, acked, mishaps >>
  BY <1>1 DEF Record
<1>5. /\ new \in Local /\ new.step \in { "idle", "send" }
      /\ new.step = "send" => new.number \in 1 .. Rungs - 1
  <2>1. worker[w].number \in 0 .. Rungs
    BY <1>1 DEF Local
  <2>2. CASE out = "retrying"
    <3>1. worker[w].number \in 1 .. Rungs - 1
      BY <2>1, <2>2, <1>1, <1>2, LadderAssumption
    <3> HIDE DEF d, out
    <3>2. QED
      BY <2>1, <2>2, <3>1, <1>1 DEF Doing, Local, Step, Outcome
  <2>3. CASE out # "retrying"
    BY <2>3, IdleIsLocal
  <2>4. QED
    BY <2>2, <2>3
<1>6. Types'
  <2>1. Counted(out) \in [ status : { "enabled", "disabled", "auto_disabled" },
                           failures : Nat ]
    BY DEF Counted, IInv, Types
  <2> HIDE DEF d, out, new
  <2>2. row' \in [Deliveries -> Row] /\ worker' \in [Workers -> Local]
    BY <1>3, <1>4, <1>5 DEF IInv, Types
  <2>3. QED
    BY <2>1, <2>2, <1>4 DEF IInv, Types
<1>7. \A e \in Deliveries :
         row'[e] = IF e = d THEN Recorded(row[d], out) ELSE row[e]
  BY <1>4 DEF IInv, Types
<1>8. \A e \in Deliveries : RowOK(row[e], posts[e])'
  BY <1>3, <1>4, <1>7 DEF IInv
<1>9. ASSUME NEW v \in Workers PROVE LocalOK(worker[v], v)'
  <2>1. CASE v = w
    <3>1. worker'[v] = new
      BY <2>1, <1>4 DEF IInv, Types
    <3>2. PICK mine \in Local : mine = new /\ worker'[v] = mine
      BY <1>5, <3>1
    <3>3. /\ mine.step \in { "idle", "send" }
          /\ mine.step = "send" => mine.number \in 1 .. Rungs - 1
      BY <3>2, <1>5
    <3> HIDE DEF new
    <3>4. QED
      BY <3>2, <3>3 DEF LocalOK, Engaged
  <2>2. CASE v # w
    <3>1. worker[v].step \in Engaged => Delivery(v) # d
      BY <2>2, <1>1, HoldersDiffer DEF Engaged
    <3>2. Delivery(v) \in Deliveries
      BY DEF IInv, Types, Local, Delivery
    <3>3. worker'[v] = worker[v]
      BY <2>2, <1>4 DEF IInv, Types
    <3> HIDE DEF d
    <3>4. QED
      BY <3>1, <3>2, <3>3, <1>4, <1>7, BystanderKeeps DEF IInv
  <2>3. QED
    BY <2>1, <2>2
<1>10. QED
  BY <1>6, <1>8, <1>9 DEF IInv

-----------------------------------------------------------------------------
THEOREM NextIInv == IInv /\ [Next]_vars => IInv'
<1> SUFFICES ASSUME IInv, [Next]_vars PROVE IInv'
  OBVIOUS
<1>1. ASSUME NEW d \in Deliveries, Emit(d) \/ Replay(d) PROVE IInv'
  BY <1>1, InsertKeeps DEF Emit, Replay
<1>2. ASSUME NEW d \in Deliveries, Sweep(d) PROVE IInv'
  BY <1>2, SweepKeeps
<1>3. ASSUME NEW d \in Deliveries, WaitPasses(d) PROVE IInv'
  BY <1>3, ClockKeeps
<1>4. CASE Enable \/ Disable
  BY <1>4, SwitchKeeps
<1>5. ASSUME NEW w \in Workers, WorkerStep(w) PROVE IInv'
  BY <1>5, ReadContextKeeps, PostKeeps, RecordKeeps, SendKeeps
  DEF WorkerStep
<1>6. ASSUME NEW w \in Workers, Abort(w) PROVE IInv'
  BY <1>6, AbortKeeps
<1>7. ASSUME NEW w \in Workers, NEW m \in queue, Receive(w, m) PROVE IInv'
  BY <1>7, LeaseKeeps, RefusedLeaseKeeps DEF Receive
<1>8. CASE UNCHANGED vars
  BY <1>8 DEF vars, IInv, Types, LocalOK, Holding
<1>9. QED
  BY <1>1, <1>2, <1>3, <1>4, <1>5, <1>6, <1>7, <1>8 DEF Next

THEOREM AlwaysIInv == Spec => []IInv
BY InitIInv, NextIInv, PTL DEF Spec

(* Rows, messages, counters and the local state of the isolates keep their *)
(* types: in particular no delivery is requested more than Rungs - 1 times *)
(* (index.ts, deliver).                                                    *)
THEOREM TypeCorrect == Spec => []TypeOK
<1>1. IInv => TypeOK
  BY TypesAreTypeOK DEF IInv
<1>2. QED
  BY <1>1, AlwaysIInv, PTL

(* However messages are duplicated, swept or sent again and whichever      *)
(* isolates die, one isolate at a time works on a delivery                 *)
(* (leaseWebhookDelivery).                                                 *)
THEOREM OneAtATime == Spec => []OneRequestAtATime
<1>1. IInv => OneRequestAtATime
  BY HoldersDiffer DEF OneRequestAtATime, Engaged
<1>2. QED
  BY <1>1, AlwaysIInv, PTL

-----------------------------------------------------------------------------
(* The promise.                                                            *)

promise == [ d \in Deliveries |-> Promised(row[d].status) ]

(* A step that writes one row writes one promise, and none at all if the   *)
(* old and the new status promise the same.                                *)
LEMMA OneRowOnePromise ==
    ASSUME Types, NEW d \in Deliveries, NEW r,
           row' = [row EXCEPT ![d] = r]
    PROVE  /\ promise' = [promise EXCEPT ![d] = Promised(r.status)]
           /\ Promised(r.status) = promise[d] => promise' = promise
<1>1. \A e \in Deliveries :
         promise'[e] = IF e = d THEN Promised(r.status) ELSE promise[e]
  BY DEF promise, Types
<1>2. /\ promise = [ e \in Deliveries |-> promise[e] ]
      /\ promise' = [ e \in Deliveries |-> promise'[e] ]
  BY DEF promise
<1> HIDE DEF promise
<1>3. QED
  BY <1>1, <1>2

(* The names of the substituted variables in one formula.                  *)
Stutter == UNCHANGED << promise, posts, acked >>

LEMMA StutterIsPromised == Stutter => UNCHANGED Promise!vars
BY DEF Stutter, Promise!vars, promise

LEMMA InsertAccepts ==
    ASSUME IInv, NEW d \in Deliveries, Insert(d)
    PROVE  Promise!Accept(d)
<1>1. promise[d] = "none"
  BY DEF Insert, Promised, promise
<1>2. promise' = [promise EXCEPT ![d] = "owed"]
  <2>1. Promised(NewRow("pending").status) = "owed"
    BY DEF NewRow, Promised
  <2>2. row' = [row EXCEPT ![d] = NewRow("pending")]
    BY DEF Insert
  <2>3. QED
    BY <2>1, <2>2, OneRowOnePromise DEF IInv
<1>3. QED
  BY <1>1, <1>2 DEF Promise!Accept, Insert, promise

LEMMA PostRequests ==
    ASSUME IInv, NEW w \in Workers, Post(w)
    PROVE  Promise!Request(Delivery(w))
<1> DEFINE d == Delivery(w)
<1>1. /\ d \in Deliveries /\ Holding(worker[w], w) /\ worker[w].step = "post"
  BY DEF Post, At, IInv, Types, LocalOK, Engaged, Local, Delivery
<1>2. promise[d] = "owed"
  BY <1>1 DEF Holding, Delivery, promise, Promised
<1>3. posts[d] < Rungs
  <2>1. posts[d] \in Nat /\ row[d].attempts \in 0 .. Rungs - 1
    BY <1>1 DEF IInv, Types, Row
  <2>2. posts[d] < row[d].attempts
    BY <1>1 DEF Holding, Delivery
  <2>3. QED
    BY <2>1, <2>2, LadderAssumption
<1>4. /\ posts' = [posts EXCEPT ![d] = posts[d] + 1]
      /\ acked' \in { acked, acked \cup {d} }
      /\ UNCHANGED row
  BY DEF Post
<1>5. UNCHANGED promise
  BY <1>4 DEF promise
<1>6. QED
  BY <1>2, <1>3, <1>4, <1>5 DEF Promise!Request, promise

LEMMA RecordSettles ==
    ASSUME IInv, NEW w \in Workers, Record(w)
    PROVE  \/ Promise!Keep(Delivery(w)) \/ Promise!GiveUp(Delivery(w))
           \/ Stutter
<1> DEFINE d == Delivery(w)
           out == worker[w].out
<1>1. /\ d \in Deliveries
      /\ out \in { "succeeded", "retrying", "exhausted", "refused" }
      /\ out = "succeeded" => d \in acked
      /\ HoldsLease(w) /\ row[d].status = "delivering"
  BY DEF Record, At, IInv, Types, LocalOK, Holding, Engaged, Local, Delivery,
         HoldsLease
<1>2. promise[d] = "owed"
  BY <1>1 DEF promise, Promised
<1>3. /\ row' = [row EXCEPT ![d] = Recorded(row[d], out)]
      /\ UNCHANGED << posts, acked >>
  BY <1>1 DEF Record
<1>4. Recorded(row[d], out).status = StatusFor(out)
  BY DEF Recorded
<1>5. /\ promise' = [promise EXCEPT ![d] = Promised(StatusFor(out))]
      /\ Promised(StatusFor(out)) = promise[d] => promise' = promise
  <2>1. Types
    BY DEF IInv
  <2>2. /\ promise' = [promise EXCEPT ![d] =
                         Promised(Recorded(row[d], out).status)]
        /\ Promised(Recorded(row[d], out).status) = promise[d] =>
              promise' = promise
    <3> HIDE DEF d, out
    <3>1. QED
      BY <2>1, <1>1, <1>3, OneRowOnePromise
  <2>3. QED
    BY <2>2, <1>4, Zenon
<1>6. CASE out = "succeeded"
  <2>1. Promised(StatusFor(out)) = "kept"
    BY <1>6 DEF Promised, StatusFor
  <2>2. Promise!Keep(d)
    BY <2>1, <1>1, <1>2, <1>3, <1>5, <1>6 DEF Promise!Keep, promise
  <2>3. QED
    BY <2>2
<1>7. CASE out = "retrying"
  <2>1. Promised(StatusFor(out)) = "owed"
    BY <1>7 DEF Promised, StatusFor
  <2>2. QED
    BY <2>1, <1>2, <1>3, <1>5 DEF Stutter
<1>8. CASE out \in { "exhausted", "refused" }
  <2>1. Promised(StatusFor(out)) = "given_up"
    BY <1>8 DEF Promised, StatusFor
  <2>2. Promise!GiveUp(d)
    BY <2>1, <1>2, <1>3, <1>5 DEF Promise!GiveUp, promise
  <2>3. QED
    BY <2>2
<1>9. QED
  BY <1>1, <1>6, <1>7, <1>8

LEMMA LeaseStutters ==
    ASSUME IInv, NEW w \in Workers, NEW m \in queue, Lease(w, m)
    PROVE  Stutter
<1> DEFINE d == m.delivery
<1>1. d \in Deliveries
  BY DEF IInv, Types
<1>2. promise[d] = "owed"
  BY <1>1 DEF Lease, Leasable, promise, Promised
<1>3. Promised(Leased(row[d], w).status) = "owed"
  BY DEF Leased, Promised
<1>4. row' = [row EXCEPT ![d] = Leased(row[d], w)]
  BY DEF Lease
<1>5. promise' = promise
  BY <1>1, <1>2, <1>3, <1>4, OneRowOnePromise DEF IInv
<1>6. QED
  BY <1>5 DEF Lease, Stutter

LEMMA ClockStutters ==
    ASSUME IInv, NEW d \in Deliveries, WaitPasses(d)
    PROVE  Stutter
<1>1. Promised(Waited(row[d]).status) = promise[d]
  BY DEF Waited, promise
<1>2. row' = [row EXCEPT ![d] = Waited(row[d])]
  BY DEF WaitPasses
<1>3. promise' = promise
  BY <1>1, <1>2, OneRowOnePromise DEF IInv
<1>4. QED
  BY <1>3 DEF WaitPasses, Stutter

LEMMA StepIsPromised ==
    IInv /\ [Next]_vars => [Promise!Next]_(Promise!vars)
<1> SUFFICES ASSUME IInv, [Next]_vars
             PROVE  Promise!Next \/ UNCHANGED Promise!vars
  OBVIOUS
<1>1. ASSUME NEW d \in Deliveries, Emit(d) \/ Replay(d) PROVE Promise!Next
  BY <1>1, InsertAccepts DEF Emit, Replay, Promise!Next
<1>2. ASSUME NEW w \in Workers, Post(w) PROVE Promise!Next
  <2>1. Delivery(w) \in Deliveries
    BY DEF IInv, Types, Local, Delivery
  <2>2. QED
    BY <1>2, <2>1, PostRequests DEF Promise!Next
<1>3. ASSUME NEW w \in Workers, Record(w) PROVE Promise!Next \/ Stutter
  <2>1. Delivery(w) \in Deliveries
    BY DEF IInv, Types, Local, Delivery
  <2>2. QED
    BY <1>3, <2>1, RecordSettles DEF Promise!Next
<1>4. ASSUME NEW w \in Workers, ReadContext(w) \/ Send(w) \/ Abort(w)
      PROVE  Stutter
  BY <1>4 DEF ReadContext, Send, Abort, Stutter, promise
<1>5. ASSUME NEW w \in Workers, NEW m \in queue, Receive(w, m) PROVE Stutter
  BY <1>5, LeaseStutters DEF Receive, LeaseRefused, Stutter, promise
<1>6. ASSUME NEW d \in Deliveries, Sweep(d) \/ WaitPasses(d) PROVE Stutter
  BY <1>6, ClockStutters DEF Sweep, Stutter, promise
<1>7. ASSUME Enable \/ Disable \/ UNCHANGED vars PROVE Stutter
  BY <1>7 DEF Enable, Disable, vars, Stutter, promise
<1>8. QED
  BY <1>1, <1>2, <1>3, <1>4, <1>5, <1>6, <1>7, StutterIsPromised
  DEF Next, WorkerStep

LEMMA InitIsPromised == Init => Promise!Init
BY DEF Init, Promise!Init, NewRow, Promised

(* Every behaviour of the consumer, the sweep, the routes and the faults   *)
(* is one of DeliveryPromise: whatever dies, nothing is requested that is  *)
(* not owed and no success is recorded that the endpoint did not answer    *)
(* (leaseWebhookDelivery, recordDeliveryResult, deliver).                  *)
THEOREM KeepsThePromise == Spec => PromiseKept
BY InitIsPromised, AlwaysIInv, StepIsPromised, PTL
DEF Spec, PromiseKept, Promise!Spec

-----------------------------------------------------------------------------
(* What a delivery that is given up has been through.  Every attempt of a  *)
(* row at rest was a request; one that an isolate works on is still to     *)
(* become one, has become one, or was refused and never will.              *)
HonestRow(d) ==
    /\ row[d].status \in { "none", "pending", "failed_retryable" } =>
         posts[d] = row[d].attempts
    /\ row[d].status = "exhausted" =>
         posts[d] = Rungs - 1 \/ row[d].attempts = posts[d] + 1

Unasked(state) ==
    \/ state.step \in { "context", "post" }
    \/ state.step = "record" /\ state.out = "refused"

Asked(state) == state.step = "record" /\ state.out # "refused"

HonestWork(w) ==
    LET d == worker[w].delivery IN
    /\ Unasked(worker[w]) => row[d].attempts = posts[d] + 1
    /\ Asked(worker[w]) =>
         /\ posts[d] = row[d].attempts
         /\ worker[w].out = "exhausted" => posts[d] = Rungs - 1

Honest ==
    /\ \A d \in Deliveries : HonestRow(d)
    /\ \A w \in Workers : HonestWork(w)

(* An isolate that is left alone, with its row while it is engaged, still  *)
(* works on the same terms.                                                *)
LEMMA BystanderIsHonest ==
    ASSUME NEW w \in Workers, HonestWork(w), worker'[w] = worker[w],
           worker[w].step \in Engaged =>
               /\ row'[Delivery(w)] = row[Delivery(w)]
               /\ posts'[Delivery(w)] = posts[Delivery(w)]
    PROVE  HonestWork(w)'
BY DEF HonestWork, Asked, Unasked, Engaged, Delivery

(* One that has nothing in hand owes no account.                           *)
LEMMA DisengagedIsHonest ==
    ASSUME NEW w \in Workers, worker'[w].step \notin Engaged
    PROVE  HonestWork(w)'
BY DEF HonestWork, Asked, Unasked, Engaged

LEMMA InsertIsHonest ==
    ASSUME IInv, Honest, NEW d \in Deliveries, Insert(d)
    PROVE  Honest'
<1>1. row[d].lease = NoWorker /\ posts[d] = 0
  BY LadderAssumption DEF Insert, IInv, Types, RowOK, Row
<1>2. /\ NewRow("pending").status = "pending"
      /\ NewRow("pending").attempts = 0
  BY DEF NewRow
<1>3. /\ \A e \in Deliveries :
            row'[e] = IF e = d THEN NewRow("pending") ELSE row[e]
      /\ UNCHANGED << worker, posts >>
  BY DEF Insert, IInv, Types
<1>4. ASSUME NEW e \in Deliveries PROVE HonestRow(e)'
  BY <1>1, <1>2, <1>3 DEF Honest, HonestRow
<1>5. ASSUME NEW w \in Workers PROVE HonestWork(w)'
  <2>1. worker[w].step \in Engaged => Delivery(w) # d
    BY <1>1, FreeRowIsNobodys
  <2>2. Delivery(w) \in Deliveries
    BY DEF IInv, Types, Local, Delivery
  <2>3. QED
    BY <1>3, <2>1, <2>2, BystanderIsHonest DEF Honest
<1>6. QED
  BY <1>4, <1>5 DEF Honest

LEMMA ClockIsHonest ==
    ASSUME IInv, Honest, NEW d \in Deliveries, WaitPasses(d)
    PROVE  Honest'
<1>1. ASSUME NEW e \in Deliveries
      PROVE  /\ row'[e].status = row[e].status
             /\ row'[e].attempts = row[e].attempts
  BY WaitedIsRow DEF WaitPasses, IInv, Types
<1>2. \A w \in Workers : worker[w].delivery \in Deliveries
  BY DEF IInv, Types, Local
<1>3. QED
  BY <1>1, <1>2 DEF WaitPasses, Honest, HonestRow, HonestWork

LEMMA LeaseIsHonest ==
    ASSUME IInv, Honest, NEW w \in Workers, NEW m \in queue, Lease(w, m)
    PROVE  Honest'
<1> DEFINE d == m.delivery
<1>1. /\ d \in Deliveries /\ row[d].lease = NoWorker
      /\ posts[d] = row[d].attempts
  BY DEF Lease, Leasable, IInv, Types, Honest, HonestRow
<1>2. /\ Leased(row[d], w).status = "delivering"
      /\ Leased(row[d], w).attempts = row[d].attempts + 1
  BY DEF Leased
<1>3. /\ \A e \in Deliveries :
            row'[e] = IF e = d THEN Leased(row[d], w) ELSE row[e]
      /\ UNCHANGED posts
  BY DEF Lease, IInv, Types
<1>4. /\ worker'[w].step = "context" /\ worker'[w].delivery = d
      /\ \A v \in Workers : v # w => worker'[v] = worker[v]
  BY DEF Lease, Doing, IInv, Types
<1>5. ASSUME NEW e \in Deliveries PROVE HonestRow(e)'
  BY <1>1, <1>2, <1>3 DEF Honest, HonestRow
<1>6. ASSUME NEW v \in Workers PROVE HonestWork(v)'
  <2>1. CASE v = w
    <3>1. row'[d].attempts = posts'[d] + 1
      BY <1>1, <1>2, <1>3
    <3>2. QED
      BY <2>1, <3>1, <1>4 DEF HonestWork, Asked, Unasked
  <2>2. CASE v # w
    <3>1. worker[v].step \in Engaged => Delivery(v) # d
      BY <1>1, FreeRowIsNobodys
    <3>2. Delivery(v) \in Deliveries
      BY DEF IInv, Types, Local, Delivery
    <3>3. QED
      BY <2>2, <1>3, <1>4, <3>1, <3>2, BystanderIsHonest DEF Honest
  <2>3. QED
    BY <2>1, <2>2
<1>7. QED
  BY <1>5, <1>6 DEF Honest

(* Steps that write no row and make no request: the one isolate that moves *)
(* has its own account, the others keep theirs.                            *)
LEMMA MoveIsHonest ==
    ASSUME IInv, Honest, UNCHANGED << row, posts >>, NEW w \in Workers,
           \A v \in Workers : v # w => worker'[v] = worker[v],
           HonestWork(w)'
    PROVE  Honest'
<1>1. ASSUME NEW d \in Deliveries PROVE HonestRow(d)'
  BY DEF Honest, HonestRow
<1>2. ASSUME NEW v \in Workers PROVE HonestWork(v)'
  <2>1. CASE v = w
    BY <2>1
  <2>2. CASE v # w
    BY <2>2, BystanderIsHonest DEF Honest
  <2>3. QED
    BY <2>1, <2>2
<1>3. QED
  BY <1>1, <1>2 DEF Honest

LEMMA ReadContextIsHonest ==
    ASSUME IInv, Honest, NEW w \in Workers, ReadContext(w)
    PROVE  Honest'
<1>1. /\ worker[w].step = "context"
      /\ worker'[w].delivery = worker[w].delivery
      /\ Unasked(worker'[w]) /\ ~ Asked(worker'[w])
      /\ \A v \in Workers : v # w => worker'[v] = worker[v]
  BY DEF ReadContext, At, Doing, Delivery, Unasked, Asked, IInv, Types
<1>2. HonestWork(w)'
  BY <1>1 DEF ReadContext, Honest, HonestWork, Unasked
<1>3. QED
  BY <1>1, <1>2, MoveIsHonest DEF ReadContext

LEMMA PostIsHonest ==
    ASSUME IInv, Honest, NEW w \in Workers, Post(w)
    PROVE  Honest'
<1> DEFINE d == Delivery(w)
<1>1. /\ d \in Deliveries /\ worker[w].step = "post"
      /\ Holding(worker[w], w)
  BY DEF Post, At, IInv, Types, LocalOK, Engaged, Local, Delivery
<1>2. /\ row[d].attempts = posts[d] + 1 /\ row[d].status = "delivering"
      /\ worker[w].number = row[d].attempts + 1
  BY <1>1 DEF Honest, HonestWork, Unasked, Holding, Delivery
<1>3. /\ row[d].attempts \in 0 .. Rungs - 1 /\ posts[d] \in Nat
  BY <1>1 DEF IInv, Types, Row
<1>4. /\ \A e \in Deliveries :
            posts'[e] = IF e = d THEN posts[d] + 1 ELSE posts[e]
      /\ UNCHANGED row
  BY DEF Post, IInv, Types
<1>5. PICK out \in { "succeeded", FailedAs(worker[w].number) } :
        worker' = [worker EXCEPT ![w] =
                     Doing("record", d, worker[w].number, out)]
  BY DEF Post
<1>6. /\ worker'[w].step = "record" /\ worker'[w].delivery = d
      /\ worker'[w].out = out
      /\ \A v \in Workers : v # w => worker'[v] = worker[v]
  BY <1>5 DEF Doing, IInv, Types
<1>7. out = "exhausted" => posts[d] + 1 = Rungs - 1
  <2>1. out = "exhausted" => ~ worker[w].number < Rungs
    BY <1>5 DEF FailedAs
  <2>2. QED
    BY <2>1, <1>2, <1>3, LadderAssumption
<1>8. ASSUME NEW e \in Deliveries PROVE HonestRow(e)'
  BY <1>2, <1>4 DEF Honest, HonestRow
<1>9. ASSUME NEW v \in Workers PROVE HonestWork(v)'
  <2>1. CASE v = w
    <3>1. out # "refused"
      BY <1>5 DEF FailedAs
    <3>2. posts'[d] = row'[d].attempts
      BY <1>1, <1>2, <1>4
    <3>3. worker'[w].out = "exhausted" => posts'[d] = Rungs - 1
      BY <1>1, <1>4, <1>6, <1>7
    <3> HIDE DEF d
    <3>4. QED
      BY <2>1, <1>6, <3>1, <3>2, <3>3 DEF HonestWork, Asked, Unasked
  <2>2. CASE v # w
    <3>1. worker[v].step \in Engaged => Delivery(v) # d
      BY <2>2, <1>1, HoldersDiffer DEF Engaged
    <3>2. Delivery(v) \in Deliveries
      BY DEF IInv, Types, Local, Delivery
    <3>3. QED
      BY <2>2, <1>4, <1>6, <3>1, <3>2, BystanderIsHonest DEF Honest
  <2>3. QED
    BY <2>1, <2>2
<1>10. QED
  BY <1>8, <1>9 DEF Honest

LEMMA RecordIsHonest ==
    ASSUME IInv, Honest, NEW w \in Workers, Record(w)
    PROVE  Honest'
<1> DEFINE d == Delivery(w)
           out == worker[w].out
<1>1. /\ d \in Deliveries /\ worker[w].step = "record"
      /\ out \in { "succeeded", "retrying", "exhausted", "refused" }
      /\ HoldsLease(w)
  BY DEF Record, At, IInv, Types, LocalOK, Holding, Engaged, Local, Delivery,
         HoldsLease
<1>2. /\ out = "refused" => row[d].attempts = posts[d] + 1
      /\ out # "refused" => posts[d] = row[d].attempts
      /\ out = "exhausted" => posts[d] = Rungs - 1
  BY <1>1 DEF Honest, HonestWork, Asked, Unasked, Delivery
<1>3. /\ \A e \in Deliveries :
            row'[e] = IF e = d THEN Recorded(row[d], out) ELSE row[e]
      /\ UNCHANGED posts
      /\ \A v \in Workers : v # w => worker'[v] = worker[v]
  BY <1>1 DEF Record, IInv, Types
<1>4. /\ Recorded(row[d], out).attempts = row[d].attempts
      /\ Recorded(row[d], out).status = StatusFor(out)
  BY DEF Recorded
<1>5. /\ StatusFor(out) \in { "succeeded", "failed_retryable", "exhausted" }
      /\ StatusFor(out) = "failed_retryable" => out = "retrying"
      /\ StatusFor(out) = "exhausted" => out \in { "exhausted", "refused" }
  BY <1>1 DEF StatusFor
<1>6. ASSUME NEW e \in Deliveries PROVE HonestRow(e)'
  <2>1. CASE e = d
    <3>1. /\ row'[d].status = StatusFor(out)
          /\ row'[d].attempts = row[d].attempts /\ posts'[d] = posts[d]
      BY <1>1, <1>3, <1>4
    <3> HIDE DEF d, out
    <3>2. QED
      BY <2>1, <3>1, <1>2, <1>5 DEF HonestRow
  <2>2. CASE e # d
    BY <2>2, <1>3 DEF Honest, HonestRow
  <2>3. QED
    BY <2>1, <2>2
<1>7. ASSUME NEW v \in Workers PROVE HonestWork(v)'
  <2>1. CASE v = w
    <3>1. worker'[w].step \notin Engaged
      BY IdleIsLocal DEF Record, Doing, IInv, Types, Engaged
    <3>2. QED
      BY <2>1, <3>1, DisengagedIsHonest
  <2>2. CASE v # w
    <3>1. worker[v].step \in Engaged => Delivery(v) # d
      BY <2>2, <1>1, HoldersDiffer DEF Engaged
    <3>2. Delivery(v) \in Deliveries
      BY DEF IInv, Types, Local, Delivery
    <3>3. QED
      BY <2>2, <1>3, <3>1, <3>2, BystanderIsHonest DEF Honest
  <2>3. QED
    BY <2>1, <2>2
<1>8. QED
  BY <1>6, <1>7 DEF Honest

(* A send or a death leaves the isolate idle.                              *)
LEMMA LeavingIsHonest ==
    ASSUME IInv, Honest, NEW w \in Workers, Send(w) \/ Abort(w)
    PROVE  Honest'
<1>1. /\ worker' = [worker EXCEPT ![w] = Idle]
      /\ UNCHANGED << row, posts >>
  BY DEF Send, Abort
<1>2. worker'[w].step \notin Engaged
  BY <1>1, IdleIsLocal DEF IInv, Types, Engaged
<1>3. \A v \in Workers : v # w => worker'[v] = worker[v]
  BY <1>1 DEF IInv, Types
<1>4. QED
  BY <1>1, <1>2, <1>3, DisengagedIsHonest, MoveIsHonest

LEMMA InitIsHonest == Init => Honest
BY IdleIsLocal DEF Init, NewRow, Honest, HonestRow, HonestWork, Asked, Unasked

LEMMA NextIsHonest == IInv /\ Honest /\ [Next]_vars => Honest'
<1> SUFFICES ASSUME IInv, Honest, [Next]_vars PROVE Honest'
  OBVIOUS
<1>1. ASSUME NEW d \in Deliveries, Emit(d) \/ Replay(d) PROVE Honest'
  BY <1>1, InsertIsHonest DEF Emit, Replay
<1>2. ASSUME NEW d \in Deliveries, WaitPasses(d) PROVE Honest'
  BY <1>2, ClockIsHonest
<1>3. ASSUME NEW w \in Workers, WorkerStep(w) \/ Abort(w) PROVE Honest'
  BY <1>3, ReadContextIsHonest, PostIsHonest, RecordIsHonest,
     LeavingIsHonest DEF WorkerStep
<1>4. ASSUME NEW w \in Workers, NEW m \in queue, Lease(w, m) PROVE Honest'
  BY <1>4, LeaseIsHonest
<1>5. ASSUME UNCHANGED << row, worker, posts >> PROVE Honest'
  BY <1>5 DEF Honest, HonestRow, HonestWork
<1>6. QED
  BY <1>1, <1>2, <1>3, <1>4, <1>5
  DEF Next, Receive, LeaseRefused, Sweep, Enable, Disable, vars

(* Whatever dies and however the endpoint is switched, a delivery is given *)
(* up only when each of its attempts was a request and no delivery ever    *)
(* gets more of them, or because the endpoint was off at its last lease    *)
(* (index.ts, deliver).                                                    *)
THEOREM GivesUpHonestly == Spec => []GivenUpHonestly
<1>1. IInv /\ Honest => GivenUpHonestly
  <2> SUFFICES ASSUME IInv, Honest, NEW d \in Deliveries,
                      row[d].status = "exhausted",
                      row[d].attempts # posts[d] + 1
               PROVE  /\ row[d].attempts = posts[d]
                      /\ \A e \in Deliveries : posts[e] <= posts[d]
    BY DEF GivenUpHonestly
  <2>1. posts[d] = Rungs - 1
    BY DEF Honest, HonestRow
  <2>2. \A e \in Deliveries : posts[e] \in 0 .. Rungs - 1
    BY DEF IInv, Types
  <2>3. row[d].attempts \in 0 .. Rungs - 1 /\ posts[d] <= row[d].attempts
    BY DEF IInv, Types, Row, RowOK
  <2>4. QED
    BY <2>1, <2>2, <2>3, LadderAssumption
<1>2. QED
  BY <1>1, InitIsHonest, NextIsHonest, AlwaysIInv, PTL DEF Spec

=============================================================================
