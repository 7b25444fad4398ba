--------------------------- MODULE ConnectionsProofs ---------------------------
(***************************************************************************)
(* Proofs about Connections, for every number of connections, isolates and *)
(* events and every bound: the refresh lock excludes, and what follows     *)
(* from it about tokens, alarms and the state `refreshing'.                *)
(***************************************************************************)
EXTENDS Connections, TLAPS

USE ConnsAssumption, EventsAssumption, FaultsAssumption, BoundsAssumption

-----------------------------------------------------------------------------
(* Typing.                                                                 *)

LEMMA IdleType == Idle \in Process
  BY DEF Idle, Process, Step, RefreshJob, EventJob, Health

LEMMA InitType == Init => TypeOK
  BY IdleType DEF Init, TypeOK, EventStage, EventKind, Notice, Health

(* The moves of an isolate stay within its type.                           *)
LEMMA PutType ==
  ASSUME TypeOK, NEW i \in Isolates, NEW q \in Process,
         isolate' = [ isolate EXCEPT ![i] = q ]
  PROVE  isolate' \in [ Isolates -> Process ]
  BY DEF TypeOK

LEMMA EntryType == TypeOK => \A i \in Isolates : isolate[i] \in Process
  BY DEF TypeOK

LEMMA FieldTypes ==
  ASSUME NEW p \in Process
  PROVE  /\ p.conn \in Conns /\ p.health \in Health
         /\ p.step \in Step /\ p.job \in RefreshJob \cup EventJob
         /\ p.token \in 0 .. MaxTokens /\ p.todo \subseteq Conns
         /\ p.job \in EventJob => p.event \in Events
  BY DEF Process

LEMMA Steps ==
  { "idle", "due", "read", "call", "store", "store_rest", "write", "compare",
    "record", "tell", "release", "match", "close" } \subseteq Step
  BY DEF Step

LEMMA GotoType ==
  ASSUME TypeOK, NEW i \in Isolates, NEW s \in Step, Goto(i, s)
  PROVE  isolate' \in [ Isolates -> Process ]
  <1>1. [ isolate[i] EXCEPT !.step = s ] \in Process
    BY EntryType DEF Process
  <1>. QED  BY <1>1, PutType DEF Goto

LEMMA JudgeType ==
  ASSUME TypeOK, NEW i \in Isolates, NEW c \in Conns, NEW h \in Health,
         Judge(i, c, h)
  PROVE  isolate' \in [ Isolates -> Process ]
  <1>1. "write" \in Step /\ 0 \in 0 .. MaxTokens
    BY Steps
  <1>2. [ isolate[i] EXCEPT !.step = "write", !.conn = c, !.token = 0,
                            !.health = h ] \in Process
    BY <1>1, EntryType DEF Process
  <1>. QED  BY <1>2, PutType DEF Judge

LEMMA ReturnType ==
  ASSUME TypeOK, NEW i \in Isolates, Return(i)
  PROVE  isolate' \in [ Isolates -> Process ]
  <1>. DEFINE p == isolate[i]
              rest == p.todo \ {p.conn}
  <1>1. p \in Process
    BY EntryType
  <1>2. rest \subseteq Conns
    BY <1>1 DEF Process
  <1>3. CASE p.job \in RefreshJob
    BY <1>3, GotoType, Steps DEF Return
  <1>4. CASE p.job \notin RefreshJob /\ rest = {}
    <2>1. [ p EXCEPT !.step = "close", !.todo = {} ] \in Process
      BY <1>1, Steps DEF Process
    <2>. QED  BY <1>4, <2>1, PutType DEF Return
  <1>5. CASE p.job \notin RefreshJob /\ rest # {}
    <2>1. PICK c \in rest : isolate' = [ isolate EXCEPT ![i] =
              [ p EXCEPT !.step = "write", !.conn = c, !.todo = rest ] ]
      BY <1>5 DEF Return
    <2>2. [ p EXCEPT !.step = "write", !.conn = c, !.todo = rest ] \in Process
      BY <1>1, <1>2, Steps DEF Process
    <2>. QED  BY <2>1, <2>2, PutType
  <1>. QED  BY <1>3, <1>4, <1>5

LEMMA HealthForKindType == \A k : HealthForKind(k) \in Health
  BY DEF HealthForKind, Health

LEMMA DeferredType == \A j : Deferred(j) \in Health
  BY DEF Deferred, Health

LEMMA CustomerType ==
  ASSUME TypeOK, NEW c \in Conns, NEW r \in BOOLEAN,
         \/ Connect(c, r) \/ Disconnect(c) \/ AccessNearsExpiry(c)
         \/ RefreshTokenLapses(c) \/ LockExpires(c)
  PROVE  TypeOK'
  <1>1. CASE Connect(c, r)
    BY <1>1 DEF Connect, TypeOK, inbox, Act, Health, Notice
  <1>2. CASE Disconnect(c)
    BY <1>2 DEF Disconnect, TypeOK, inbox, provider, Act, Health, Notice
  <1>3. CASE AccessNearsExpiry(c)
    BY <1>3 DEF AccessNearsExpiry, TypeOK, rows, inbox, provider, Act
  <1>4. CASE RefreshTokenLapses(c)
    BY <1>4 DEF RefreshTokenLapses, TypeOK, rows, credentials, inbox, Act
  <1>5. CASE LockExpires(c)
    BY <1>5 DEF LockExpires, TypeOK, credentials, inbox, provider
  <1>. QED  BY <1>1, <1>2, <1>3, <1>4, <1>5

LEMMA InboxType ==
  ASSUME TypeOK, NEW e \in Events, NEW k \in EventKind, NEW s \in BOOLEAN,
         Announce(e, k) \/ Ingress(e, s)
  PROVE  TypeOK'
  <1>1. CASE Announce(e, k)
    BY <1>1 DEF Announce, TypeOK, rows, credentials, EventStage, Notice
  <1>2. CASE Ingress(e, s)
    BY <1>2 DEF Ingress, TypeOK, rows, credentials, provider, EventStage
  <1>. QED  BY <1>1, <1>2

LEMMA HealthType ==
  ASSUME TypeOK, NEW i \in Isolates,
         Write(i) \/ Compare(i) \/ Record(i) \/ Tell(i)
  PROVE  TypeOK'
  <1>. USE DEF TypeOK, rows, credentials, inbox, provider
  <1>0. isolate[i] \in Process
    OBVIOUS
  <1>1. isolate' \in [ Isolates -> Process ]
    <2>1. CASE Write(i)
      BY <2>1, GotoType, Steps DEF Write
    <2>2. CASE Compare(i)
      BY <2>2, GotoType, ReturnType, Steps DEF Compare
    <2>3. CASE Record(i)
      BY <2>3, GotoType, ReturnType, Steps DEF Record
    <2>4. CASE Tell(i)
      BY <2>4, ReturnType DEF Tell
    <2>. QED  BY <2>1, <2>2, <2>3, <2>4
  <1>2. CASE Write(i)
    BY <1>0, <1>1, <1>2 DEF Write, Process
  <1>3. CASE Compare(i)
    BY <1>1, <1>3 DEF Compare
  <1>4. CASE Record(i)
    BY <1>0, <1>1, <1>4 DEF Record, Process
  <1>5. CASE Tell(i)
    BY <1>0, <1>1, <1>5 DEF Tell, Process, Notice
  <1>. QED  BY <1>2, <1>3, <1>4, <1>5

LEMMA RefreshType ==
  ASSUME TypeOK, NEW i \in Isolates, RefreshStep(i)
  PROVE  TypeOK'
  <1>. USE DEF TypeOK, rows, credentials, inbox, provider
  <1>. DEFINE p == isolate[i]
  <1>0. /\ p \in Process /\ p.conn \in Conns /\ p.token \in 0 .. MaxTokens
    BY EntryType DEF Process
  <1>1. CASE Lock(i)
    <2>1. isolate' \in [ Isolates -> Process ]
      BY <1>1, GotoType, IdleType, Steps, PutType DEF Lock
    <2>. QED  BY <1>0, <1>1, <2>1 DEF Lock, Health
  <1>2. CASE Read(i)
    <2>. DEFINE c == p.conn
    <2>1. { "reauth_required", "refresh_due" } \subseteq Health
      BY DEF Health
    <2>2. [ p EXCEPT !.step = "call", !.token = token[c] ] \in Process
      BY <1>0, Steps DEF Process
    <2>3. isolate' \in [ Isolates -> Process ]
      BY <1>0, <1>2, <2>1, <2>2, GotoType, JudgeType, Steps, PutType DEF Read
    <2>. QED  BY <1>2, <2>3 DEF Read
  <1>3. CASE Call(i)
    <2>. DEFINE c == p.conn
    <2>1. { "reauth_required", "healthy" } \subseteq Health
      BY DEF Health
    <2>2. Rotates(c, p.token) =>
            /\ [ p EXCEPT !.step = "store", !.token = issued[c] + 1 ]
                  \in Process
            /\ issued' \in [ Conns -> 0 .. MaxTokens ]
            /\ good' \in [ Conns -> SUBSET (1 .. MaxTokens) ]
      <3>. SUFFICES ASSUME Rotates(c, p.token)
                    PROVE  /\ [ p EXCEPT !.step = "store",
                                         !.token = issued[c] + 1 ] \in Process
                           /\ issued' \in [ Conns -> 0 .. MaxTokens ]
                           /\ good' \in [ Conns -> SUBSET (1 .. MaxTokens) ]
        OBVIOUS
      <3>1. issued[c] + 1 \in 1 .. MaxTokens
        BY <1>0 DEF Rotates
      <3>2. issued[c] + 1 \in 0 .. MaxTokens
        BY <3>1
      <3>3. [ p EXCEPT !.step = "store", !.token = issued[c] + 1 ] \in Process
        BY <1>0, <3>2, Steps DEF Process
      <3>4. issued' \in [ Conns -> 0 .. MaxTokens ]
        BY <1>0, <3>2 DEF Rotates
      <3>5. good' \in [ Conns -> SUBSET (1 .. MaxTokens) ]
        BY <1>0, <3>1 DEF Rotates
      <3>. QED  BY <3>3, <3>4, <3>5
    <2>3. Mishap => mishaps' \in 0 .. MaxMishaps
      BY DEF Mishap
    <2>4. isolate' \in [ Isolates -> Process ]
      BY <1>0, <1>3, <2>1, <2>2, JudgeType, DeferredType, PutType DEF Call
    <2>5. /\ issued' \in [ Conns -> 0 .. MaxTokens ]
          /\ good' \in [ Conns -> SUBSET (1 .. MaxTokens) ]
          /\ mishaps' \in 0 .. MaxMishaps
      BY <1>3, <2>2, <2>3 DEF Call
    <2>. QED  BY <1>3, <2>4, <2>5 DEF Call
  <1>4. CASE Store(i)
    <2>1. isolate' \in [ Isolates -> Process ]
      BY <1>0, <1>4, GotoType, JudgeType, Steps DEF Store, Health
    <2>. QED  BY <1>0, <1>4, <2>1 DEF Store
  <1>5. CASE StoreRest(i)
    <2>1. isolate' \in [ Isolates -> Process ]
      BY <1>0, <1>5, JudgeType DEF StoreRest, Health
    <2>. QED  BY <1>0, <1>5, <2>1 DEF StoreRest
  <1>6. CASE Release(i)
    BY <1>0, <1>6, IdleType, PutType DEF Release
  <1>. QED  BY <1>1, <1>2, <1>3, <1>4, <1>5, <1>6 DEF RefreshStep

LEMMA RequestType ==
  ASSUME TypeOK, NEW i \in Isolates, NEW c \in Conns,
         FindDue(i, c) \/ Demand(i, c)
  PROVE  TypeOK'
  <1>. USE DEF TypeOK, rows, credentials, inbox, provider
  <1>1. CASE FindDue(i, c)
    <2>1. [ Idle EXCEPT !.step = "due", !.conn = c ] \in Process
      BY IdleType, Steps DEF Process
    <2>. QED  BY <1>1, <2>1, PutType DEF FindDue
  <1>2. CASE Demand(i, c)
    <2>1. [ Idle EXCEPT !.step = "due", !.job = "manual", !.conn = c ]
            \in Process
      BY IdleType, Steps DEF Process, RefreshJob, EventJob
    <2>. QED  BY <1>2, <2>1, PutType DEF Demand, Act
  <1>. QED  BY <1>1, <1>2

LEMMA TakeType ==
  ASSUME TypeOK, NEW i \in Isolates, NEW e \in Events,
         Receive(i, e) \/ Sweep(i, e)
  PROVE  TypeOK'
  <1>. USE DEF TypeOK, rows, credentials, inbox, provider
  <1>1. CASE Receive(i, e)
    <2>1. [ Idle EXCEPT !.step = "match", !.job = "queued", !.event = e ]
            \in Process
      BY IdleType, Steps DEF Process, EventJob
    <2>2. isolate' \in [ Isolates -> Process ]
      BY <1>1, <2>1, IdleType, PutType DEF Receive
    <2>. QED  BY <1>1, <2>2 DEF Receive
  <1>2. CASE Sweep(i, e)
    <2>1. [ Idle EXCEPT !.step = "match", !.job = "swept", !.event = e ]
            \in Process
      BY IdleType, Steps DEF Process, EventJob
    <2>. QED  BY <1>2, <2>1, PutType DEF Sweep
  <1>. QED  BY <1>1, <1>2

LEMMA EventType ==
  ASSUME TypeOK, NEW i \in Isolates, Match(i) \/ Close(i)
  PROVE  TypeOK'
  <1>. USE DEF TypeOK, rows, credentials, inbox, provider
  <1>. DEFINE p == isolate[i]
              all == Concerned(p.event)
  <1>0. p \in Process /\ all \subseteq Conns
    BY EntryType DEF Concerned
  <1>1. CASE Match(i)
    <2>1. CASE all = {}
      BY <1>1, <2>1, GotoType, Steps DEF Match
    <2>2. CASE all # {}
      <3>1. PICK c \in all : isolate' = [ isolate EXCEPT ![i] =
               [ p EXCEPT !.step = "write", !.conn = c,
                          !.health = HealthForKind(kind[p.event]),
                          !.todo = all ] ]
        BY <1>1, <2>2 DEF Match
      <3>2. [ p EXCEPT !.step = "write", !.conn = c,
                       !.health = HealthForKind(kind[p.event]),
                       !.todo = all ] \in Process
        BY <1>0, Steps, HealthForKindType DEF Process
      <3>3. isolate' \in [ Isolates -> Process ]
        BY <3>1, <3>2, PutType
      <3>. QED  BY <1>1, <3>3 DEF Match
    <2>. QED  BY <2>1, <2>2
  <1>2. CASE Close(i)
    BY <1>2, IdleType, PutType DEF Close, EventStage
  <1>. QED  BY <1>1, <1>2

LEMMA FaultType ==
  ASSUME TypeOK, NEW i \in Isolates, Crash(i) \/ Throw(i)
  PROVE  TypeOK'
  <1>. DEFINE p == isolate[i]
  <1>0. p \in Process
    BY EntryType
  <1>a. /\ p.conn \in Conns
        /\ p.job \in { "sweep", "manual", "queued", "swept" }
        /\ p.job = "queued" => p.event \in Events
    BY <1>0, FieldTypes DEF RefreshJob, EventJob
  <1>. USE DEF TypeOK, rows, credentials, inbox, provider
  <1>1. mishaps' \in 0 .. MaxMishaps
    BY DEF Crash, Throw, Mishap
  <1>2. queue' \subseteq Events
    BY <1>a DEF Crash, Throw
  <1>3. isolate' \in [ Isolates -> Process ]
    <2>1. CASE Crash(i)
      BY <2>1, IdleType, PutType DEF Crash
    <2>2. CASE Throw(i)
      <3>1. "reauth_required" \in Health
        BY DEF Health
      <3>. QED  BY <1>a, <2>2, <3>1, IdleType, PutType, GotoType, JudgeType,
                   Steps DEF Throw
    <2>. QED  BY <2>1, <2>2
  <1>. QED  BY <1>1, <1>2, <1>3 DEF Crash, Throw

LEMMA TypeStep == TypeOK /\ [Next]_vars => TypeOK'
  <1>. SUFFICES ASSUME TypeOK, [Next]_vars PROVE TypeOK'
    OBVIOUS
  <1>1. CASE UNCHANGED vars
    BY <1>1 DEF TypeOK, vars, rows, credentials, inbox, provider
  <1>2. CASE \E c \in Acting : \E r \in BOOLEAN :
               \/ Connect(c, r) \/ Disconnect(c) \/ AccessNearsExpiry(c)
               \/ RefreshTokenLapses(c) \/ LockExpires(c)
    BY <1>2, CustomerType
  <1>3. CASE \E e \in Events : \/ \E k \in EventKind : Announce(e, k)
                              \/ \E s \in BOOLEAN : Ingress(e, s)
    BY <1>3, InboxType DEF EventKind
  <1>4. CASE \E i \in Isolates :
               \/ \E c \in Acting : FindDue(i, c) \/ Demand(i, c)
               \/ \E e \in Events : Receive(i, e) \/ Sweep(i, e)
    BY <1>4, RequestType, TakeType
  <1>5. CASE \E i \in Isolates : IsolateStep(i) \/ Crash(i) \/ Throw(i)
    BY <1>5, HealthType, RefreshType, EventType, FaultType DEF IsolateStep
  <1>. QED  BY <1>1, <1>2, <1>3, <1>4, <1>5 DEF Next

(* Every row, credential, message and isolate keeps to its domain, whatever *)
(* faults strike: no path writes a health outside the lifecycle, stores a   *)
(* token the provider never issued, or leaves an expiry without its token.  *)
THEOREM TypeCorrect == Spec => []TypeOK
  BY TypeStep, InitType, PTL DEF Spec

-----------------------------------------------------------------------------
(* The lock.                                                               *)

(* What ReauthIsDeserved and the others need of the faults.                *)
LockLasts == "slow" \notin Faults /\ "reconnect_in_refresh" \notin Faults

LockIsHeld ==
    \A i \in Isolates : \A c \in Conns : Holds(i, c) => c \in locks

LockInv == LockIsHeld /\ OneRefresher

(* How the moves of an isolate change what it is and what others are.      *)
LEMMA GotoShape ==
  ASSUME TypeOK, NEW i \in Isolates, NEW s, Goto(i, s)
  PROVE  /\ \A j \in Isolates : j # i => isolate'[j] = isolate[j]
         /\ isolate'[i].step = s
         /\ isolate'[i].job = isolate[i].job
         /\ isolate'[i].conn = isolate[i].conn
         /\ isolate'[i].token = isolate[i].token
         /\ isolate'[i].health = isolate[i].health
  <1>1. isolate[i] \in Process
    BY EntryType
  <1>. QED  BY <1>1 DEF Goto, TypeOK, Process

LEMMA JudgeShape ==
  ASSUME TypeOK, NEW i \in Isolates, NEW c, NEW h, Judge(i, c, h)
  PROVE  /\ \A j \in Isolates : j # i => isolate'[j] = isolate[j]
         /\ isolate'[i].step = "write"
         /\ isolate'[i].job = isolate[i].job
         /\ isolate'[i].conn = c
         /\ isolate'[i].health = h
  <1>1. isolate[i] \in Process
    BY EntryType
  <1>. QED  BY <1>1 DEF Judge, TypeOK, Process

LEMMA ReturnShape ==
  ASSUME TypeOK, NEW i \in Isolates, Return(i)
  PROVE  /\ \A j \in Isolates : j # i => isolate'[j] = isolate[j]
         /\ isolate'[i].job = isolate[i].job
         /\ isolate'[i].health = isolate[i].health
         /\ isolate[i].job \in RefreshJob =>
               /\ isolate'[i].step = "release"
               /\ isolate'[i].conn = isolate[i].conn
         /\ isolate[i].job \notin RefreshJob =>
               isolate'[i].step \in { "write", "close" }
  <1>. DEFINE p == isolate[i]
              rest == p.todo \ {p.conn}
  <1>1. p \in Process
    BY EntryType
  <1>2. CASE p.job \in RefreshJob
    BY <1>2, GotoShape DEF Return
  <1>3. CASE p.job \notin RefreshJob /\ rest = {}
    <2>1. isolate' = [ isolate EXCEPT ![i] =
              [ p EXCEPT !.step = "close", !.todo = {} ] ]
      BY <1>3 DEF Return
    <2>. QED  BY <1>1, <1>3, <2>1 DEF TypeOK, Process
  <1>4. CASE p.job \notin RefreshJob /\ rest # {}
    <2>1. PICK c \in rest : isolate' = [ isolate EXCEPT ![i] =
              [ p EXCEPT !.step = "write", !.conn = c, !.todo = rest ] ]
      BY <1>4 DEF Return
    <2>. QED  BY <1>1, <1>4, <2>1 DEF TypeOK, Process
  <1>. QED  BY <1>2, <1>3, <1>4

LEMMA MatchShape ==
  ASSUME TypeOK, NEW i \in Isolates, Match(i)
  PROVE  /\ \A j \in Isolates : j # i => isolate'[j] = isolate[j]
         /\ isolate'[i].job = isolate[i].job
         /\ isolate'[i].step \in { "write", "close" }
         /\ isolate'[i].health \in { isolate[i].health, "revoked",
                                     "permission_missing" }
  <1>. DEFINE p == isolate[i]
              all == Concerned(p.event)
  <1>1. p \in Process
    BY EntryType
  <1>2. CASE all = {}
    BY <1>2, GotoShape DEF Match
  <1>3. CASE all # {}
    <2>1. PICK c \in all : isolate' = [ isolate EXCEPT ![i] =
             [ p EXCEPT !.step = "write", !.conn = c,
                        !.health = HealthForKind(kind[p.event]),
                        !.todo = all ] ]
      BY <1>3 DEF Match
    <2>. QED  BY <1>1, <2>1 DEF TypeOK, Process, HealthForKind
  <1>. QED  BY <1>2, <1>3

(* The steps of a refresh belong to refreshes, those of an event to events.*)
RefreshOnly == { "due", "read", "call", "store", "store_rest", "release" }
EventOnly == { "match", "close" }

StepsFit ==
    \A i \in Isolates :
        /\ isolate[i].step \in RefreshOnly => isolate[i].job \in RefreshJob
        /\ isolate[i].step \in EventOnly => isolate[i].job \in EventJob

LEMMA IdleShape ==
  /\ Idle.step = "idle" /\ Idle.job = "sweep" /\ Idle.token = 0
  /\ Idle.health = "healthy"
  BY DEF Idle

(* What one step of isolate i is, as far as the lock is concerned.         *)
Kept(i) ==
    /\ isolate'[i].job = isolate[i].job
    /\ isolate[i].job \in RefreshJob => isolate'[i].conn = isolate[i].conn
    /\ isolate'[i].step \in RefreshOnly => isolate[i].job \in RefreshJob
    /\ isolate'[i].step \in EventOnly => isolate[i].job \in EventJob

LEMMA KeptByGoto ==
  ASSUME TypeOK, NEW i \in Isolates, NEW s, Goto(i, s),
         s \in RefreshOnly => isolate[i].job \in RefreshJob,
         s \in EventOnly => isolate[i].job \in EventJob
  PROVE  /\ \A j \in Isolates : j # i => isolate'[j] = isolate[j]
         /\ Kept(i)
  BY GotoShape DEF Kept

LEMMA KeptByJudge ==
  ASSUME TypeOK, NEW i \in Isolates, NEW h, Judge(i, isolate[i].conn, h)
  PROVE  /\ \A j \in Isolates : j # i => isolate'[j] = isolate[j]
         /\ Kept(i)
  BY JudgeShape DEF Kept, RefreshOnly, EventOnly

LEMMA KeptByReturn ==
  ASSUME TypeOK, NEW i \in Isolates, Return(i)
  PROVE  /\ \A j \in Isolates : j # i => isolate'[j] = isolate[j]
         /\ Kept(i)
  <1>1. isolate[i].job \in RefreshJob \cup EventJob
    BY EntryType, FieldTypes
  <1>. QED  BY <1>1, ReturnShape DEF Kept, RefreshOnly, EventOnly

LEMMA EndShape ==
  ASSUME TypeOK, NEW i \in Isolates, isolate' = [ isolate EXCEPT ![i] = Idle ]
  PROVE  /\ \A j \in Isolates : j # i => isolate'[j] = isolate[j]
         /\ isolate'[i] = Idle
  BY DEF TypeOK

LEMMA StepShape ==
  ASSUME TypeOK, StepsFit, NEW i \in Isolates,
         IsolateStep(i) \/ Crash(i) \/ Throw(i)
  PROVE  /\ \A j \in Isolates : j # i => isolate'[j] = isolate[j]
         /\ isolate'[i] = Idle \/ Kept(i)
  <1>. DEFINE p == isolate[i]
  <1>0. p \in Process
    BY EntryType
  <1>1. CASE Write(i)
    BY <1>1, KeptByGoto DEF Write, RefreshOnly, EventOnly
  <1>2. CASE Compare(i)
    BY <1>2, KeptByGoto, KeptByReturn DEF Compare, RefreshOnly, EventOnly
  <1>3. CASE Record(i)
    BY <1>3, KeptByGoto, KeptByReturn DEF Record, RefreshOnly, EventOnly
  <1>4. CASE Tell(i)
    BY <1>4, KeptByReturn DEF Tell
  <1>5. CASE Lock(i)
    BY <1>5, KeptByGoto, EndShape DEF Lock, StepsFit, RefreshOnly, EventOnly
  <1>6. CASE Read(i)
    <2>1. p.job \in RefreshJob
      BY <1>6 DEF Read, StepsFit, RefreshOnly
    <2>2. CASE isolate' = [ isolate EXCEPT ![i] =
                 [ p EXCEPT !.step = "call", !.token = token[p.conn] ] ]
      BY <1>0, <2>1, <2>2 DEF Kept, TypeOK, Process, EventOnly
    <2>. QED  BY <1>6, <2>1, <2>2, KeptByGoto, KeptByJudge
              DEF Read, RefreshOnly, EventOnly
  <1>7. CASE Call(i)
    <2>1. p.job \in RefreshJob
      BY <1>7 DEF Call, StepsFit, RefreshOnly
    <2>2. CASE isolate' = [ isolate EXCEPT ![i] =
                 [ p EXCEPT !.step = "store", !.token = issued[p.conn] + 1 ] ]
      BY <1>0, <2>1, <2>2 DEF Kept, TypeOK, Process, EventOnly
    <2>. QED  BY <1>7, <2>1, <2>2, KeptByJudge DEF Call
  <1>8. CASE Store(i)
    BY <1>8, KeptByGoto, KeptByJudge DEF Store, StepsFit, RefreshOnly, EventOnly
  <1>9. CASE StoreRest(i)
    BY <1>9, KeptByJudge DEF StoreRest
  <1>10. CASE Release(i)
    BY <1>10, EndShape DEF Release
  <1>11. CASE Match(i)
    BY <1>11, MatchShape DEF Match, Kept, StepsFit, RefreshOnly, EventOnly,
                             RefreshJob, EventJob
  <1>12. CASE Close(i)
    BY <1>12, EndShape DEF Close
  <1>13. CASE Crash(i)
    BY <1>13, EndShape DEF Crash
  <1>14. CASE Throw(i)
    BY <1>14, EndShape, KeptByGoto, KeptByJudge
    DEF Throw, RefreshOnly, EventOnly, RefreshJob, EventJob
  <1>. QED  BY <1>1, <1>2, <1>3, <1>4, <1>5, <1>6, <1>7, <1>8, <1>9, <1>10,
               <1>11, <1>12, <1>13, <1>14 DEF IsolateStep, RefreshStep

(* A start puts an idle isolate to work on its first step.                 *)
LEMMA StartShape ==
  ASSUME TypeOK, NEW i \in Isolates,
         \/ \E c \in Conns : FindDue(i, c) \/ Demand(i, c)
         \/ \E e \in Events : Receive(i, e) \/ Sweep(i, e)
  PROVE  /\ \A j \in Isolates : j # i => isolate'[j] = isolate[j]
         /\ isolate'[i].health = "healthy"
         /\ \/ isolate'[i] = Idle
            \/ isolate'[i].step = "due" /\ isolate'[i].job \in RefreshJob
            \/ isolate'[i].step = "match" /\ isolate'[i].job \in EventJob
  <1>. DEFINE First(q) == /\ q.health = "healthy"
                          /\ \/ q = Idle
                             \/ q.step = "due" /\ q.job \in RefreshJob
                             \/ q.step = "match" /\ q.job \in EventJob
              Puts == \E q : First(q) /\ isolate' = [ isolate EXCEPT ![i] = q ]
  <1>1. ASSUME NEW c \in Conns, FindDue(i, c) PROVE Puts
    <2>. DEFINE q == [ Idle EXCEPT !.step = "due", !.conn = c ]
    <2>1. First(q)
      BY DEF Idle, RefreshJob
    <2>. QED  BY <1>1, <2>1 DEF FindDue
  <1>2. ASSUME NEW c \in Conns, Demand(i, c) PROVE Puts
    <2>. DEFINE q == [ Idle EXCEPT !.step = "due", !.job = "manual",
                                   !.conn = c ]
    <2>1. First(q)
      BY DEF Idle, RefreshJob
    <2>. QED  BY <1>2, <2>1 DEF Demand
  <1>3. ASSUME NEW e \in Events, Receive(i, e) PROVE Puts
    <2>. DEFINE q == [ Idle EXCEPT !.step = "match", !.job = "queued",
                                   !.event = e ]
    <2>1. First(q)
      BY DEF Idle, EventJob
    <2>. QED  BY <1>3, <2>1, IdleShape DEF Receive
  <1>4. ASSUME NEW e \in Events, Sweep(i, e) PROVE Puts
    <2>. DEFINE q == [ Idle EXCEPT !.step = "match", !.job = "swept",
                                   !.event = e ]
    <2>1. First(q)
      BY DEF Idle, EventJob
    <2>. QED  BY <1>4, <2>1 DEF Sweep
  <1>5. PICK q : First(q) /\ isolate' = [ isolate EXCEPT ![i] = q ]
    BY <1>1, <1>2, <1>3, <1>4
  <1>. QED  BY <1>5 DEF TypeOK

(* What leaves the isolates alone.                                         *)
Elsewhere ==
    \/ \E c \in Acting :
          \/ \E r \in BOOLEAN : Connect(c, r)
          \/ Disconnect(c)
          \/ AccessNearsExpiry(c) \/ RefreshTokenLapses(c) \/ LockExpires(c)
    \/ \E e \in Events :
          \/ \E k \in EventKind : Announce(e, k)
          \/ \E sent \in BOOLEAN : Ingress(e, sent)

Started(i) ==
    \/ \E c \in Conns : FindDue(i, c) \/ Demand(i, c)
    \/ \E e \in Events : Receive(i, e) \/ Sweep(i, e)

LEMMA NextIs ==
  Next => \/ Elsewhere
          \/ \E i \in Isolates : Started(i) \/ IsolateStep(i)
                                 \/ Crash(i) \/ Throw(i)
  BY DEF Next, Elsewhere, Started

LEMMA ElsewhereShape == Elsewhere => isolate' = isolate
  BY DEF Elsewhere, Connect, Disconnect, AccessNearsExpiry, RefreshTokenLapses,
         LockExpires, Announce, Ingress

LEMMA StepsFitStep == TypeOK /\ StepsFit /\ [Next]_vars => StepsFit'
  <1>. SUFFICES ASSUME TypeOK, StepsFit, [Next]_vars PROVE StepsFit'
    OBVIOUS
  <1>1. CASE isolate' = isolate
    BY <1>1 DEF StepsFit
  <1>2. ASSUME NEW i \in Isolates, Started(i) PROVE StepsFit'
    BY <1>2, StartShape, IdleShape
    DEF StepsFit, Started, RefreshOnly, EventOnly
  <1>3. ASSUME NEW i \in Isolates, IsolateStep(i) \/ Crash(i) \/ Throw(i)
        PROVE  StepsFit'
    BY <1>3, StepShape, IdleShape DEF StepsFit, Kept, RefreshOnly, EventOnly
  <1>. QED  BY <1>1, <1>2, <1>3, NextIs, ElsewhereShape DEF vars

(* An isolate comes to hold a connection only by taking its lock, and goes *)
(* on holding it until it gives the lock up.                               *)
LEMMA HoldsBefore ==
  ASSUME TypeOK, StepsFit, [Next]_vars, NEW j \in Isolates, NEW c \in Conns,
         Holds(j, c)'
  PROVE  \/ Holds(j, c) /\ ~Release(j) /\ ~Lock(j)
         \/ Lock(j) /\ isolate[j].conn = c /\ c \notin locks
  <1>0. isolate'[j] # Idle /\ isolate'[j].step # "due"
    BY IdleShape DEF Holds
  <1>1. ~Release(j)
    BY <1>0, EndShape DEF Release
  <1>2. CASE isolate'[j] = isolate[j]
    <2>1. ~Lock(j)
      <3>. SUFFICES ASSUME Lock(j) PROVE FALSE
        OBVIOUS
      <3>1. isolate'[j].step = "read" \/ isolate'[j] = Idle
        BY GotoShape, EndShape DEF Lock
      <3>. QED  BY <1>0, <1>2, <3>1 DEF Lock
    <2>. QED  BY <1>1, <1>2, <2>1 DEF Holds
  <1>3. CASE isolate'[j] # isolate[j]
    <2>1. PICK i \in Isolates : Started(i) \/ IsolateStep(i) \/ Crash(i)
                               \/ Throw(i)
      BY <1>3, NextIs, ElsewhereShape DEF vars
    <2>2. i = j
      BY <1>3, <2>1, StartShape, StepShape DEF Started
    <2>3. ~Started(j)
      BY <1>0, StartShape DEF Started, RefreshJob, EventJob, Holds
    <2>4. Kept(j)
      BY <1>0, <2>1, <2>2, <2>3, StepShape
    <2>5. isolate[j].job \in RefreshJob /\ isolate[j].conn = c
      BY <2>4 DEF Holds, Kept
    <2>6. isolate[j].step # "idle"
      BY <2>1, <2>2, <2>3 DEF IsolateStep, Write, Compare, Record, Tell,
         RefreshStep, Lock, Read, Call, Store, StoreRest, Release, Match,
         Close, Crash, Throw
    <2>7. CASE Lock(j)
      BY <1>0, <2>5, <2>7, EndShape DEF Lock, LockFree
    <2>8. CASE ~Lock(j)
      <3>1. isolate[j].step # "due"
        BY <1>0, <2>1, <2>2, <2>3, <2>8, EndShape
        DEF IsolateStep, Write, Compare, Record, Tell, RefreshStep, Read, Call,
            Store, StoreRest, Release, Match, Close, Crash, Throw
      <3>. QED  BY <1>1, <2>5, <2>6, <2>8, <3>1 DEF Holds
    <2>. QED  BY <2>7, <2>8
  <1>. QED  BY <1>2, <1>3

(* A lock goes only when its holder gives it up, or nobody works under it. *)
LEMMA LocksKept ==
  ASSUME TypeOK, StepsFit, LockLasts, [Next]_vars,
         NEW c \in locks, c \notin locks'
  PROVE  \/ \E i \in Isolates : Release(i) /\ isolate[i].conn = c
         \/ ~Refreshing(c)
  <1>1. ASSUME Elsewhere PROVE ~Refreshing(c)
    BY <1>1 DEF Elsewhere, Connect, Disconnect, AccessNearsExpiry,
       RefreshTokenLapses, LockExpires, Announce, Ingress, LockLasts, rows
  <1>2. ASSUME NEW i \in Isolates,
               Started(i) \/ IsolateStep(i) \/ Crash(i) \/ Throw(i),
               ~Release(i)
        PROVE  FALSE
    BY <1>2 DEF Started, FindDue, Demand, Receive, Sweep, IsolateStep, Write,
       Compare, Record, Tell, RefreshStep, Lock, Read, Call, Store, StoreRest,
       Match, Close, Crash, Throw, rows
  <1>3. ASSUME NEW i \in Isolates, Release(i)
        PROVE  isolate[i].conn = c
    BY <1>3 DEF Release
  <1>. QED  BY <1>1, <1>2, <1>3, NextIs DEF vars, rows

LEMMA LockStep ==
  ASSUME TypeOK, StepsFit, LockLasts, LockInv, [Next]_vars
  PROVE  LockInv'
  <1>1. ASSUME NEW j \in Isolates, NEW c \in Conns, Holds(j, c)'
        PROVE  c \in locks'
    <2>1. CASE Lock(j) /\ isolate[j].conn = c /\ c \notin locks
      BY <2>1 DEF Lock, LockFree
    <2>2. CASE Holds(j, c) /\ ~Release(j) /\ ~Lock(j)
      <3>1. c \in locks
        BY <2>2 DEF LockInv, LockIsHeld
      <3>2. Refreshing(c)
        BY <2>2 DEF Refreshing, Works, Holds
      <3>3. ASSUME NEW i \in Isolates, Release(i), isolate[i].conn = c
            PROVE  FALSE
        <4>1. Holds(i, c)
          BY <3>3 DEF Release, Holds, StepsFit, RefreshOnly
        <4>. QED  BY <2>2, <3>3, <4>1 DEF LockInv, OneRefresher
      <3>. QED  BY <3>1, <3>2, <3>3, LocksKept
    <2>. QED  BY <1>1, <2>1, <2>2, HoldsBefore
  <1>2. ASSUME NEW c \in Conns, NEW i \in Isolates, NEW j \in Isolates,
               Holds(i, c)', Holds(j, c)', i # j
        PROVE  FALSE
    (* Whoever takes the lock now finds it taken by the other.             *)
    <2>1. ASSUME NEW k \in Isolates, NEW l \in Isolates, k # l,
                 Lock(k), isolate[k].conn = c, c \notin locks, Holds(l, c)'
          PROVE  FALSE
      <3>1. isolate'[l] = isolate[l]
        BY <2>1, StepShape DEF IsolateStep, RefreshStep
      <3>2. Holds(l, c)
        BY <2>1, <3>1 DEF Holds
      <3>. QED  BY <2>1, <3>2 DEF LockInv, LockIsHeld
    <2>2. Holds(i, c) /\ Holds(j, c)
      BY <1>2, <2>1, HoldsBefore
    <2>. QED  BY <1>2, <2>2 DEF LockInv, OneRefresher
  <1>. QED  BY <1>1, <1>2 DEF LockInv, LockIsHeld, OneRefresher

(* While a lock outlasts its holder's work and no authorization clears it, *)
(* sweep and route never refresh one connection at the same time: a        *)
(* refresh token that rotates is not presented twice.  The lock is         *)
(* released without looking whose it is (credentials.ts:238), which is why *)
(* the invariant ties every holder to its row.                             *)
THEOREM LockExcludes ==
  ASSUME LockLasts
  PROVE  Spec => []OneRefresher
  <1>. DEFINE Inv == TypeOK /\ StepsFit /\ LockInv
  <1>1. Init => Inv
    BY InitType, IdleShape DEF Init, StepsFit, LockInv, LockIsHeld,
       OneRefresher, Holds, RefreshOnly, EventOnly
  <1>2. Inv /\ [Next]_vars => Inv'
    BY TypeStep, StepsFitStep, LockStep
  <1>3. Inv => OneRefresher
    BY DEF LockInv
  <1>. QED  BY <1>1, <1>2, <1>3, PTL DEF Spec

-----------------------------------------------------------------------------
(* The state `refreshing'.                                                 *)

(* A refresh comes to the statement that replaces `refreshing': no isolate *)
(* dies and no statement throws before it, and the project's application   *)
(* is there to call the provider with.                                     *)
RefreshesFinish == { "crash", "io", "unconfigured" } \cap Faults = {}

(* No caller asks setConnectionHealth for `refreshing'.                    *)
NoneSaysRefreshing == \A i \in Isolates : isolate[i].health # "refreshing"

Working == { "read", "call", "store", "store_rest", "write" }

(* i has yet to write what its refresh of c came to.                       *)
Undecided(i, c) ==
    /\ isolate[i].job \in RefreshJob
    /\ isolate[i].conn = c
    /\ isolate[i].step \in Working

RefreshingIsUndecided ==
    \A c \in live :
        health[c] = "refreshing" => \E i \in Isolates : Undecided(i, c)

LEMMA HealthKept ==
  ASSUME TypeOK, NoneSaysRefreshing, NEW i \in Isolates,
         Started(i) \/ IsolateStep(i) \/ Crash(i) \/ Throw(i)
  PROVE  /\ \A j \in Isolates : j # i => isolate'[j] = isolate[j]
         /\ isolate'[i].health # "refreshing"
  <1>. DEFINE p == isolate[i]
              Fine == /\ \A j \in Isolates : j # i => isolate'[j] = isolate[j]
                      /\ isolate'[i].health # "refreshing"
  <1>0. p \in Process /\ p.health # "refreshing"
    BY EntryType DEF NoneSaysRefreshing
  <1>. HIDE DEF p
  <1>1. \A s : Goto(i, s) => Fine
    BY <1>0, GotoShape DEF p
  <1>2. \A c, h : Judge(i, c, h) /\ h # "refreshing" => Fine
    BY JudgeShape
  <1>3. Return(i) => Fine
    BY <1>0, ReturnShape DEF p
  <1>4. isolate' = [ isolate EXCEPT ![i] = Idle ] => Fine
    BY EndShape, IdleShape
  <1>5. CASE Started(i)
    BY <1>5, StartShape DEF Started
  <1>6. CASE Write(i) \/ Compare(i) \/ Record(i) \/ Tell(i)
    BY <1>1, <1>3, <1>6 DEF Write, Compare, Record, Tell
  <1>7. CASE Lock(i)
    BY <1>1, <1>4, <1>7 DEF Lock
  <1>8. CASE Read(i)
    <2>1. CASE isolate' = [ isolate EXCEPT ![i] =
                 [ p EXCEPT !.step = "call", !.token = token[p.conn] ] ]
      BY <1>0, <2>1 DEF TypeOK, Process
    <2>. QED  BY <1>1, <1>2, <1>8, <2>1 DEF Read, p
  <1>9. CASE Call(i)
    <2>1. CASE isolate' = [ isolate EXCEPT ![i] =
                 [ p EXCEPT !.step = "store", !.token = issued[p.conn] + 1 ] ]
      BY <1>0, <2>1 DEF TypeOK, Process
    <2>. QED  BY <1>2, <1>9, <2>1 DEF Call, Deferred, p
  <1>10. CASE Store(i) \/ StoreRest(i)
    BY <1>1, <1>2, <1>10 DEF Store, StoreRest
  <1>11. CASE Release(i) \/ Close(i) \/ Crash(i)
    BY <1>4, <1>11 DEF Release, Close, Crash
  <1>12. CASE Match(i)
    BY <1>0, <1>12, MatchShape DEF p
  <1>13. CASE Throw(i)
    BY <1>1, <1>2, <1>4, <1>13 DEF Throw
  <1>. QED  BY <1>5, <1>6, <1>7, <1>8, <1>9, <1>10, <1>11, <1>12, <1>13
            DEF IsolateStep, RefreshStep

LEMMA NoneSaysStep ==
  TypeOK /\ NoneSaysRefreshing /\ [Next]_vars => NoneSaysRefreshing'
  <1>. SUFFICES ASSUME TypeOK, NoneSaysRefreshing, [Next]_vars
                PROVE  NoneSaysRefreshing'
    OBVIOUS
  <1>1. CASE isolate' = isolate
    BY <1>1 DEF NoneSaysRefreshing
  <1>2. ASSUME NEW i \in Isolates,
               Started(i) \/ IsolateStep(i) \/ Crash(i) \/ Throw(i)
        PROVE  NoneSaysRefreshing'
    BY <1>2, HealthKept DEF NoneSaysRefreshing
  <1>. QED  BY <1>1, <1>2, NextIs, ElsewhereShape DEF vars

(* Nobody dies between lock and release, and nothing throws there.         *)
LEMMA HoldersLive ==
  ASSUME RefreshesFinish, NEW i \in Isolates, NEW c, Holds(i, c),
         isolate[i].step # "release"
  PROVE  ~Crash(i) /\ ~Throw(i)
  <1>1. "crash" \notin Faults /\ "io" \notin Faults
    BY DEF RefreshesFinish
  <1>. QED  BY <1>1 DEF Holds, Crash, Throw, Vulnerable, Throwing, RefreshJob

(* Which step an isolate that holds a connection takes.                    *)
LEMMA HolderSteps ==
  ASSUME TypeOK, StepsFit, RefreshesFinish, [Next]_vars,
         NEW i \in Isolates, NEW c, Holds(i, c), isolate'[i] # isolate[i],
         isolate[i].step # "release"
  PROVE  IsolateStep(i)
  <1>1. PICK k \in Isolates : Started(k) \/ IsolateStep(k) \/ Crash(k)
                             \/ Throw(k)
    BY NextIs, ElsewhereShape DEF vars
  <1>2. k = i
    BY <1>1, StartShape, StepShape DEF Started
  <1>3. ~Started(i)
    BY DEF Started, FindDue, Demand, Receive, Sweep, Holds
  <1>. QED  BY <1>1, <1>2, <1>3, HoldersLive

LEMMA UndecidedStep ==
  ASSUME TypeOK, StepsFit, RefreshesFinish, NoneSaysRefreshing, [Next]_vars,
         NEW i \in Isolates, NEW c \in Conns, Undecided(i, c),
         health'[c] = "refreshing"
  PROVE  Undecided(i, c)'
  <1>. DEFINE p == isolate[i]
  <1>0. p \in Process
    BY EntryType
  <1>1. CASE isolate'[i] = p
    BY <1>1 DEF Undecided
  <1>2. CASE isolate'[i] # p
    <2>1. IsolateStep(i)
      BY <1>2, HolderSteps DEF Holds, Undecided, Working
    <2>2. ~Write(i)
      BY DEF Write, Undecided, NoneSaysRefreshing, TypeOK
    <2>3. Read(i) \/ Call(i) \/ Store(i) \/ StoreRest(i)
      BY <2>1, <2>2 DEF IsolateStep, RefreshStep, Compare, Record, Tell, Lock,
         Release, Match, Close, Undecided, Working
    <2>4. CASE Read(i)
      <3>1. CASE isolate' = [ isolate EXCEPT ![i] =
                   [ p EXCEPT !.step = "call", !.token = token[p.conn] ] ]
        BY <1>0, <3>1 DEF Undecided, Working, TypeOK, Process
      <3>2. "unconfigured" \notin Faults
        BY DEF RefreshesFinish
      <3>. QED  BY <2>4, <3>1, <3>2, JudgeShape DEF Read, Undecided, Working
    <2>5. CASE Call(i)
      <3>1. CASE isolate' = [ isolate EXCEPT ![i] =
                   [ p EXCEPT !.step = "store",
                              !.token = issued[p.conn] + 1 ] ]
        BY <1>0, <3>1 DEF Undecided, Working, TypeOK, Process
      <3>. QED  BY <2>5, <3>1, JudgeShape DEF Call, Undecided, Working
    <2>6. CASE Store(i) \/ StoreRest(i)
      BY <2>6, GotoShape, JudgeShape
      DEF Store, StoreRest, Undecided, Working
    <2>. QED  BY <2>3, <2>4, <2>5, <2>6
  <1>. QED  BY <1>1, <1>2

(* Only the lock sets a connection to `refreshing'.                        *)
LEMMA RefreshingBefore ==
  ASSUME TypeOK, NoneSaysRefreshing, [Next]_vars,
         NEW c \in live', health'[c] = "refreshing"
  PROVE  \/ c \in live /\ health[c] = "refreshing"
         \/ \E i \in Isolates : /\ Lock(i) /\ isolate[i].conn = c
                                /\ LockFree(c)
  <1>1. CASE Elsewhere
    BY <1>1 DEF Elsewhere, Connect, Disconnect, AccessNearsExpiry,
       RefreshTokenLapses, LockExpires, Announce, Ingress, rows, TypeOK
  <1>2. ASSUME NEW i \in Isolates, Write(i)
        PROVE  c \in live /\ health[c] = "refreshing"
    BY <1>2 DEF Write, NoneSaysRefreshing, TypeOK
  <1>3. ASSUME NEW i \in Isolates, Lock(i)
        PROVE  \/ c \in live /\ health[c] = "refreshing"
               \/ isolate[i].conn = c /\ LockFree(c)
    BY <1>3 DEF Lock, TypeOK
  <1>4. ASSUME NEW i \in Isolates,
               Started(i) \/ IsolateStep(i) \/ Crash(i) \/ Throw(i),
               ~Write(i), ~Lock(i)
        PROVE  c \in live /\ health[c] = "refreshing"
    BY <1>4 DEF Started, FindDue, Demand, Receive, Sweep, IsolateStep,
       Compare, Record, Tell, RefreshStep, Read, Call, Store, StoreRest,
       Release, Match, Close, Crash, Throw, rows
  <1>5. CASE UNCHANGED vars
    BY <1>5 DEF vars, rows
  <1>. QED  BY <1>1, <1>2, <1>3, <1>4, <1>5, NextIs

LEMMA RefreshingStep ==
  ASSUME TypeOK, StepsFit, RefreshesFinish, NoneSaysRefreshing,
         RefreshingIsUndecided, [Next]_vars
  PROVE  RefreshingIsUndecided'
  <1>. SUFFICES ASSUME NEW c \in live', health'[c] = "refreshing"
                PROVE  \E i \in Isolates : Undecided(i, c)'
    BY DEF RefreshingIsUndecided
  <1>0. c \in Conns
    BY TypeStep DEF TypeOK
  <1>1. CASE c \in live /\ health[c] = "refreshing"
    <2>1. PICK i \in Isolates : Undecided(i, c)
      BY <1>1 DEF RefreshingIsUndecided
    <2>. QED  BY <1>0, <2>1, UndecidedStep
  <1>2. ASSUME NEW i \in Isolates, Lock(i), isolate[i].conn = c, LockFree(c)
        PROVE  Undecided(i, c)'
    <2>1. isolate[i].job \in RefreshJob
      BY <1>2 DEF Lock, StepsFit, RefreshOnly
    <2>. QED  BY <1>2, <2>1, GotoShape DEF Lock, Undecided, Working
  <1>. QED  BY <1>1, <1>2, RefreshingBefore

(* Any number of refreshes, however their locks ran out and whoever else   *)
(* wrote the health: as long as handlers come to their end, a live         *)
(* connection never stays `refreshing', where no sweep would find it.      *)
THEOREM NobodyStaysRefreshing ==
  ASSUME RefreshesFinish
  PROVE  Spec => []RefreshingIsWorkedOn
  <1>. DEFINE Inv == /\ TypeOK /\ StepsFit /\ NoneSaysRefreshing
                     /\ RefreshingIsUndecided
  <1>1. Init => Inv
    BY InitType, IdleShape DEF Init, StepsFit, NoneSaysRefreshing,
       RefreshingIsUndecided, RefreshOnly, EventOnly
  <1>2. Inv /\ [Next]_vars => Inv'
    BY TypeStep, StepsFitStep, NoneSaysStep, RefreshingStep
  <1>3. Inv => RefreshingIsWorkedOn
    BY DEF RefreshingIsUndecided, RefreshingIsWorkedOn, Undecided, Working,
       Holds
  <1>. QED  BY <1>1, <1>2, <1>3, PTL DEF Spec

-----------------------------------------------------------------------------
(* Refresh tokens.                                                         *)

(* A refresh keeps its lock, and what the provider answers arrives and is  *)
(* stored.                                                                 *)
RefreshesArrive ==
    /\ LockLasts
    /\ { "crash", "io", "unconfigured", "lost_response" } \cap Faults = {}

(* i carries a token of c that it has yet to store.                        *)
Storing(i, c) ==
    Holds(i, c) /\ isolate[i].step \in { "store", "store_rest" }

TokensAreIssued == \A c \in Conns : \A t \in good[c] : t <= issued[c]

CarriedIsNewest ==
    \A i \in Isolates : \A c \in Conns :
        Storing(i, c) => \A t \in good[c] : t <= isolate[i].token

StoredIsNewest ==
    \A c \in Conns \ gone :
        (\A i \in Isolates : ~Storing(i, c))
            => \A t \in good[c] : t <= token[c]

(* The provider's books of c change in three ways: tokens go, a refresh    *)
(* rotates one, or an authorization issues one.                            *)
LEMMA BooksMove ==
  ASSUME TypeOK, RefreshesArrive, [Next]_vars, NEW c \in Conns
  PROVE  \/ good'[c] \subseteq good[c] /\ issued'[c] = issued[c]
         \/ \E i \in Isolates :
               /\ Call(i) /\ isolate[i].conn = c
               /\ Rotates(c, isolate[i].token)
               /\ isolate' = [ isolate EXCEPT ![i] =
                     [ isolate[i] EXCEPT !.step = "store",
                                         !.token = issued[c] + 1 ] ]
         \/ /\ Connect(c, TRUE) /\ ~Refreshing(c)
  <1>. DEFINE Shrinks == good'[c] \subseteq good[c] /\ issued'[c] = issued[c]
  <1>1. CASE Elsewhere
    <2>1. ASSUME NEW d \in Acting, NEW r \in BOOLEAN, Connect(d, r),
                 ~(d = c /\ r = TRUE)
          PROVE  Shrinks
      BY <2>1 DEF Connect, TypeOK
    <2>2. Connect(c, TRUE) => ~Refreshing(c)
      BY DEF Connect, RefreshesArrive, LockLasts
    <2>3. ASSUME NEW d \in Acting,
                 \/ Disconnect(d) \/ AccessNearsExpiry(d)
                 \/ RefreshTokenLapses(d) \/ LockExpires(d)
          PROVE  Shrinks
      BY <2>3 DEF Disconnect, AccessNearsExpiry, RefreshTokenLapses,
         LockExpires, provider, TypeOK
    <2>4. ASSUME NEW e \in Events,
                 \/ \E k \in EventKind : Announce(e, k)
                 \/ \E sent \in BOOLEAN : Ingress(e, sent)
          PROVE  Shrinks
      BY <2>4 DEF Announce, Ingress, provider
    <2>. QED  BY <1>1, <2>1, <2>2, <2>3, <2>4 DEF Elsewhere
  <1>2. ASSUME NEW i \in Isolates, Call(i), isolate[i].conn # c
        PROVE  good'[c] = good[c] /\ issued'[c] = issued[c]
    BY <1>2 DEF Call, Rotates, provider, TypeOK
  <1>3. ASSUME NEW i \in Isolates, Call(i), isolate[i].conn = c
        PROVE  \/ good'[c] = good[c] /\ issued'[c] = issued[c]
               \/ /\ Rotates(c, isolate[i].token)
                  /\ isolate' = [ isolate EXCEPT ![i] =
                        [ isolate[i] EXCEPT !.step = "store",
                                            !.token = issued[c] + 1 ] ]
    BY <1>3 DEF Call, provider, RefreshesArrive
  <1>4. ASSUME NEW i \in Isolates,
               Started(i) \/ IsolateStep(i) \/ Crash(i) \/ Throw(i), ~Call(i)
        PROVE  good'[c] = good[c] /\ issued'[c] = issued[c]
    BY <1>4 DEF Started, FindDue, Demand, Receive, Sweep, IsolateStep, Write,
       Compare, Record, Tell, RefreshStep, Lock, Read, Store, StoreRest,
       Release, Match, Close, Crash, Throw, provider
  <1>5. CASE UNCHANGED vars
    BY <1>5 DEF vars, provider
  <1>. QED  BY <1>1, <1>2, <1>3, <1>4, <1>5, NextIs

LEMMA IssuedStep ==
  ASSUME TypeOK, RefreshesArrive, TokensAreIssued, [Next]_vars
  PROVE  TokensAreIssued'
  <1>. SUFFICES ASSUME NEW c \in Conns, NEW t \in good'[c]
                PROVE  t <= issued'[c]
    BY DEF TokensAreIssued
  <1>0. /\ issued[c] \in Nat /\ good[c] \subseteq Nat
        /\ \A u \in good[c] : u <= issued[c]
    BY DEF TypeOK, TokensAreIssued
  <1>1. CASE good'[c] \subseteq good[c] /\ issued'[c] = issued[c]
    BY <1>0, <1>1
  <1>2. ASSUME NEW i \in Isolates, Rotates(c, isolate[i].token)
        PROVE  t <= issued'[c]
    BY <1>0, <1>2 DEF Rotates, TypeOK
  <1>3. CASE Connect(c, TRUE)
    BY <1>0, <1>3 DEF Connect, TypeOK
  <1>. QED  BY <1>1, <1>2, <1>3, BooksMove

(* Who is storing came from a rotation, or was storing before.             *)
LEMMA StoringBefore ==
  ASSUME TypeOK, StepsFit, RefreshesArrive, [Next]_vars,
         NEW i \in Isolates, NEW c \in Conns, Storing(i, c)'
  PROVE  \/ /\ Storing(i, c) /\ isolate'[i].token = isolate[i].token
            /\ ~Call(i)
         \/ /\ Call(i) /\ isolate[i].conn = c
            /\ Rotates(c, isolate[i].token)
            /\ isolate'[i].token = issued[c] + 1
  <1>. DEFINE p == isolate[i]
  <1>0. p \in Process
    BY EntryType
  <1>1. Holds(i, c) \/ Lock(i)
    BY HoldsBefore DEF Storing
  <1>2. ~Lock(i)
    BY GotoShape, EndShape, IdleShape DEF Lock, Storing
  <1>3. RefreshesFinish
    BY DEF RefreshesFinish, RefreshesArrive
  <1>4. CASE isolate'[i] = p
    <2>1. ~Call(i)
      <3>. SUFFICES ASSUME Call(i) PROVE FALSE
        OBVIOUS
      <3>1. p.step = "call"
        BY DEF Call
      <3>. QED  BY <1>4, <3>1 DEF Storing
    <2>. QED  BY <1>4, <2>1 DEF Storing, Holds
  <1>5. CASE isolate'[i] # p
    <2>1. p.step # "release"
      <3>. SUFFICES ASSUME p.step = "release" PROVE FALSE
        OBVIOUS
      <3>1. PICK k \in Isolates : Started(k) \/ IsolateStep(k) \/ Crash(k)
                                 \/ Throw(k)
        BY <1>5, NextIs, ElsewhereShape DEF vars
      <3>2. k = i
        BY <1>5, <3>1, StartShape, StepShape DEF Started
      <3>3. Release(i) \/ Crash(i)
        BY <3>1, <3>2 DEF Started, FindDue, Demand, Receive, Sweep,
           IsolateStep, Write, Compare, Record, Tell, RefreshStep, Lock, Read,
           Call, Store, StoreRest, Match, Close, Throw
      <3>. QED  BY <3>3, EndShape, IdleShape DEF Release, Crash, Storing
    <2>2. IsolateStep(i)
      BY <1>1, <1>2, <1>3, <1>5, <2>1, HolderSteps
    <2>3. CASE Call(i)
      <3>1. CASE isolate' = [ isolate EXCEPT ![i] =
                   [ p EXCEPT !.step = "store",
                              !.token = issued[p.conn] + 1 ] ]
                 /\ Rotates(p.conn, p.token)
        <4>1. p.conn = c
          BY <1>1, <1>2 DEF Holds
        <4>. QED  BY <1>0, <2>3, <3>1, <4>1 DEF TypeOK, Process
      <3>. QED  BY <2>3, <3>1, JudgeShape DEF Call, Storing
    <2>4. CASE Store(i)
      BY <1>1, <1>2, <2>4, GotoShape, JudgeShape DEF Store, Storing, Call
    <2>5. CASE Read(i)
      <3>1. CASE isolate' = [ isolate EXCEPT ![i] =
                   [ p EXCEPT !.step = "call", !.token = token[p.conn] ] ]
        BY <1>0, <3>1 DEF Storing, TypeOK, Process
      <3>. QED  BY <2>5, <3>1, JudgeShape, GotoShape DEF Read, Storing
    <2>6. CASE Write(i) \/ StoreRest(i) \/ Release(i) \/ Close(i)
      BY <2>6, GotoShape, JudgeShape, EndShape, IdleShape
      DEF Write, StoreRest, Release, Close, Storing
    <2>7. CASE Compare(i) \/ Record(i) \/ Tell(i)
      <3>1. p.job \in RefreshJob
        BY <1>1, <1>2 DEF Holds
      <3>. QED  BY <2>7, <3>1, GotoShape, ReturnShape
                DEF Compare, Record, Tell, Storing
    <2>8. CASE Match(i)
      BY <2>8, MatchShape DEF Storing
    <2>. QED  BY <1>2, <2>2, <2>3, <2>4, <2>5, <2>6, <2>7, <2>8
              DEF IsolateStep, RefreshStep
  <1>. QED  BY <1>4, <1>5

LEMMA CarriedStep ==
  ASSUME TypeOK, StepsFit, LockInv, RefreshesArrive, TokensAreIssued,
         CarriedIsNewest, [Next]_vars
  PROVE  CarriedIsNewest'
  <1>. SUFFICES ASSUME NEW i \in Isolates, NEW c \in Conns, Storing(i, c)',
                       NEW t \in good'[c]
                PROVE  t <= isolate'[i].token
    BY DEF CarriedIsNewest
  <1>0. /\ issued[c] \in Nat /\ good[c] \subseteq Nat
        /\ \A u \in good[c] : u <= issued[c]
    BY DEF TypeOK, TokensAreIssued
  <1>1. CASE /\ Call(i) /\ isolate[i].conn = c /\ Rotates(c, isolate[i].token)
             /\ isolate'[i].token = issued[c] + 1
    BY <1>0, <1>1 DEF Rotates, TypeOK
  <1>2. CASE /\ Storing(i, c) /\ isolate'[i].token = isolate[i].token
             /\ ~Call(i)
    <2>1. Refreshing(c)
      BY <1>2 DEF Storing, Holds, Refreshing, Works
    <2>2. ASSUME NEW k \in Isolates, Call(k), isolate[k].conn = c
          PROVE  FALSE
      <3>1. Holds(k, c)
        BY <2>2 DEF Call, Holds, StepsFit, RefreshOnly
      <3>. QED  BY <1>2, <2>2, <3>1 DEF Storing, LockInv, OneRefresher
    <2>3. good'[c] \subseteq good[c]
      BY <2>1, <2>2, BooksMove
    <2>. QED  BY <1>2, <2>3 DEF CarriedIsNewest
  <1>. QED  BY <1>1, <1>2, StoringBefore

(* What a connection has stored changes with an authorization, with a      *)
(* disconnection, and at the end of a refresh.                             *)
LEMMA TokenMoves ==
  ASSUME TypeOK, StepsFit, [Next]_vars, NEW c \in Conns
  PROVE  \/ token'[c] = token[c]
         \/ Connect(c, TRUE)
         \/ c \in gone'
         \/ \E i \in Isolates : /\ Storing(i, c) /\ ~Storing(i, c)'
                                /\ token'[c] = isolate[i].token
  <1>1. CASE Elsewhere
    <2>1. ASSUME NEW d \in Acting, NEW r \in BOOLEAN, Connect(d, r),
                 ~(d = c /\ r = TRUE)
          PROVE  token'[c] = token[c]
      BY <2>1 DEF Connect, TypeOK
    <2>2. ASSUME NEW d \in Acting, Disconnect(d)
          PROVE  token'[c] = token[c] \/ c \in gone'
      BY <2>2 DEF Disconnect, TypeOK
    <2>3. ASSUME NEW d \in Acting,
                 \/ AccessNearsExpiry(d) \/ RefreshTokenLapses(d)
                 \/ LockExpires(d)
          PROVE  token'[c] = token[c]
      BY <2>3 DEF AccessNearsExpiry, RefreshTokenLapses, LockExpires,
         credentials
    <2>4. ASSUME NEW e \in Events,
                 \/ \E k \in EventKind : Announce(e, k)
                 \/ \E sent \in BOOLEAN : Ingress(e, sent)
          PROVE  token'[c] = token[c]
      BY <2>4 DEF Announce, Ingress, credentials
    <2>. QED  BY <1>1, <2>1, <2>2, <2>3, <2>4 DEF Elsewhere
  <1>2. ASSUME NEW i \in Isolates, Store(i) \/ StoreRest(i),
               token'[c] # token[c]
        PROVE  /\ Storing(i, c) /\ ~Storing(i, c)'
               /\ token'[c] = isolate[i].token
    <2>1. isolate[i].conn = c /\ token'[c] = isolate[i].token
      BY <1>2 DEF Store, StoreRest, TypeOK
    <2>2. Storing(i, c)
      BY <1>2, <2>1 DEF Store, StoreRest, Storing, Holds, StepsFit, RefreshOnly
    <2>3. isolate'[i].step = "write"
      BY <1>2, JudgeShape DEF Store, StoreRest
    <2>. QED  BY <2>1, <2>2, <2>3 DEF Storing
  <1>3. ASSUME NEW i \in Isolates,
               Started(i) \/ IsolateStep(i) \/ Crash(i) \/ Throw(i),
               ~Store(i), ~StoreRest(i)
        PROVE  token'[c] = token[c]
    BY <1>3 DEF Started, FindDue, Demand, Receive, Sweep, IsolateStep, Write,
       Compare, Record, Tell, RefreshStep, Lock, Read, Call, Release, Match,
       Close, Crash, Throw, credentials
  <1>4. CASE UNCHANGED vars
    BY <1>4 DEF vars, credentials
  <1>. QED  BY <1>1, <1>2, <1>3, <1>4, NextIs

LEMMA GoneStays == [Next]_vars => gone \subseteq gone'
  <1>1. Elsewhere => gone \subseteq gone'
    BY DEF Elsewhere, Connect, Disconnect, AccessNearsExpiry,
       RefreshTokenLapses, LockExpires, Announce, Ingress, rows
  <1>2. ASSUME NEW i \in Isolates,
               Started(i) \/ IsolateStep(i) \/ Crash(i) \/ Throw(i)
        PROVE  gone' = gone
    BY <1>2 DEF Started, FindDue, Demand, Receive, Sweep, IsolateStep, Write,
       Compare, Record, Tell, RefreshStep, Lock, Read, Call, Store, StoreRest,
       Release, Match, Close, Crash, Throw, rows
  <1>. QED  BY <1>1, <1>2, NextIs DEF vars, rows

(* Whoever is done storing has stored.                                     *)
LEMMA StoringAfter ==
  ASSUME TypeOK, StepsFit, RefreshesArrive, [Next]_vars,
         NEW i \in Isolates, NEW c \in Conns, Storing(i, c), ~Storing(i, c)'
  PROVE  token'[c] = isolate[i].token
  <1>1. isolate'[i] # isolate[i]
    BY DEF Storing, Holds
  <1>2. RefreshesFinish
    BY DEF RefreshesFinish, RefreshesArrive
  <1>3. IsolateStep(i)
    BY <1>1, <1>2, HolderSteps DEF Storing
  <1>4. Store(i) \/ StoreRest(i)
    BY <1>3 DEF IsolateStep, RefreshStep, Write, Compare, Record, Tell, Lock,
       Read, Call, Release, Match, Close, Storing
  <1>5. CASE Store(i) /\ isolate[i].job # "sweep"
    BY <1>5, GotoShape DEF Store, Storing, Holds
  <1>. QED  BY <1>4, <1>5 DEF Store, StoreRest, Storing, Holds, TypeOK

LEMMA StoredStep ==
  ASSUME TypeOK, StepsFit, LockInv, RefreshesArrive, TokensAreIssued,
         CarriedIsNewest, StoredIsNewest, [Next]_vars
  PROVE  StoredIsNewest'
  <1>. SUFFICES ASSUME NEW c \in Conns \ gone',
                       \A i \in Isolates : ~Storing(i, c)',
                       NEW t \in good'[c]
                PROVE  t <= token'[c]
    BY DEF StoredIsNewest
  <1>0. /\ issued[c] \in Nat /\ good[c] \subseteq Nat /\ c \notin gone
        /\ \A u \in good[c] : u <= issued[c]
    BY GoneStays DEF TypeOK, TokensAreIssued
  <1>1. CASE Connect(c, TRUE)
    BY <1>0, <1>1 DEF Connect, TypeOK
  <1>2. ASSUME NEW i \in Isolates, Call(i), isolate[i].conn = c,
               isolate' = [ isolate EXCEPT ![i] =
                     [ isolate[i] EXCEPT !.step = "store",
                                         !.token = issued[c] + 1 ] ]
        PROVE  FALSE
    <2>1. isolate[i] \in Process /\ isolate[i].job \in RefreshJob
      BY <1>2, EntryType DEF Call, StepsFit, RefreshOnly
    <2>. QED  BY <1>2, <2>1 DEF Storing, Holds, TypeOK, Process
  <1>3. CASE ~Connect(c, TRUE)
    <2>1. t \in good[c]
      BY <1>2, <1>3, BooksMove
    <2>2. ASSUME NEW i \in Isolates, Storing(i, c)
          PROVE  t <= token'[c]
      BY <2>1, <2>2, StoringAfter DEF CarriedIsNewest
    <2>3. CASE \A i \in Isolates : ~Storing(i, c)
      <3>1. token'[c] = token[c]
        BY <1>3, <2>3, TokenMoves
      <3>. QED  BY <1>0, <2>1, <2>3, <3>1 DEF StoredIsNewest
    <2>. QED  BY <2>2, <2>3
  <1>. QED  BY <1>1, <1>3

(* The invariant of all that follows.                                      *)
TokenInv ==
    /\ TypeOK /\ StepsFit /\ LockInv
    /\ TokensAreIssued /\ CarriedIsNewest /\ StoredIsNewest

LEMMA TokenInvInit == Init => TokenInv
  BY InitType, IdleShape
  DEF Init, TokenInv, StepsFit, LockInv, LockIsHeld, OneRefresher, Holds,
      RefreshOnly, EventOnly, TokensAreIssued, CarriedIsNewest, Storing,
      StoredIsNewest

LEMMA TokenInvStep ==
  ASSUME RefreshesArrive
  PROVE  TokenInv /\ [Next]_vars => TokenInv'
  BY TypeStep, StepsFitStep, LockStep, IssuedStep, CarriedStep, StoredStep
  DEF TokenInv, RefreshesArrive

(* The lock keeps refreshes of one connection apart, and each stores what  *)
(* it was given before it gives up the lock: a chain of rotations of any   *)
(* length, by any isolates, between any authorizations and disconnections, *)
(* never ends with the provider honouring a token nobody stored.           *)
THEOREM NoTokenIsLost ==
  ASSUME RefreshesArrive
  PROVE  Spec => []NewestTokenIsStored
  <1>1. TokenInv => NewestTokenIsStored
    BY DEF TokenInv, StoredIsNewest, Storing, NewestTokenIsStored, TypeOK
  <1>. QED  BY <1>1, TokenInvInit, TokenInvStep, PTL DEF Spec

-----------------------------------------------------------------------------
(* Asking a customer to authorize again.                                   *)

(* The provider has no bad minute during a refresh on demand, which the    *)
(* route would take for a refusal.                                         *)
FailuresAreRefusals == "manual_error" \notin Faults

LiveHaveAccess == live \subseteq access

(* A token that is no longer the stored one is not presented.              *)
StoredIsPresented ==
    \A i \in Isolates : \A c \in live :
        Holds(i, c) /\ isolate[i].step = "call" => isolate[i].token = token[c]

LEMMA AccessStep == LiveHaveAccess /\ [Next]_vars => LiveHaveAccess'
  <1>. SUFFICES ASSUME LiveHaveAccess, [Next]_vars PROVE LiveHaveAccess'
    OBVIOUS
  <1>1. CASE Elsewhere
    BY <1>1 DEF Elsewhere, Connect, Disconnect, AccessNearsExpiry,
       RefreshTokenLapses, LockExpires, Announce, Ingress, rows, credentials,
       LiveHaveAccess
  <1>2. ASSUME NEW i \in Isolates,
               Started(i) \/ IsolateStep(i) \/ Crash(i) \/ Throw(i)
        PROVE  live' = live /\ access \subseteq access'
    BY <1>2 DEF Started, FindDue, Demand, Receive, Sweep, IsolateStep, Write,
       Compare, Record, Tell, RefreshStep, Lock, Read, Call, Store, StoreRest,
       Release, Match, Close, Crash, Throw, rows, credentials
  <1>. QED  BY <1>1, <1>2, NextIs DEF vars, rows, credentials, LiveHaveAccess

(* While i holds c and neither rotates nor stores its token, nobody does,  *)
(* and c was connected all along.                                          *)
LEMMA HeldIsStill ==
  ASSUME TokenInv, RefreshesArrive, [Next]_vars,
         NEW i \in Isolates, NEW c \in live', Holds(i, c), ~Storing(i, c),
         c \in Conns
  PROVE  /\ c \in live
         /\ token'[c] = token[c]
         /\ \/ good'[c] \subseteq good[c]
            \/ Call(i) /\ Storing(i, c)'
  <1>0. TypeOK /\ StepsFit /\ OneRefresher
    BY DEF TokenInv, LockInv
  <1>1. Refreshing(c)
    BY DEF Holds, Refreshing, Works
  <1>2. \A r : ~Connect(c, r)
    BY <1>1 DEF Connect, RefreshesArrive, LockLasts
  <1>3. c \in live
    <2>1. CASE Elsewhere
      BY <1>2, <2>1 DEF Elsewhere, Connect, Disconnect, AccessNearsExpiry,
         RefreshTokenLapses, LockExpires, Announce, Ingress, rows
    <2>2. ASSUME NEW k \in Isolates,
                 Started(k) \/ IsolateStep(k) \/ Crash(k) \/ Throw(k)
          PROVE  live' = live
      BY <2>2 DEF Started, FindDue, Demand, Receive, Sweep, IsolateStep, Write,
         Compare, Record, Tell, RefreshStep, Lock, Read, Call, Store,
         StoreRest, Release, Match, Close, Crash, Throw, rows
    <2>. QED  BY <2>1, <2>2, NextIs DEF vars, rows
  <1>4. c \notin gone'
    BY <1>0, TypeStep DEF TypeOK
  <1>5. \A k \in Isolates : ~Storing(k, c)
    BY <1>0 DEF Storing, OneRefresher
  <1>6. token'[c] = token[c]
    BY <1>0, <1>2, <1>4, <1>5, TokenMoves
  <1>7. ASSUME NEW k \in Isolates, Call(k), isolate[k].conn = c,
               isolate' = [ isolate EXCEPT ![k] =
                     [ isolate[k] EXCEPT !.step = "store",
                                         !.token = issued[c] + 1 ] ]
        PROVE  Call(i) /\ Storing(i, c)'
    <2>1. isolate[k] \in Process /\ isolate[k].job \in RefreshJob
      BY <1>0, <1>7, EntryType DEF Call, StepsFit, RefreshOnly
    <2>2. Holds(k, c)
      BY <1>7, <2>1 DEF Call, Holds
    <2>3. k = i
      BY <1>0, <2>2 DEF OneRefresher
    <2>. QED  BY <1>0, <1>7, <2>1, <2>3 DEF Storing, Holds, TypeOK, Process
  <1>. QED  BY <1>0, <1>2, <1>3, <1>6, <1>7, BooksMove

(* What an isolate that goes on holding a connection has just done.        *)
LEMMA HoldersMove ==
  ASSUME TokenInv, RefreshesArrive, [Next]_vars,
         NEW i \in Isolates, NEW c \in Conns, Holds(i, c)',
         isolate'[i] # isolate[i]
  PROVE  \/ Lock(i) /\ isolate'[i].step = "read"
         \/ Holds(i, c) /\ IsolateStep(i)
  <1>0. TypeOK /\ StepsFit /\ RefreshesFinish
    BY DEF TokenInv, RefreshesFinish, RefreshesArrive
  <1>1. CASE Lock(i)
    <2>1. isolate'[i] # Idle
      BY IdleShape DEF Holds
    <2>. QED  BY <1>0, <1>1, <2>1, GotoShape, EndShape DEF Lock
  <1>2. CASE Holds(i, c) /\ ~Release(i) /\ isolate[i].step # "release"
    BY <1>0, <1>2, HolderSteps
  <1>3. CASE Holds(i, c) /\ isolate[i].step = "release"
    <2>1. PICK k \in Isolates : Started(k) \/ IsolateStep(k) \/ Crash(k)
                               \/ Throw(k)
      BY NextIs, ElsewhereShape DEF vars
    <2>2. k = i
      BY <1>0, <2>1, StartShape, StepShape DEF Started
    <2>3. IsolateStep(i) \/ Crash(i)
      BY <1>3, <2>1, <2>2 DEF Started, FindDue, Demand, Receive, Sweep, Throw
    <2>4. ~Crash(i)
      BY <1>0, EndShape, IdleShape DEF Crash, Holds
    <2>. QED  BY <1>3, <2>3, <2>4
  <1>. QED  BY <1>0, <1>1, <1>2, <1>3, HoldsBefore DEF Release

LEMMA PresentedStep ==
  ASSUME TokenInv, RefreshesArrive, StoredIsPresented, [Next]_vars
  PROVE  StoredIsPresented'
  <1>. SUFFICES ASSUME NEW i \in Isolates, NEW c \in live', Holds(i, c)',
                       isolate'[i].step = "call"
                PROVE  isolate'[i].token = token'[c]
    BY DEF StoredIsPresented
  <1>. DEFINE p == isolate[i]
  <1>0. TypeOK /\ StepsFit /\ p \in Process /\ c \in Conns
    BY TypeStep, EntryType DEF TokenInv, TypeOK
  <1>1. CASE isolate'[i] = p
    <2>1. Holds(i, c) /\ ~Storing(i, c)
      BY <1>1 DEF Holds, Storing
    <2>. QED  BY <1>0, <1>1, <2>1, HeldIsStill DEF StoredIsPresented
  <1>2. CASE isolate'[i] # p
    <2>1. Holds(i, c) /\ IsolateStep(i)
      BY <1>0, <1>2, HoldersMove
    <2>2. CASE Read(i)
      <3>1. ~(\E h : Judge(i, p.conn, h)) /\ ~Goto(i, "release")
        BY <1>0, JudgeShape, GotoShape
      <3>2. isolate' = [ isolate EXCEPT ![i] =
                   [ p EXCEPT !.step = "call", !.token = token[p.conn] ] ]
        BY <2>2, <3>1 DEF Read
      <3>3. token' = token
        BY <2>2 DEF Read, credentials
      <3>. QED  BY <1>0, <2>1, <3>2, <3>3 DEF TypeOK, Process, Holds
    <2>3. CASE Call(i)
      <3>1. CASE isolate' = [ isolate EXCEPT ![i] =
                   [ p EXCEPT !.step = "store",
                              !.token = issued[p.conn] + 1 ] ]
        BY <1>0, <3>1 DEF TypeOK, Process
      <3>. QED  BY <1>0, <2>3, <3>1, JudgeShape DEF Call
    <2>4. CASE Write(i) \/ Compare(i) \/ Record(i) \/ Tell(i)
      BY <1>0, <2>1, <2>4, GotoShape, ReturnShape
      DEF Write, Compare, Record, Tell, Holds
    <2>5. CASE Store(i) \/ StoreRest(i) \/ Release(i) \/ Close(i)
      BY <1>0, <2>5, GotoShape, JudgeShape, EndShape, IdleShape
      DEF Store, StoreRest, Release, Close
    <2>6. CASE Lock(i) \/ Match(i)
      BY <1>0, <2>6, GotoShape, EndShape, IdleShape, MatchShape DEF Lock
    <2>. QED  BY <2>1, <2>2, <2>3, <2>4, <2>5, <2>6
              DEF IsolateStep, RefreshStep
  <1>. QED  BY <1>1, <1>2

Judged == { "write", "compare", "record", "tell" }

LEMMA ReauthStep ==
  ASSUME TokenInv, RefreshesArrive, FailuresAreRefusals, LiveHaveAccess,
         StoredIsPresented, ReauthIsDeserved, [Next]_vars
  PROVE  ReauthIsDeserved'
  <1>. SUFFICES ASSUME NEW i \in Isolates, NEW c \in live',
                       isolate'[i].job \in RefreshJob,
                       isolate'[i].step \in Judged,
                       isolate'[i].health = "reauth_required",
                       isolate'[i].conn = c
                PROVE  token'[c] \notin good'[c]
    BY DEF ReauthIsDeserved, Judged
  <1>. DEFINE p == isolate[i]
  <1>0. TypeOK /\ StepsFit /\ p \in Process /\ c \in Conns
    BY TypeStep, EntryType DEF TokenInv, TypeOK
  <1>1. Holds(i, c)'
    BY DEF Holds, Judged
  <1>2. CASE isolate'[i] = p
    <2>1. Holds(i, c) /\ ~Storing(i, c) /\ ~Call(i)
      BY <1>2 DEF Holds, Storing, Call, Judged
    <2>2. c \in live /\ token'[c] = token[c] /\ good'[c] \subseteq good[c]
      BY <1>0, <2>1, HeldIsStill
    <2>3. token[c] \notin good[c]
      BY <1>2, <2>2 DEF ReauthIsDeserved, Judged
    <2>. QED  BY <2>2, <2>3
  <1>3. CASE isolate'[i] # p
    <2>1. Holds(i, c) /\ IsolateStep(i)
      BY <1>0, <1>1, <1>3, HoldersMove DEF Judged
    <2>2. p.conn = c /\ p.job \in RefreshJob
      BY <2>1 DEF Holds
    <2>3. CASE Write(i) \/ Compare(i) \/ Record(i) \/ Tell(i)
      <3>1. p.step \in Judged /\ p.health = "reauth_required"
        BY <1>0, <2>3, GotoShape, ReturnShape
        DEF Write, Compare, Record, Tell, Judged
      <3>2. c \in live /\ token' = token /\ good' = good
        BY <2>3 DEF Write, Compare, Record, Tell, rows, credentials, provider
      <3>. QED  BY <2>2, <3>1, <3>2 DEF ReauthIsDeserved, Judged
    <2>4. CASE Read(i)
      <3>1. c \in live /\ c \in access
        BY <2>4 DEF Read, rows, LiveHaveAccess
      <3>2. "unconfigured" \notin Faults
        BY DEF RefreshesArrive
      <3>3. ~(isolate' = [ isolate EXCEPT ![i] =
                   [ p EXCEPT !.step = "call", !.token = token[p.conn] ] ])
        <4>1. SUFFICES ASSUME isolate' = [ isolate EXCEPT ![i] =
                         [ p EXCEPT !.step = "call", !.token = token[p.conn] ] ]
                       PROVE  FALSE
          OBVIOUS
        <4>2. isolate'[i] =
                [ p EXCEPT !.step = "call", !.token = token[p.conn] ]
          BY <1>0, <4>1 DEF TypeOK
        <4>3. isolate'[i].step = "call"
          BY <1>0, <4>2 DEF Process
        <4>. QED  BY <4>3 DEF Judged
      <3>4. ~Judge(i, c, "refresh_due")
        BY <1>0, JudgeShape
      <3>. QED  BY <2>2, <2>4, <3>1, <3>2, <3>3, <3>4 DEF Read
    <2>5. CASE Call(i)
      <3>1. ~(isolate' = [ isolate EXCEPT ![i] =
                   [ p EXCEPT !.step = "store",
                              !.token = issued[p.conn] + 1 ] ])
        <4>1. SUFFICES ASSUME isolate' = [ isolate EXCEPT ![i] =
                         [ p EXCEPT !.step = "store",
                                    !.token = issued[p.conn] + 1 ] ]
                       PROVE  FALSE
          OBVIOUS
        <4>2. isolate'[i] =
                [ p EXCEPT !.step = "store", !.token = issued[p.conn] + 1 ]
          BY <1>0, <4>1 DEF TypeOK
        <4>3. isolate'[i].step = "store"
          BY <1>0, <4>2 DEF Process
        <4>. QED  BY <4>3 DEF Judged
      <3>2. ~Judge(i, c, "refresh_due") /\ ~Judge(i, c, "healthy")
        BY <1>0, JudgeShape
      <3>3. /\ "lost_response" \notin Faults /\ "manual_error" \notin Faults
        BY DEF RefreshesArrive, FailuresAreRefusals
      <3>4. p.token \notin good[c] /\ UNCHANGED provider
        BY <2>2, <2>5, <3>1, <3>2, <3>3 DEF Call, Deferred
      <3>5. c \in live /\ token' = token
        BY <2>5 DEF Call, rows, credentials
      <3>6. p.token = token[c]
        BY <2>1, <2>5, <3>5 DEF StoredIsPresented, Call
      <3>. QED  BY <3>4, <3>5, <3>6 DEF provider
    <2>6. CASE Store(i) \/ StoreRest(i)
      BY <1>0, <2>6, GotoShape, JudgeShape DEF Store, StoreRest, Judged
    <2>7. CASE Lock(i) \/ Release(i)
      BY <1>0, <2>7, GotoShape, EndShape, IdleShape DEF Lock, Release, Judged
    <2>8. CASE Match(i) \/ Close(i)
      BY <1>0, <2>2, <2>8 DEF Match, Close, StepsFit, EventOnly, RefreshJob,
         EventJob
    <2>. QED  BY <2>1, <2>3, <2>4, <2>5, <2>6, <2>7, <2>8
              DEF IsolateStep, RefreshStep
  <1>. QED  BY <1>2, <1>3

(* As long as a failed refresh on demand is a refusal, no customer is sent *)
(* back because two refreshes, or a refresh and an authorization, got in   *)
(* each other's way: the token the provider refused is the one stored.     *)
THEOREM NobodyIsSentBackForNothing ==
  ASSUME RefreshesArrive, FailuresAreRefusals
  PROVE  Spec => []ReauthIsDeserved
  <1>. DEFINE Inv == /\ TokenInv /\ LiveHaveAccess /\ StoredIsPresented
                     /\ ReauthIsDeserved
  <1>1. Init => Inv
    BY TokenInvInit, IdleShape
    DEF Init, LiveHaveAccess, StoredIsPresented, ReauthIsDeserved, Holds
  <1>2. Inv /\ [Next]_vars => Inv'
    BY TokenInvStep, AccessStep, PresentedStep, ReauthStep
  <1>. QED  BY <1>1, <1>2, PTL DEF Spec

-----------------------------------------------------------------------------
(* What a customer hears of a revocation.                                  *)

(* Nobody dies or throws between the record of a transition and its        *)
(* announcement, and what ended in an alarm is not authorized again.       *)
RevocationsArrive ==
    { "crash", "io", "reconnect_after_alarm" } \cap Faults = {}

Refusals == { "revoked", "permission_missing" }
Judging == { "write", "compare", "record", "tell" }

ByEvent(i) == isolate[i].job \in EventJob
WorksOn(i, e) == ByEvent(i) /\ isolate[i].event = e

(* i has recorded a refusal of c and is about to tell the customer.        *)
Telling(i, c) ==
    ByEvent(i) /\ isolate[i].step = "tell" /\ isolate[i].conn = c

(* i has yet to come to c.                                                 *)
Ahead(i, c) ==
    \/ isolate[i].step = "match"
    \/ isolate[i].step \in Judging /\ c \in isolate[i].todo

(* Event e is still to be processed for c, by whoever has taken it up and  *)
(* by whoever will.                                                        *)
Pending(e, c) ==
    /\ kind[e] # "other"
    /\ event[e] \in { "announced", "stored" }
    /\ \A i \in Isolates : WorksOn(i, e) => Ahead(i, c)

EventsAreStored ==
    /\ \A e \in queue : event[e] \in { "stored", "processed" }
    /\ \A i \in Isolates :
          ByEvent(i) => event[isolate[i].event] \in { "stored", "processed" }

(* Only events say `revoked' or `permission_missing', and nothing else.    *)
HealthsFit ==
    \A i \in Isolates :
        isolate[i].step \in Judging =>
            (ByEvent(i) <=> isolate[i].health \in Refusals)

OwedAreLive == \A c \in Conns : notice[c] = "owed" => c \in live

(* A refusal in the history was told, or is about to be: the transition    *)
(* that setConnectionHealth does not report again need not be.             *)
RefusalsAreTold ==
    \A c \in live :
        last[c] \in Refusals /\ notice[c] # "told" =>
            \E i \in Isolates : Telling(i, c)

OwedIsAhead ==
    \A c \in Conns :
        notice[c] = "owed" =>
            \/ \E i \in Isolates : Telling(i, c)
            \/ \E e \in Events : Pending(e, c)

NoticeInv ==
    /\ TypeOK /\ StepsFit /\ EventsAreStored /\ HealthsFit /\ OwedAreLive
    /\ RefusalsAreTold /\ OwedIsAhead

LEMMA StartMore ==
  ASSUME TypeOK, EventsAreStored, NEW i \in Isolates, Started(i)
  PROVE  /\ ~ByEvent(i)' \/ isolate'[i].step = "match"
         /\ ByEvent(i)' =>
              event[isolate'[i].event] \in { "stored", "processed" }
         /\ ~\E c \in Conns : Telling(i, c)
         /\ queue' \subseteq queue
         /\ UNCHANGED << live, last, event, kind, notice >>
  <1>1. /\ isolate[i].step = "idle" /\ queue' \subseteq queue
        /\ UNCHANGED << live, last, event, kind, notice >>
    BY DEF Started, FindDue, Demand, Receive, Sweep, rows, inbox
  <1>2. ~\E c \in Conns : Telling(i, c)
    BY <1>1 DEF Telling
  <1>3. ~ByEvent(i)' \/ isolate'[i].step = "match"
    BY StartShape, IdleShape DEF Started, ByEvent, RefreshJob, EventJob
  <1>4. ASSUME ByEvent(i)'
        PROVE  event[isolate'[i].event] \in { "stored", "processed" }
    <2>1. ASSUME NEW c \in Conns, FindDue(i, c) \/ Demand(i, c) PROVE FALSE
      <3>1. \/ isolate'[i] = [ Idle EXCEPT !.step = "due", !.conn = c ]
            \/ isolate'[i] = [ Idle EXCEPT !.step = "due", !.job = "manual",
                                           !.conn = c ]
        BY <2>1 DEF FindDue, Demand, TypeOK
      <3>2. isolate'[i].job \in { "sweep", "manual" }
        BY <3>1 DEF Idle
      <3>. QED  BY <1>4, <3>2 DEF ByEvent, EventJob
    <2>2. ASSUME NEW e \in Events, Receive(i, e)
          PROVE  isolate'[i].event = e
      <3>1. event[e] # "processed"
        BY <1>4, <2>2, IdleShape
           DEF Receive, TypeOK, ByEvent, EventJob
      <3>2. isolate'[i] = [ Idle EXCEPT !.step = "match", !.job = "queued",
                                        !.event = e ]
        BY <2>2, <3>1 DEF Receive, TypeOK
      <3>. QED  BY <3>2 DEF Idle
    <2>3. ASSUME NEW e \in Events, Sweep(i, e)
          PROVE  isolate'[i].event = e
      <3>1. isolate'[i] = [ Idle EXCEPT !.step = "match", !.job = "swept",
                                        !.event = e ]
        BY <2>3 DEF Sweep, TypeOK
      <3>. QED  BY <3>1 DEF Idle
    <2>4. \A e \in Events : Receive(i, e) \/ Sweep(i, e) =>
             event[e] \in { "stored", "processed" }
      BY DEF Receive, Sweep, EventsAreStored
    <2>. QED  BY <2>1, <2>2, <2>3, <2>4 DEF Started
  <1>. QED  BY <1>1, <1>2, <1>3, <1>4

LEMMA GotoMore ==
  ASSUME TypeOK, NEW i \in Isolates, NEW s, Goto(i, s)
  PROVE  /\ isolate'[i].event = isolate[i].event
         /\ isolate'[i].todo = isolate[i].todo
  <1>1. isolate[i] \in Process
    BY EntryType
  <1>. QED  BY <1>1 DEF Goto, TypeOK, Process

LEMMA ReturnMore ==
  ASSUME TypeOK, NEW i \in Isolates, Return(i), ByEvent(i)
  PROVE  /\ isolate'[i].event = isolate[i].event
         /\ \A c \in isolate[i].todo :
              c # isolate[i].conn =>
                 isolate'[i].step = "write" /\ c \in isolate'[i].todo
  <1>. DEFINE p == isolate[i]
              rest == p.todo \ {p.conn}
  <1>1. p \in Process /\ p.job \notin RefreshJob
    BY EntryType DEF ByEvent, RefreshJob, EventJob
  <1>2. CASE rest = {}
    <2>1. isolate' = [ isolate EXCEPT ![i] =
              [ p EXCEPT !.step = "close", !.todo = {} ] ]
      BY <1>1, <1>2 DEF Return
    <2>. QED  BY <1>1, <1>2, <2>1 DEF TypeOK, Process
  <1>3. CASE rest # {}
    <2>1. PICK c \in rest : isolate' = [ isolate EXCEPT ![i] =
              [ p EXCEPT !.step = "write", !.conn = c, !.todo = rest ] ]
      BY <1>1, <1>3 DEF Return
    <2>. QED  BY <1>1, <2>1 DEF TypeOK, Process
  <1>. QED  BY <1>2, <1>3

LEMMA MatchMore ==
  ASSUME TypeOK, NEW i \in Isolates, Match(i)
  PROVE  /\ isolate'[i].event = isolate[i].event
         /\ \/ isolate'[i].step = "close"
            \/ isolate'[i].step = "write" /\ isolate'[i].health \in Refusals
         /\ \A c \in Concerned(isolate[i].event) :
              isolate'[i].step = "write" /\ c \in isolate'[i].todo
  <1>. DEFINE p == isolate[i]
              all == Concerned(p.event)
  <1>1. p \in Process
    BY EntryType
  <1>2. CASE all = {}
    BY <1>2, GotoShape, GotoMore DEF Match
  <1>3. CASE all # {}
    <2>1. PICK c \in all : isolate' = [ isolate EXCEPT ![i] =
             [ p EXCEPT !.step = "write", !.conn = c,
                        !.health = HealthForKind(kind[p.event]),
                        !.todo = all ] ]
      BY <1>3 DEF Match
    <2>2. isolate'[i] =
             [ p EXCEPT !.step = "write", !.conn = c,
                        !.health = HealthForKind(kind[p.event]),
                        !.todo = all ]
      BY <2>1 DEF TypeOK
    <2>. HIDE DEF all
    <2>3. /\ isolate'[i].event = p.event /\ isolate'[i].step = "write"
          /\ isolate'[i].health = HealthForKind(kind[p.event])
          /\ isolate'[i].todo = all
      BY <1>1, <2>2 DEF Process
    <2>4. isolate'[i].health \in Refusals
      BY <2>3 DEF HealthForKind, Refusals
    <2>. QED  BY <2>3, <2>4 DEF all
  <1>. QED  BY <1>2, <1>3

(* A refresh never becomes the processing of an event, and what it records *)
(* and announces is no refusal.                                            *)
LEMMA RefreshMoves ==
  ASSUME TypeOK, StepsFit, HealthsFit, NEW i \in Isolates, ~ByEvent(i),
         IsolateStep(i) \/ Crash(i) \/ Throw(i)
  PROVE  /\ ~ByEvent(i)'
         /\ \A c \in Conns : \/ last'[c] = last[c]
                             \/ last'[c] \notin Refusals
         /\ \A c \in Conns : notice'[c] = notice[c] \/ notice'[c] = "told"
         /\ queue' \subseteq queue
         /\ UNCHANGED << live, event, kind >>
  <1>1. isolate[i] \in Process /\ isolate[i].job \in RefreshJob
    BY EntryType, FieldTypes DEF ByEvent
  <1>2. ~ByEvent(i)'
    BY <1>1, StepShape, IdleShape DEF Kept, ByEvent, RefreshJob, EventJob
  <1>3. ~Match(i) /\ ~Close(i)
    BY DEF Match, Close, StepsFit, EventOnly, ByEvent
  <1>4. queue' \subseteq queue /\ UNCHANGED << live, event, kind >>
    BY <1>1, <1>3 DEF IsolateStep, RefreshStep, Write, Compare, Record, Tell,
       Lock, Read, Call, Store, StoreRest, Release, Crash, Throw, rows, inbox,
       RefreshJob
  <1>5. ASSUME NEW c \in Conns
        PROVE  last'[c] = last[c] \/ last'[c] \notin Refusals
    <2>1. CASE Record(i)
      <3>1. isolate[i].health \notin Refusals
        BY <2>1 DEF Record, HealthsFit, Judging
      <3>. QED  BY <2>1, <3>1 DEF Record, TypeOK
    <2>2. CASE ~Record(i)
      BY <1>3, <2>2 DEF IsolateStep, RefreshStep, Write, Compare, Tell, Lock,
         Read, Call, Store, StoreRest, Release, Crash, Throw, rows
    <2>. QED  BY <2>1, <2>2
  <1>6. ASSUME NEW c \in Conns
        PROVE  notice'[c] = notice[c] \/ notice'[c] = "told"
    <2>1. CASE Tell(i)
      BY <2>1 DEF Tell, TypeOK
    <2>2. CASE ~Tell(i)
      BY <1>3, <2>2 DEF IsolateStep, RefreshStep, Write, Compare, Record, Lock,
         Read, Call, Store, StoreRest, Release, Crash, Throw
    <2>. QED  BY <2>1, <2>2
  <1>. QED  BY <1>2, <1>4, <1>5, <1>6

(* What an isolate at work on an event may do, and how it may end.         *)
LEMMA EventMoves ==
  ASSUME TypeOK, StepsFit, RevocationsArrive, NEW i \in Isolates, ByEvent(i),
         IsolateStep(i) \/ Crash(i) \/ Throw(i)
  PROVE  \/ Write(i) \/ Compare(i) \/ Record(i) \/ Tell(i) \/ Match(i)
         \/ Close(i)
         \/ /\ isolate' = [ isolate EXCEPT ![i] = Idle ]
            /\ isolate[i].step # "tell"
            /\ queue' \subseteq queue \cup {isolate[i].event}
            /\ UNCHANGED << live, last, event, kind, notice >>
  <1>1. isolate[i].job \in { "queued", "swept" }
    BY DEF ByEvent, EventJob
  <1>2. ~RefreshStep(i)
    BY <1>1 DEF RefreshStep, Lock, Read, Call, Store, StoreRest, Release,
       StepsFit, RefreshOnly, RefreshJob
  <1>3. /\ "crash" \notin Faults /\ "io" \notin Faults
    BY DEF RevocationsArrive
  <1>4. CASE Crash(i)
    BY <1>1, <1>3, <1>4 DEF Crash, Vulnerable, rows, RefreshJob
  <1>5. CASE Throw(i)
    <2>1. isolate[i].job = "queued" /\ isolate[i].step # "tell"
      BY <1>3, <1>5 DEF Throw, Throwing
    <2>. QED  BY <1>5, <2>1 DEF Throw, rows
  <1>. QED  BY <1>2, <1>4, <1>5 DEF IsolateStep

LEMMA EventsAreStoredStep ==
  ASSUME TypeOK, StepsFit, HealthsFit, EventsAreStored, RevocationsArrive,
         [Next]_vars
  PROVE  EventsAreStored'
  <1>. DEFINE On == { "stored", "processed" }
  <1>0. \A i \in Isolates : ByEvent(i) => isolate[i].event \in Events
    BY EntryType, FieldTypes DEF ByEvent
  <1>1. CASE UNCHANGED vars
    BY <1>1 DEF EventsAreStored, ByEvent, vars, inbox
  <1>2. CASE Elsewhere
    <2>1. isolate' = isolate
      BY <1>2, ElsewhereShape
    <2>2. \A e \in Events : event[e] \in On => event'[e] \in On
      BY <1>2 DEF Elsewhere, Connect, Disconnect, AccessNearsExpiry,
         RefreshTokenLapses, LockExpires, Announce, Ingress, inbox, TypeOK
    <2>3. \A e \in queue' : e \in queue \/ event'[e] \in On
      BY <1>2 DEF Elsewhere, Connect, Disconnect, AccessNearsExpiry,
         RefreshTokenLapses, LockExpires, Announce, Ingress, inbox, TypeOK
    <2>4. queue \subseteq Events
      BY DEF TypeOK
    <2>. QED  BY <1>0, <2>1, <2>2, <2>3, <2>4 DEF EventsAreStored, ByEvent
  <1>3. ASSUME NEW i \in Isolates, Started(i) PROVE EventsAreStored'
    BY <1>3, StartMore, StartShape DEF EventsAreStored, ByEvent, Started
  <1>4. ASSUME NEW i \in Isolates, ~ByEvent(i),
               IsolateStep(i) \/ Crash(i) \/ Throw(i)
        PROVE  EventsAreStored'
    BY <1>4, RefreshMoves, StepShape DEF EventsAreStored, ByEvent
  <1>5. ASSUME NEW i \in Isolates, ByEvent(i),
               IsolateStep(i) \/ Crash(i) \/ Throw(i)
        PROVE  EventsAreStored'
    <2>1. isolate'[i] = Idle \/ isolate'[i].event = isolate[i].event
      BY <1>5, EventMoves, EndShape, GotoMore, ReturnMore, MatchMore
         DEF Write, Compare, Record, Tell, Close
    <2>2. queue' \subseteq queue \cup {isolate[i].event}
      BY <1>5, EventMoves DEF Write, Compare, Record, Tell, Match, Close,
         inbox
    <2>3. \A e \in Events : event[e] \in On => event'[e] \in On
      BY <1>5, EventMoves DEF Write, Compare, Record, Tell, Match, Close,
         inbox, TypeOK
    <2>4. ~(Idle.job \in EventJob)
      BY IdleShape DEF EventJob
    <2>5. \A j \in Isolates : j # i => isolate'[j] = isolate[j]
      BY <1>5, StepShape
    <2>6. queue \subseteq Events
      BY DEF TypeOK
    <2>. QED  BY <1>0, <1>5, <2>1, <2>2, <2>3, <2>4, <2>5, <2>6
              DEF EventsAreStored, ByEvent
  <1>. QED  BY <1>1, <1>2, <1>3, <1>4, <1>5, NextIs

LEMMA HealthsFitStep ==
  ASSUME TypeOK, StepsFit, HealthsFit, RevocationsArrive, [Next]_vars
  PROVE  HealthsFit'
  <1>1. CASE isolate' = isolate
    BY <1>1 DEF HealthsFit, ByEvent
  <1>2. ASSUME NEW i \in Isolates, Started(i) PROVE HealthsFit'
    BY <1>2, StartShape, IdleShape DEF HealthsFit, Started, ByEvent, Judging
  <1>3. ASSUME NEW i \in Isolates, ~ByEvent(i),
               IsolateStep(i) \/ Crash(i) \/ Throw(i)
        PROVE  HealthsFit'
    <2>1. ASSUME isolate'[i].step \in Judging
          PROVE  isolate'[i].health \notin Refusals
      <3>1. \A h : Judge(i, isolate[i].conn, h) => isolate'[i].health = h
        BY JudgeShape
      <3>2. \A s : Goto(i, s) => /\ isolate'[i].step = s
                                 /\ isolate'[i].health = isolate[i].health
        BY GotoShape
      <3>3. isolate[i].job \in RefreshJob
        BY <1>3, EntryType, FieldTypes DEF ByEvent
      <3>4. CASE Write(i) \/ Compare(i) \/ Record(i) \/ Tell(i)
        <4>1. isolate[i].health \notin Refusals
          BY <1>3, <3>4 DEF Write, Compare, Record, Tell, HealthsFit, Judging
        <4>2. isolate'[i].health = isolate[i].health
          BY <3>2, <3>4, ReturnShape DEF Write, Compare, Record, Tell
        <4>. QED  BY <4>1, <4>2
      <3>5. CASE Lock(i) \/ Release(i)
        BY <2>1, <3>2, <3>5, EndShape, IdleShape DEF Lock, Release, Judging
      <3>6. CASE Read(i)
        <4>1. CASE isolate' = [ isolate EXCEPT ![i] =
                     [ isolate[i] EXCEPT !.step = "call",
                                    !.token = token[isolate[i].conn] ] ]
          <5>1. isolate'[i].step = "call"
            BY <4>1, EntryType DEF TypeOK, Process
          <5>. QED  BY <2>1, <5>1 DEF Judging
        <4>. QED  BY <2>1, <3>1, <3>2, <3>6, <4>1
                  DEF Read, Judging, Refusals
      <3>7. CASE Call(i)
        <4>1. CASE isolate' = [ isolate EXCEPT ![i] =
                     [ isolate[i] EXCEPT !.step = "store",
                                    !.token = issued[isolate[i].conn] + 1 ] ]
          <5>1. isolate'[i].step = "store"
            BY <4>1, EntryType DEF TypeOK, Process
          <5>. QED  BY <2>1, <5>1 DEF Judging
        <4>. QED  BY <3>1, <3>7, <4>1 DEF Call, Deferred, Refusals
      <3>8. CASE Store(i) \/ StoreRest(i)
        BY <2>1, <3>1, <3>2, <3>8
           DEF Store, StoreRest, Judging, Refusals
      <3>9. CASE Match(i) \/ Close(i)
        BY <1>3, <3>9 DEF Match, Close, StepsFit, EventOnly, ByEvent
      <3>10. CASE Crash(i)
        BY <2>1, <3>10, EndShape, IdleShape DEF Crash, Judging
      <3>11. CASE Throw(i)
        BY <2>1, <3>1, <3>2, <3>3, <3>11
           DEF Throw, Judging, Refusals, RefreshJob
      <3>. QED  BY <1>3, <3>4, <3>5, <3>6, <3>7, <3>8, <3>9, <3>10, <3>11
                DEF IsolateStep, RefreshStep
    <2>2. ~ByEvent(i)' /\ \A j \in Isolates : j # i => isolate'[j] = isolate[j]
      BY <1>3, RefreshMoves, StepShape
    <2>. QED  BY <2>1, <2>2 DEF HealthsFit, ByEvent
  <1>4. ASSUME NEW i \in Isolates, ByEvent(i),
               IsolateStep(i) \/ Crash(i) \/ Throw(i)
        PROVE  HealthsFit'
    <2>1. ASSUME isolate'[i].step \in Judging
          PROVE  ByEvent(i)' /\ isolate'[i].health \in Refusals
      <3>1. CASE Match(i)
        BY <1>4, <2>1, <3>1, MatchMore, MatchShape DEF Judging, ByEvent
      <3>2. CASE Write(i) \/ Compare(i) \/ Record(i) \/ Tell(i)
        <4>1. isolate[i].health \in Refusals
          BY <1>4, <3>2 DEF Write, Compare, Record, Tell, HealthsFit, Judging
        <4>2. /\ isolate'[i].health = isolate[i].health
              /\ isolate'[i].job = isolate[i].job
          BY <3>2, GotoShape, ReturnShape DEF Write, Compare, Record, Tell
        <4>. QED  BY <1>4, <4>1, <4>2 DEF ByEvent
      <3>3. CASE isolate' = [ isolate EXCEPT ![i] = Idle ]
        BY <2>1, <3>3, EndShape, IdleShape DEF Judging
      <3>. QED  BY <1>4, <3>1, <3>2, <3>3, EventMoves DEF Close
    <2>2. \A j \in Isolates : j # i => isolate'[j] = isolate[j]
      BY <1>4, StepShape
    <2>. QED  BY <2>1, <2>2 DEF HealthsFit, ByEvent
  <1>. QED  BY <1>1, <1>2, <1>3, <1>4, NextIs, ElsewhereShape DEF vars

LEMMA OwedAreLiveStep ==
  ASSUME TypeOK, StepsFit, HealthsFit, OwedAreLive, RevocationsArrive,
         EventsAreStored, [Next]_vars
  PROVE  OwedAreLive'
  <1>1. CASE UNCHANGED vars
    BY <1>1 DEF OwedAreLive, vars, rows
  <1>2. CASE Elsewhere
    BY <1>2 DEF OwedAreLive, Elsewhere, Connect, Disconnect,
       AccessNearsExpiry, RefreshTokenLapses, LockExpires, Announce, Ingress,
       rows, TypeOK
  <1>3. ASSUME NEW i \in Isolates, Started(i) PROVE OwedAreLive'
    BY <1>3, StartMore DEF OwedAreLive
  <1>4. ASSUME NEW i \in Isolates, ~ByEvent(i),
               IsolateStep(i) \/ Crash(i) \/ Throw(i)
        PROVE  OwedAreLive'
    BY <1>4, RefreshMoves DEF OwedAreLive
  <1>5. ASSUME NEW i \in Isolates, ByEvent(i),
               IsolateStep(i) \/ Crash(i) \/ Throw(i)
        PROVE  OwedAreLive'
    BY <1>5, EventMoves DEF OwedAreLive, Write, Compare, Record, Tell, Match,
       Close, rows, TypeOK
  <1>. QED  BY <1>1, <1>2, <1>3, <1>4, <1>5, NextIs

(* An announcement under way is only ended by being made.                  *)
LEMMA TellingStays ==
  ASSUME TypeOK, StepsFit, HealthsFit, RevocationsArrive, EventsAreStored,
         [Next]_vars, NEW i \in Isolates, NEW c \in Conns, Telling(i, c),
         notice'[c] # "told"
  PROVE  Telling(i, c)'
  <1>1. CASE isolate' = isolate
    BY <1>1 DEF Telling, ByEvent
  <1>2. ASSUME NEW j \in Isolates,
               Started(j) \/ IsolateStep(j) \/ Crash(j) \/ Throw(j)
        PROVE  Telling(i, c)'
    <2>1. CASE j = i
      <3>1. ~Started(i)
        BY StartMore
      <3>2. ByEvent(i) /\ isolate[i].step = "tell" /\ isolate[i].conn = c
        BY DEF Telling
      <3>3. Tell(i)
        BY <1>2, <2>1, <3>1, <3>2, EventMoves
           DEF Write, Compare, Record, Match, Close
      <3>. QED  BY <3>2, <3>3 DEF Tell, TypeOK
    <2>2. CASE j # i
      <3>1. isolate'[i] = isolate[i]
        BY <1>2, <2>2, StartShape, StepShape DEF Started
      <3>. QED  BY <3>1 DEF Telling, ByEvent
    <2>. QED  BY <2>1, <2>2
  <1>. QED  BY <1>1, <1>2, NextIs, ElsewhereShape DEF vars

(* A refusal enters the history by an isolate that goes on to tell it.     *)
LEMMA RecordTells ==
  ASSUME TypeOK, HealthsFit, NEW i \in Isolates, ByEvent(i), Record(i),
         NEW c, isolate[i].conn = c
  PROVE  Telling(i, c)'
  <1>1. isolate[i].health \in Refusals
    BY DEF Record, HealthsFit, Judging
  <1>2. Announced(isolate[i])
    BY <1>1 DEF Announced, Refusals, Alarms, ByEvent, EventJob
  <1>3. Goto(i, "tell")
    BY <1>2 DEF Record
  <1>. QED  BY <1>3, GotoShape DEF Telling, ByEvent

LEMMA LastMoves ==
  ASSUME TypeOK, StepsFit, HealthsFit, RevocationsArrive, EventsAreStored,
         [Next]_vars, NEW c \in Conns, last'[c] \in Refusals
  PROVE  \/ last'[c] = last[c]
         \/ \E i \in Isolates : Telling(i, c)'
  <1>1. CASE UNCHANGED vars
    BY <1>1 DEF vars, rows
  <1>2. CASE Elsewhere
    BY <1>2 DEF Elsewhere, Connect, Disconnect, AccessNearsExpiry,
       RefreshTokenLapses, LockExpires, Announce, Ingress, rows
  <1>3. ASSUME NEW i \in Isolates, Started(i) PROVE last' = last
    BY <1>3, StartMore
  <1>4. ASSUME NEW i \in Isolates, ~ByEvent(i),
               IsolateStep(i) \/ Crash(i) \/ Throw(i)
        PROVE  last'[c] = last[c]
    BY <1>4, RefreshMoves
  <1>5. ASSUME NEW i \in Isolates, ByEvent(i),
               IsolateStep(i) \/ Crash(i) \/ Throw(i)
        PROVE  last'[c] = last[c] \/ Telling(i, c)'
    <2>1. CASE Record(i)
      <3>1. isolate[i].conn = c => Telling(i, c)'
        BY <1>5, <2>1, RecordTells
      <3>2. isolate[i].conn # c => last'[c] = last[c]
        BY <2>1 DEF Record, TypeOK
      <3>. QED  BY <3>1, <3>2
    <2>2. CASE ~Record(i)
      BY <1>5, <2>2, EventMoves DEF Write, Compare, Tell, Match, Close, rows
    <2>. QED  BY <2>1, <2>2
  <1>. QED  BY <1>1, <1>2, <1>3, <1>4, <1>5, NextIs

(* The customer's slate is wiped only by an authorization, after no alarm, *)
(* or with the connection.                                                 *)
LEMMA UntoldBefore ==
  ASSUME TypeOK, StepsFit, HealthsFit, RevocationsArrive, EventsAreStored,
         [Next]_vars, NEW c \in live', notice'[c] # "told",
         last[c] \in Refusals
  PROVE  c \in live /\ notice[c] # "told"
  <1>0. last[c] \in Alarms /\ "reconnect_after_alarm" \notin Faults
        /\ c \in Conns
    BY TypeStep DEF Refusals, Alarms, RevocationsArrive, TypeOK
  <1>1. CASE UNCHANGED vars
    BY <1>1 DEF vars, rows
  <1>2. CASE Elsewhere
    BY <1>0, <1>2 DEF Elsewhere, Connect, Disconnect, AccessNearsExpiry,
       RefreshTokenLapses, LockExpires, Announce, Ingress, rows, TypeOK
  <1>3. ASSUME NEW i \in Isolates, Started(i)
        PROVE  c \in live /\ notice[c] # "told"
    BY <1>3, StartMore
  <1>4. ASSUME NEW i \in Isolates, ~ByEvent(i),
               IsolateStep(i) \/ Crash(i) \/ Throw(i)
        PROVE  c \in live /\ notice[c] # "told"
    BY <1>0, <1>4, RefreshMoves
  <1>5. ASSUME NEW i \in Isolates, ByEvent(i),
               IsolateStep(i) \/ Crash(i) \/ Throw(i)
        PROVE  c \in live /\ notice[c] # "told"
    BY <1>0, <1>5, EventMoves DEF Write, Compare, Record, Tell, Match, Close,
       rows, TypeOK
  <1>. QED  BY <1>1, <1>2, <1>3, <1>4, <1>5, NextIs

LEMMA RefusalsAreToldStep ==
  ASSUME TypeOK, StepsFit, HealthsFit, RevocationsArrive, EventsAreStored,
         RefusalsAreTold, [Next]_vars
  PROVE  RefusalsAreTold'
  <1>. SUFFICES ASSUME NEW c \in live', last'[c] \in Refusals,
                       notice'[c] # "told"
                PROVE  \E i \in Isolates : Telling(i, c)'
    BY DEF RefusalsAreTold
  <1>0. c \in Conns
    BY TypeStep DEF TypeOK
  <1>1. CASE last'[c] = last[c]
    <2>1. PICK i \in Isolates : Telling(i, c)
      BY <1>1, UntoldBefore DEF RefusalsAreTold
    <2>. QED  BY <1>0, <2>1, TellingStays
  <1>. QED  BY <1>0, <1>1, LastMoves

(* An event that c waits for is waited for until c is told, or somebody is *)
(* about to tell it.                                                       *)
LEMMA PendingStays ==
  ASSUME TypeOK, StepsFit, HealthsFit, RevocationsArrive, EventsAreStored,
         OwedAreLive, RefusalsAreTold, [Next]_vars, NEW c \in Conns,
         NEW e \in Events, Pending(e, c), notice[c] = "owed",
         notice'[c] = "owed"
  PROVE  \/ \E i \in Isolates : Telling(i, c)'
         \/ Pending(e, c)'
  <1>0. c \in live
    BY DEF OwedAreLive
  <1>1. CASE UNCHANGED vars
    BY <1>1 DEF vars, inbox, Pending, WorksOn, ByEvent, Ahead
  <1>2. CASE Elsewhere
    <2>1. isolate' = isolate
      BY <1>2, ElsewhereShape
    <2>2. kind'[e] = kind[e] /\ event'[e] \in { "announced", "stored" }
      BY <1>2 DEF Elsewhere, Connect, Disconnect, AccessNearsExpiry,
         RefreshTokenLapses, LockExpires, Announce, Ingress, inbox, TypeOK,
         Pending
    <2>. QED  BY <2>1, <2>2 DEF Pending, WorksOn, ByEvent, Ahead
  <1>3. ASSUME NEW i \in Isolates, Started(i) PROVE Pending(e, c)'
    <2>1. \A j \in Isolates : j # i => isolate'[j] = isolate[j]
      BY <1>3, StartShape DEF Started
    <2>2. WorksOn(i, e)' => Ahead(i, c)'
      BY <1>3, StartMore DEF WorksOn, Ahead
    <2>3. kind' = kind /\ event' = event
      BY <1>3, StartMore
    <2>. QED  BY <2>1, <2>2, <2>3 DEF Pending, WorksOn, ByEvent, Ahead
  <1>4. ASSUME NEW i \in Isolates, ~ByEvent(i),
               IsolateStep(i) \/ Crash(i) \/ Throw(i)
        PROVE  Pending(e, c)'
    <2>1. \A j \in Isolates : j # i => isolate'[j] = isolate[j]
      BY <1>4, StepShape
    <2>2. ~WorksOn(i, e)' /\ kind' = kind /\ event' = event
      BY <1>4, RefreshMoves DEF WorksOn
    <2>. QED  BY <2>1, <2>2 DEF Pending, WorksOn, ByEvent, Ahead
  <1>5. ASSUME NEW i \in Isolates, ByEvent(i),
               IsolateStep(i) \/ Crash(i) \/ Throw(i)
        PROVE  \/ \E j \in Isolates : Telling(j, c)'
               \/ Pending(e, c)'
    <2>. DEFINE p == isolate[i]
    <2>1. \A j \in Isolates : j # i => isolate'[j] = isolate[j]
      BY <1>5, StepShape
    <2>2. ASSUME kind'[e] = kind[e], event'[e] = event[e],
                 WorksOn(i, e)' => Ahead(i, c)'
          PROVE  Pending(e, c)'
      BY <2>1, <2>2 DEF Pending, WorksOn, ByEvent, Ahead
    <2>3. WorksOn(i, e) => Ahead(i, c)
      BY DEF Pending
    <2>4. CASE Write(i)
      <3>1. /\ isolate'[i].step = "compare" /\ isolate'[i].todo = p.todo
            /\ isolate'[i].event = p.event
        BY <2>4, GotoShape, GotoMore DEF Write
      <3>2. kind' = kind /\ event' = event /\ p.step = "write"
        BY <2>4 DEF Write, inbox
      <3>. QED  BY <1>5, <2>2, <2>3, <3>1, <3>2
                DEF WorksOn, ByEvent, Ahead, Judging
    <2>5. CASE Record(i)
      <3>1. Announced(p) /\ Goto(i, "tell")
        <4>1. p.health \in Refusals
          BY <1>5, <2>5 DEF Record, HealthsFit, Judging
        <4>2. Announced(p)
          BY <1>5, <4>1 DEF Announced, Refusals, Alarms, ByEvent, EventJob
        <4>. QED  BY <2>5, <4>2 DEF Record
      <3>2. /\ isolate'[i].step = "tell" /\ isolate'[i].todo = p.todo
            /\ isolate'[i].event = p.event
        BY <3>1, GotoShape, GotoMore
      <3>3. kind' = kind /\ event' = event /\ p.step = "record"
        BY <2>5 DEF Record, inbox
      <3>. QED  BY <1>5, <2>2, <2>3, <3>2, <3>3
                DEF WorksOn, ByEvent, Ahead, Judging
    <2>6. CASE Compare(i)
      <3>1. kind' = kind /\ event' = event /\ p.step = "compare"
        BY <2>6 DEF Compare, inbox
      <3>2. CASE last[p.conn] # p.health
        <4>1. /\ isolate'[i].step = "record" /\ isolate'[i].todo = p.todo
              /\ isolate'[i].event = p.event
          BY <2>6, <3>2, GotoShape, GotoMore DEF Compare
        <4>. QED  BY <1>5, <2>2, <2>3, <3>1, <4>1
                  DEF WorksOn, ByEvent, Ahead, Judging
      <3>3. CASE last[p.conn] = p.health /\ p.conn # c
        <4>1. Return(i)
          BY <2>6, <3>3 DEF Compare
        <4>2. /\ isolate'[i].event = p.event
              /\ c \in p.todo => isolate'[i].step = "write"
                                 /\ c \in isolate'[i].todo
          BY <1>5, <3>3, <4>1, ReturnMore
        <4>. QED  BY <1>5, <2>2, <2>3, <3>1, <4>2
                  DEF WorksOn, ByEvent, Ahead, Judging
      (* c is not told again, because somebody is about to tell it.        *)
      <3>4. CASE last[p.conn] = p.health /\ p.conn = c
        <4>1. last[c] \in Refusals
          BY <1>5, <3>1, <3>4 DEF HealthsFit, Judging
        <4>2. PICK j \in Isolates : Telling(j, c)
          BY <1>0, <4>1 DEF RefusalsAreTold
        <4>. QED  BY <4>2, TellingStays
      <3>. QED  BY <3>2, <3>3, <3>4
    <2>7. CASE Tell(i)
      <3>1. kind' = kind /\ event' = event /\ p.step = "tell" /\ Return(i)
        BY <2>7 DEF Tell, inbox
      <3>2. p.conn # c
        BY <2>7 DEF Tell, TypeOK
      <3>3. /\ isolate'[i].event = p.event
            /\ c \in p.todo => isolate'[i].step = "write"
                               /\ c \in isolate'[i].todo
        BY <1>5, <3>1, <3>2, ReturnMore
      <3>. QED  BY <1>5, <2>2, <2>3, <3>1, <3>3
                DEF WorksOn, ByEvent, Ahead, Judging
    <2>8. CASE Match(i)
      <3>1. kind' = kind /\ event' = event /\ isolate'[i].event = p.event
        BY <2>8, MatchMore DEF Match, inbox
      <3>2. p.event = e => c \in Concerned(p.event)
        BY <1>0 DEF Concerned, Pending
      <3>3. WorksOn(i, e)' => Ahead(i, c)'
        BY <2>8, <3>1, <3>2, MatchMore DEF WorksOn, Ahead, Judging
      <3>. QED  BY <2>2, <3>1, <3>3
    <2>9. CASE Close(i)
      <3>1. p.event # e
        BY <1>5, <2>3, <2>9 DEF Close, WorksOn, Ahead, Judging
      <3>2. kind' = kind /\ event'[e] = event[e] /\ isolate'[i] = Idle
        BY <2>9, <3>1, EndShape DEF Close, TypeOK
      <3>. QED  BY <2>2, <3>2, IdleShape DEF WorksOn, ByEvent, EventJob
    <2>10. CASE /\ isolate' = [ isolate EXCEPT ![i] = Idle ]
                /\ UNCHANGED << event, kind >>
      BY <2>2, <2>10, EndShape, IdleShape DEF WorksOn, ByEvent, EventJob
    <2>. QED  BY <1>5, <2>4, <2>5, <2>6, <2>7, <2>8, <2>9, <2>10, EventMoves
  <1>. QED  BY <1>1, <1>2, <1>3, <1>4, <1>5, NextIs

(* A customer comes to be owed a notice only by an event nobody has begun  *)
(* to process.                                                             *)
LEMMA OwedBefore ==
  ASSUME TypeOK, StepsFit, HealthsFit, RevocationsArrive, EventsAreStored,
         [Next]_vars, NEW c \in Conns, notice'[c] = "owed",
         notice[c] # "owed"
  PROVE  \E e \in Events : Pending(e, c)'
  <1>1. ASSUME NEW e \in Events, NEW k \in EventKind, Announce(e, k)
        PROVE  Pending(e, c)'
    <2>1. isolate' = isolate /\ event[e] = "unsent"
      BY <1>1 DEF Announce
    <2>2. event'[e] = "announced" /\ kind'[e] # "other"
      BY <1>1 DEF Announce, TypeOK
    <2>3. \A i \in Isolates : ~WorksOn(i, e)
      BY <2>1 DEF EventsAreStored, WorksOn
    <2>. QED  BY <2>1, <2>2, <2>3 DEF Pending, WorksOn, ByEvent
  <1>2. CASE Elsewhere
    BY <1>1, <1>2 DEF Elsewhere, Connect, Disconnect, AccessNearsExpiry,
       RefreshTokenLapses, LockExpires, Ingress, TypeOK
  <1>3. ASSUME NEW i \in Isolates, Started(i) PROVE FALSE
    BY <1>3, StartMore
  <1>4. ASSUME NEW i \in Isolates, ~ByEvent(i),
               IsolateStep(i) \/ Crash(i) \/ Throw(i)
        PROVE  FALSE
    BY <1>4, RefreshMoves
  <1>5. ASSUME NEW i \in Isolates, ByEvent(i),
               IsolateStep(i) \/ Crash(i) \/ Throw(i)
        PROVE  FALSE
    BY <1>5, EventMoves DEF Write, Compare, Record, Tell, Match, Close, TypeOK
  <1>. QED  BY <1>2, <1>3, <1>4, <1>5, NextIs DEF vars

LEMMA OwedIsAheadStep ==
  ASSUME NoticeInv, RevocationsArrive, [Next]_vars
  PROVE  OwedIsAhead'
  <1>. USE DEF NoticeInv
  <1>. SUFFICES ASSUME NEW c \in Conns, notice'[c] = "owed"
                PROVE  \/ \E i \in Isolates : Telling(i, c)'
                       \/ \E e \in Events : Pending(e, c)'
    BY DEF OwedIsAhead
  <1>1. CASE notice[c] # "owed"
    BY <1>1, OwedBefore
  <1>2. ASSUME NEW i \in Isolates, Telling(i, c) PROVE Telling(i, c)'
    BY <1>2, TellingStays
  <1>3. ASSUME NEW e \in Events, Pending(e, c), notice[c] = "owed"
        PROVE  (\E i \in Isolates : Telling(i, c)') \/ Pending(e, c)'
    BY <1>3, PendingStays
  <1>4. CASE notice[c] = "owed"
    <2>1. \/ \E i \in Isolates : Telling(i, c)
          \/ \E e \in Events : Pending(e, c)
      BY <1>4 DEF OwedIsAhead
    <2>. QED  BY <1>2, <1>3, <1>4, <2>1
  <1>. QED  BY <1>1, <1>4

LEMMA NoticeInvInit == Init => NoticeInv
  <1>. SUFFICES ASSUME Init PROVE NoticeInv
    OBVIOUS
  <1>1. TypeOK /\ \A i \in Isolates : isolate[i] = Idle
    BY InitType DEF Init
  <1>2. StepsFit /\ EventsAreStored /\ HealthsFit
    BY <1>1, IdleShape DEF Init, StepsFit, EventsAreStored, HealthsFit,
       ByEvent, EventJob, RefreshOnly, EventOnly, Judging
  <1>3. OwedAreLive /\ RefusalsAreTold /\ OwedIsAhead
    BY DEF Init, OwedAreLive, RefusalsAreTold, OwedIsAhead, Refusals, TypeOK
  <1>. QED  BY <1>1, <1>2, <1>3 DEF NoticeInv

(* Unless an announcement is cut off, or a connection is authorized again  *)
(* on top of an alarm: once every event is closed and nobody works on one, *)
(* every customer a revocation concerned has heard of it, for any number   *)
(* of connections, isolates and events, lost sends, dead consumers and     *)
(* consumers that race the sweep for one event included.  That somebody    *)
(* finds the transition recorded and stays silent is no loss: whoever      *)
(* recorded it has told the customer or is about to.                       *)
THEOREM CustomersHear ==
  ASSUME RevocationsArrive
  PROVE  Spec => []RevocationIsTold
  <1>1. NoticeInv /\ [Next]_vars => NoticeInv'
    BY TypeStep, StepsFitStep, EventsAreStoredStep, HealthsFitStep,
       OwedAreLiveStep, RefusalsAreToldStep, OwedIsAheadStep DEF NoticeInv
  <1>2. NoticeInv => RevocationIsTold
    BY DEF NoticeInv, OwedIsAhead, RevocationIsTold, Telling, Pending, ByEvent,
       RefreshJob, EventJob
  <1>. QED  BY <1>1, <1>2, NoticeInvInit, PTL DEF Spec

=============================================================================
