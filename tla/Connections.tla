----------------------------- MODULE Connections -----------------------------
(***************************************************************************)
(* The connections of one provider account: their credentials, their       *)
(* health, and the three parties that write both.                          *)
(*                                                                         *)
(*   packages/db/src/repositories/connections.ts    connect, disconnect,   *)
(*                                                  setConnectionHealth    *)
(*   packages/db/src/repositories/credentials.ts    tokens, refresh lock   *)
(*   packages/db/src/repositories/provider-events.ts                       *)
(*   workers/connection-health/src/*.ts             the refresh sweep      *)
(*   apps/api/src/routes/connect.ts                 refresh on demand      *)
(*   workers/provider-webhooks/src/*.ts             revocations            *)
(*                                                                         *)
(* Several customers may connect the same account, so an event of the      *)
(* provider concerns every live connection.  An action is one SQL          *)
(* statement, transaction or provider call.  `good' and `issued' are the   *)
(* provider's own books and `owed' the reader's; no code reads them.       *)
(***************************************************************************)
EXTENDS Naturals, FiniteSets

CONSTANTS
    Conns,          \* connection ids, one per customer and authorization
    Acting,         \* bound: those whose customer and clock act; the others
                    \* stay as they were authorized, with a token that lasts
    Isolates,       \* cron invocations, API requests and queue consumers
    Events,         \* provider events about the account
    NoEvent,
    AnyConn,        \* what an idle isolate's field holds
    Faults,         \* which of FaultKinds may strike
    MaxTokens,      \* bound: refresh tokens the provider issues a connection
    MaxMishaps,     \* bound: faults and transient provider errors
    MaxActs         \* bound: what customers and the clock do

(* crash:          an isolate dies after any await                         *)
(* crash_outside:  the same, but in a refresh only before the lock and at  *)
(*                 its release, and in an event not between the record of  *)
(*                 a transition and its announcement                       *)
(* io:             a statement throws, and the handler's catch runs        *)
(* io_outside:     the same, but only in the consumer of the queue and not *)
(*                 between the record and the announcement                 *)
(* lost_send:      the ingress ends before its queue send                  *)
(* lost_response:  the provider rotated a token and the answer was lost    *)
(* slow:           a lock runs out while its holder is still working       *)
(* unconfigured:   the project has no provider application                 *)
(* manual_error:   the provider has a bad minute during a refresh on       *)
(*                 demand                                                  *)
(* reconnect_in_refresh, disconnect_in_refresh: the customer's request     *)
(*                 commits while a refresh of the connection is under way  *)
(* reconnect_after_alarm: a connection is authorized again after its       *)
(*                 history ended in an alarm                               *)
FaultKinds ==
    { "crash", "crash_outside", "io", "io_outside", "lost_send",
      "lost_response", "slow", "unconfigured", "manual_error",
      "reconnect_in_refresh", "disconnect_in_refresh",
      "reconnect_after_alarm" }

ASSUME ConnsAssumption == AnyConn \in Conns /\ Acting \subseteq Conns
ASSUME EventsAssumption == NoEvent \notin Events
ASSUME FaultsAssumption == Faults \subseteq FaultKinds
ASSUME BoundsAssumption == 
    MaxTokens \in Nat /\ MaxMishaps \in Nat /\ MaxActs \in Nat

VARIABLES
    live, gone,     \* rows with disconnected_at null, and set
    health,         \* social_connections.health
    last,           \* to_health of the newest connection_health_events row
    locks,          \* rows whose refresh_locked_until lies ahead
    access,         \* connections with a stored access token
    token,          \* the stored refresh token, 0 when there is none
    expiring,       \* whose access token expires within 24 hours
    event,          \* provider_events, by how far each has come
    kind,           \* what each event says
    queue,          \* PROVIDER_EVENT_QUEUE
    isolate,        \* what each isolate is doing
    good, issued,   \* tokens the provider honours, and how many it issued
    notice,         \* what the customer has heard since authorizing
    mishaps, acts

rows == << live, gone, health, last, locks >>
credentials == << access, token, expiring >>
inbox == << event, kind, queue >>
provider == << good, issued >>
vars == << rows, credentials, inbox, isolate, provider, notice, mishaps,
           acts >>

Health == { "healthy", "refresh_due", "refreshing", "reauth_required",
            "permission_missing", "rate_limited", "provider_degraded",
            "disconnected", "revoked" }

(* The transitions a customer is told about.                               *)
Alarms == { "reauth_required", "permission_missing", "revoked" }

(* A refresh by the sweep and one on demand; an event from the queue and   *)
(* one from the sweep.                                                     *)
RefreshJob == { "sweep", "manual" }
EventJob == { "queued", "swept" }

Step == { "idle", "due", "read", "call", "store", "store_rest", "write",
          "compare", "record", "tell", "release", "match", "close" }

Process ==
    { p \in [ step: Step, job: RefreshJob \cup EventJob, conn: Conns,
              token: 0 .. MaxTokens, health: Health,
              event: Events \cup {NoEvent}, todo: SUBSET Conns ] :
        p.job \in EventJob => p.event # NoEvent }

Idle == [ step |-> "idle", job |-> "sweep", conn |-> AnyConn, token |-> 0,
          health |-> "healthy", event |-> NoEvent, todo |-> {} ]

EventStage == { "unsent", "announced", "stored", "processed" }
EventKind == { "authorization_revoked", "permissions_changed", "other" }
Notice == { "none", "owed", "told" }

(* Mutant: a health outside the lifecycle.                                 *)
HealthForKindUnlisted(k) ==
    IF k = "authorization_revoked" THEN "revoked" ELSE "scope_missing"

HealthForKind(k) ==
    IF k = "authorization_revoked" THEN "revoked" ELSE "permission_missing"

Init ==
    /\ live = Conns \ Acting /\ gone = {} /\ locks = {}
    /\ health = [ c \in Conns |-> "healthy" ]
    /\ last = [ c \in Conns |-> "none" ]
    /\ access = Conns \ Acting /\ expiring = {}
    /\ token = [ c \in Conns |-> 0 ]
    /\ event = [ e \in Events |-> "unsent" ]
    /\ kind = [ e \in Events |-> "other" ]
    /\ queue = {}
    /\ isolate = [ i \in Isolates |-> Idle ]
    /\ good = [ c \in Conns |-> {} ]
    /\ issued = [ c \in Conns |-> 0 ]
    /\ notice = [ c \in Conns |-> "none" ]
    /\ mishaps = 0 /\ acts = 0

Mishap == mishaps < MaxMishaps /\ mishaps' = mishaps + 1
Act == acts < MaxActs /\ acts' = acts + 1

(* i is on its way to the lock of c, or holds it.                          *)
Works(i, c) ==
    /\ isolate[i].step # "idle"
    /\ isolate[i].job \in RefreshJob
    /\ isolate[i].conn = c

Refreshing(c) == \E i \in Isolates : Works(i, c)

-----------------------------------------------------------------------------
(* The customer.                                                           *)

(* saveConnection, one transaction: a first authorization, or one more of  *)
(* a live connection.  A credential it is not given is left as it is.      *)
Connect(c, withRefresh) ==
    /\ Act
    /\ c \notin gone
    /\ issued[c] < MaxTokens
    /\ "reconnect_in_refresh" \in Faults \/ ~Refreshing(c)
    /\ "reconnect_after_alarm" \in Faults \/ last[c] \notin Alarms
    /\ live' = live \cup {c}
    /\ health' = [ health EXCEPT ![c] = "healthy" ]
    /\ locks' = locks \ {c}
    /\ access' = access \cup {c}
    /\ expiring' = expiring \ {c}
    /\ IF withRefresh
         THEN /\ issued' = [ issued EXCEPT ![c] = issued[c] + 1 ]
              /\ token' = [ token EXCEPT ![c] = issued[c] + 1 ]
              /\ good' = [ good EXCEPT ![c] = good[c] \cup {issued[c] + 1} ]
         ELSE UNCHANGED << issued, token, good >>
    /\ notice' = [ notice EXCEPT ![c] = "none" ]
    /\ UNCHANGED << gone, last, inbox, isolate, mishaps >>

(* disconnectConnection, one transaction; a second call changes nothing.   *)
Disconnect(c) ==
    /\ Act
    /\ c \in live
    /\ "disconnect_in_refresh" \in Faults \/ ~Refreshing(c)
    /\ live' = live \ {c}
    /\ gone' = gone \cup {c}
    /\ health' = [ health EXCEPT ![c] = "disconnected" ]
    /\ access' = access \ {c}
    /\ token' = [ token EXCEPT ![c] = 0 ]
    /\ expiring' = expiring \ {c}
    /\ notice' = [ notice EXCEPT ![c] = "none" ]
    /\ UNCHANGED << last, locks, inbox, isolate, provider, mishaps >>

-----------------------------------------------------------------------------
(* The clock.                                                              *)

AccessNearsExpiry(c) ==
    /\ Act
    /\ c \in access \ expiring
    /\ expiring' = expiring \cup {c}
    /\ UNCHANGED << rows, access, token, inbox, isolate, provider, notice,
                    mishaps >>

(* A refresh token reaches an expiry of its own, which no row records.     *)
RefreshTokenLapses(c) ==
    /\ Act
    /\ token[c] \in good[c]
    /\ good' = [ good EXCEPT ![c] = good[c] \ {token[c]} ]
    /\ UNCHANGED << rows, credentials, inbox, isolate, issued, notice,
                    mishaps >>

(* The lock's time is up; its holder is dead, or slow.                     *)
LockExpires(c) ==
    /\ c \in locks
    /\ "slow" \in Faults \/ ~Refreshing(c)
    /\ locks' = locks \ {c}
    /\ UNCHANGED << live, gone, health, last, credentials, inbox, isolate,
                    provider, notice, mishaps, acts >>

-----------------------------------------------------------------------------
(* The provider's events.                                                  *)

(* The account's owner withdraws the grant or changes its permissions; or  *)
(* something happens that no customer needs to hear of.                    *)
Announce(e, k) ==
    /\ event[e] = "unsent"
    /\ event' = [ event EXCEPT ![e] = "announced" ]
    /\ kind' = [ kind EXCEPT ![e] = k ]
    /\ good' = IF k = "authorization_revoked"
                 THEN [ c \in Conns |-> {} ] ELSE good
    /\ notice' = [ c \in Conns |->
                     IF k # "other" /\ c \in live /\ notice[c] = "none"
                       THEN "owed" ELSE notice[c] ]
    /\ UNCHANGED << rows, credentials, queue, isolate, issued, mishaps,
                    acts >>

(* handleIngress stores the event, and the send follows in waitUntil.  The *)
(* provider's second delivery finds the row and is dropped (ON CONFLICT).  *)
Ingress(e, sent) ==
    /\ event[e] = "announced"
    /\ sent \/ "lost_send" \in Faults
    /\ event' = [ event EXCEPT ![e] = "stored" ]
    /\ queue' = IF sent THEN queue \cup {e} ELSE queue
    /\ UNCHANGED << rows, credentials, kind, isolate, provider, notice,
                    mishaps, acts >>

-----------------------------------------------------------------------------
(* setConnectionHealth: three statements, then the announcement.           *)

Goto(i, step) ==
    isolate' = [ isolate EXCEPT ![i] = [ isolate[i] EXCEPT !.step = step ] ]

(* i goes on to setConnectionHealth(c, h).                                 *)
Judge(i, c, h) ==
    isolate' = [ isolate EXCEPT ![i] =
                   [ isolate[i] EXCEPT !.step = "write", !.conn = c,
                                       !.token = 0, !.health = h ] ]

(* Where the caller goes on: a refresh to its finally block, an event to   *)
(* its next connection or to its end.                                      *)
Return(i) ==
    LET p == isolate[i]
        rest == p.todo \ {p.conn}
    IN  IF p.job \in RefreshJob
          THEN Goto(i, "release")
          ELSE IF rest = {}
            THEN isolate' = [ isolate EXCEPT ![i] =
                                [ p EXCEPT !.step = "close", !.todo = {} ] ]
            ELSE \E c \in rest :
                    isolate' = [ isolate EXCEPT ![i] =
                                   [ p EXCEPT !.step = "write", !.conn = c,
                                              !.todo = rest ] ]

(* Mutant: the column is written only when the history is about to move.   *)
WriteOnChange(i) ==
    /\ isolate[i].step = "write"
    /\ health' = IF last[isolate[i].conn] = isolate[i].health THEN health
                 ELSE [ health EXCEPT ![isolate[i].conn] = isolate[i].health ]
    /\ Goto(i, "compare")
    /\ UNCHANGED << live, gone, last, locks, credentials, inbox, provider,
                    notice, mishaps, acts >>

(* The UPDATE, which does not look at disconnected_at.                     *)
Write(i) ==
    /\ isolate[i].step = "write"
    /\ health' = [ health EXCEPT ![isolate[i].conn] = isolate[i].health ]
    /\ Goto(i, "compare")
    /\ UNCHANGED << live, gone, last, locks, credentials, inbox, provider,
                    notice, mishaps, acts >>

(* The SELECT of the newest event.                                         *)
Compare(i) ==
    /\ isolate[i].step = "compare"
    /\ IF last[isolate[i].conn] = isolate[i].health
         THEN Return(i)
         ELSE Goto(i, "record")
    /\ UNCHANGED << rows, credentials, inbox, provider, notice, mishaps,
                    acts >>

(* Only the sweep and the events announce an alarm.                        *)
Announced(p) == p.health \in Alarms /\ p.job # "manual"

(* The INSERT.                                                             *)
Record(i) ==
    /\ isolate[i].step = "record"
    /\ last' = [ last EXCEPT ![isolate[i].conn] = isolate[i].health ]
    /\ IF Announced(isolate[i]) THEN Goto(i, "tell") ELSE Return(i)
    /\ UNCHANGED << live, gone, health, locks, credentials, inbox, provider,
                    notice, mishaps, acts >>

(* emitWebhookEvent connection.reauth_required.                            *)
Tell(i) ==
    /\ isolate[i].step = "tell"
    /\ notice' = [ notice EXCEPT ![isolate[i].conn] = "told" ]
    /\ Return(i)
    /\ UNCHANGED << rows, credentials, inbox, provider, mishaps, acts >>

-----------------------------------------------------------------------------
(* A refresh.                                                              *)

(* findConnectionsDueForRefresh.                                           *)
Due(c) ==
    /\ c \in live
    /\ c \in access \cap expiring
    /\ health[c] \in { "healthy", "refresh_due", "rate_limited",
                       "provider_degraded" }
    /\ c \notin locks

(* A row of the sweep's batch, which may be worked on much later.          *)
FindDue(i, c) ==
    /\ isolate[i].step = "idle"
    /\ Due(c)
    /\ isolate' = [ isolate EXCEPT ![i] =
                      [ Idle EXCEPT !.step = "due", !.conn = c ] ]
    /\ UNCHANGED << rows, credentials, inbox, provider, notice, mishaps,
                    acts >>

(* POST /v1/connections/:id/refresh.                                       *)
Demand(i, c) ==
    /\ Act
    /\ isolate[i].step = "idle"
    /\ c \in live
    /\ isolate' = [ isolate EXCEPT ![i] =
                      [ Idle EXCEPT !.step = "due", !.job = "manual",
                                    !.conn = c ] ]
    /\ UNCHANGED << rows, credentials, inbox, provider, notice, mishaps >>

(* Mutant: the lock is taken without the test of refresh_locked_until.     *)
LockFreeAlways(c) == TRUE

LockFree(c) == c \notin locks

(* acquireRefreshLock: one conditional UPDATE, which does not ask again    *)
(* whether the row is due or live.                                         *)
Lock(i) ==
    /\ isolate[i].step = "due"
    /\ IF LockFree(isolate[i].conn)
         THEN /\ locks' = locks \cup {isolate[i].conn}
              /\ health' = [ health EXCEPT
                               ![isolate[i].conn] = "refreshing" ]
              /\ Goto(i, "read")
         ELSE /\ isolate' = [ isolate EXCEPT ![i] = Idle ]
              /\ UNCHANGED << locks, health >>
    /\ UNCHANGED << live, gone, last, credentials, inbox, provider, notice,
                    mishaps, acts >>

(* findConnectionCredentials, and the provider application.                *)
Read(i) ==
    LET p == isolate[i]
        c == p.conn
    IN  /\ p.step = "read"
        /\ \/ /\ c \notin access
              /\ Judge(i, c, "reauth_required")
           \/ /\ c \in access /\ token[c] = 0 /\ p.job = "sweep"
              /\ Judge(i, c, "refresh_due")
           \/ /\ c \in access
              /\ token[c] # 0 \/ p.job = "manual"
              /\ isolate' = [ isolate EXCEPT ![i] =
                                [ p EXCEPT !.step = "call",
                                           !.token = token[c] ] ]
           \/ /\ "unconfigured" \in Faults
              /\ c \in access
              /\ token[c] # 0 \/ p.job = "manual"
              /\ IF p.job = "sweep" THEN Goto(i, "release")
                                    ELSE Judge(i, c, "reauth_required")
        /\ UNCHANGED << rows, credentials, inbox, provider, notice,
                        mishaps, acts >>

(* The provider honours the token, takes it out of use and issues the next *)
(* one.                                                                    *)
Rotates(c, t) ==
    /\ t \in good[c]
    /\ issued[c] < MaxTokens
    /\ issued' = [ issued EXCEPT ![c] = issued[c] + 1 ]
    /\ good' = [ good EXCEPT ![c] = (good[c] \ {t}) \cup {issued[c] + 1} ]

(* Mutant: a provider's bad minute is read as a refusal.                   *)
DeferredNever(job) == "reauth_required"

(* What a failed call comes to: the sweep defers what a human cannot mend, *)
(* the route asks for a new authorization whatever went wrong.             *)
Deferred(job) == IF job = "sweep" THEN "refresh_due" ELSE "reauth_required"

(* adapter.auth.refresh.                                                   *)
Call(i) ==
    LET p == isolate[i]
        c == p.conn
    IN  /\ p.step = "call"
        /\ \/ /\ Rotates(c, p.token)
              /\ isolate' = [ isolate EXCEPT ![i] =
                                [ p EXCEPT !.step = "store",
                                           !.token = issued[c] + 1 ] ]
              /\ UNCHANGED mishaps
           \/ /\ "lost_response" \in Faults
              /\ Rotates(c, p.token)
              /\ Mishap
              /\ Judge(i, c, Deferred(p.job))
           \/ /\ p.token \in good[c] \cup {0}
              /\ Judge(i, c, "healthy")
              /\ UNCHANGED << provider, mishaps >>
           \/ /\ p.token \notin good[c]
              /\ Judge(i, c, "reauth_required")
              /\ UNCHANGED << provider, mishaps >>
           \/ /\ p.job = "sweep" \/ "manual_error" \in Faults
              /\ Mishap
              /\ Judge(i, c, Deferred(p.job))
              /\ UNCHANGED provider
        /\ UNCHANGED << rows, credentials, inbox, notice, acts >>

(* Mutant: only the access token of a rotation is stored.                  *)
StoreAccessOnly(i) ==
    LET p == isolate[i]
    IN  /\ p.step = "store"
        /\ access' = access \cup {p.conn}
        /\ expiring' = expiring \ {p.conn}
        /\ Judge(i, p.conn, "healthy")
        /\ UNCHANGED << rows, token, inbox, provider, notice, mishaps,
                        acts >>

(* The sweep stores both tokens in one transaction, the route one after    *)
(* the other; neither looks whether the connection is still there.         *)
Store(i) ==
    LET p == isolate[i]
    IN  /\ p.step = "store"
        /\ access' = access \cup {p.conn}
        /\ expiring' = expiring \ {p.conn}
        /\ IF p.job = "sweep"
             THEN /\ token' = [ token EXCEPT ![p.conn] = p.token ]
                  /\ Judge(i, p.conn, "healthy")
             ELSE /\ Goto(i, "store_rest")
                  /\ UNCHANGED token
        /\ UNCHANGED << rows, inbox, provider, notice, mishaps, acts >>

StoreRest(i) ==
    LET p == isolate[i]
    IN  /\ p.step = "store_rest"
        /\ token' = [ token EXCEPT ![p.conn] = p.token ]
        /\ Judge(i, p.conn, "healthy")
        /\ UNCHANGED << rows, access, expiring, inbox, provider, notice,
                        mishaps, acts >>

(* releaseRefreshLock, in the finally block, whoever holds the lock now.   *)
Release(i) ==
    /\ isolate[i].step = "release"
    /\ locks' = locks \ {isolate[i].conn}
    /\ isolate' = [ isolate EXCEPT ![i] = Idle ]
    /\ UNCHANGED << live, gone, health, last, credentials, inbox, provider,
                    notice, mishaps, acts >>

RefreshStep(i) ==
    Lock(i) \/ Read(i) \/ Call(i) \/ Store(i) \/ StoreRest(i) \/ Release(i)

-----------------------------------------------------------------------------
(* The processing of an event.                                             *)

(* The consumer loads the row; one already processed is acknowledged.      *)
Receive(i, e) ==
    /\ isolate[i].step = "idle"
    /\ e \in queue
    /\ queue' = queue \ {e}
    /\ isolate' = [ isolate EXCEPT ![i] =
                      IF event[e] = "processed"
                        THEN Idle
                        ELSE [ Idle EXCEPT !.step = "match", !.job = "queued",
                                           !.event = e ] ]
    /\ UNCHANGED << rows, credentials, event, kind, provider, notice,
                    mishaps, acts >>

(* Fifteen minutes later, whatever became of the message.                  *)
Sweep(i, e) ==
    /\ isolate[i].step = "idle"
    /\ event[e] = "stored"
    /\ isolate' = [ isolate EXCEPT ![i] =
                      [ Idle EXCEPT !.step = "match", !.job = "swept",
                                    !.event = e ] ]
    /\ UNCHANGED << rows, credentials, inbox, provider, notice, mishaps,
                    acts >>

(* Mutant: only the first connection of the account is looked up.          *)
ConcernedFirst(e) ==
    IF kind[e] = "other" \/ live = {} THEN {} ELSE { CHOOSE c \in live : TRUE }

(* The connections an event concerns.                                      *)
Concerned(e) == IF kind[e] = "other" THEN {} ELSE live

(* findConnectionsByProviderAccount.                                       *)
Match(i) ==
    LET p == isolate[i]
        all == Concerned(p.event)
    IN  /\ p.step = "match"
        /\ IF all = {}
             THEN Goto(i, "close")
             ELSE \E c \in all :
                     isolate' = [ isolate EXCEPT ![i] =
                                    [ p EXCEPT
                                        !.step = "write", !.conn = c,
                                        !.health = HealthForKind(kind[p.event]),
                                        !.todo = all ] ]
        /\ UNCHANGED << rows, credentials, inbox, provider, notice,
                        mishaps, acts >>

(* markProviderEventProcessed.                                             *)
Close(i) ==
    /\ isolate[i].step = "close"
    /\ event' = [ event EXCEPT ![isolate[i].event] = "processed" ]
    /\ isolate' = [ isolate EXCEPT ![i] = Idle ]
    /\ UNCHANGED << rows, credentials, kind, queue, provider, notice,
                    mishaps, acts >>

-----------------------------------------------------------------------------
(* Faults.                                                                 *)

(* Where i may die.                                                        *)
Vulnerable(p) ==
    \/ "crash" \in Faults
    \/ /\ "crash_outside" \in Faults
       /\ IF p.job \in RefreshJob THEN p.step \in { "due", "release" }
                                   ELSE p.step # "tell"

(* Where a statement of i may throw.                                       *)
Throwing(p) ==
    \/ "io" \in Faults
    \/ "io_outside" \in Faults /\ p.job = "queued" /\ p.step # "tell"

(* The queue delivers the message of a dead consumer again; nobody         *)
(* resumes a refresh.                                                      *)
Crash(i) ==
    /\ isolate[i].step # "idle"
    /\ Vulnerable(isolate[i])
    /\ Mishap
    /\ queue' = IF isolate[i].job = "queued"
                  THEN queue \cup {isolate[i].event} ELSE queue
    /\ isolate' = [ isolate EXCEPT ![i] = Idle ]
    /\ UNCHANGED << rows, credentials, event, kind, provider, notice, acts >>

(* A statement throws.  The sweep's refresh runs its finally block, the    *)
(* route first asks for a new authorization; the consumer retries the      *)
(* message, and the sweep of events closes the event with the error.       *)
Throw(i) ==
    LET p == isolate[i]
    IN  /\ p.step \notin { "idle", "due", "release" }
        /\ Throwing(p)
        /\ Mishap
        /\ \/ /\ p.job = "sweep"
              /\ Goto(i, "release")
           \/ /\ p.job = "manual" /\ p.health = "reauth_required"
              /\ Goto(i, "release")
           \/ /\ p.job = "manual" /\ p.health # "reauth_required"
              /\ Judge(i, p.conn, "reauth_required")
           \/ /\ p.job = "queued"
              /\ isolate' = [ isolate EXCEPT ![i] = Idle ]
           \/ /\ p.job = "swept"
              /\ Goto(i, "close")
        /\ queue' = IF p.job = "queued" THEN queue \cup {p.event} ELSE queue
        /\ UNCHANGED << rows, credentials, event, kind, provider, notice,
                        acts >>

IsolateStep(i) ==
    \/ Write(i) \/ Compare(i) \/ Record(i) \/ Tell(i)
    \/ RefreshStep(i) \/ Match(i) \/ Close(i)

Next ==
    \/ \E c \in Acting :
          \/ \E r \in BOOLEAN : Connect(c, r)
          \/ Disconnect(c)
          \/ AccessNearsExpiry(c) \/ RefreshTokenLapses(c) \/ LockExpires(c)
          \/ \E i \in Isolates : FindDue(i, c) \/ Demand(i, c)
    \/ \E e \in Events :
          \/ \E k \in EventKind : Announce(e, k)
          \/ \E sent \in BOOLEAN : Ingress(e, sent)
          \/ \E i \in Isolates : Receive(i, e) \/ Sweep(i, e)
    \/ \E i \in Isolates : IsolateStep(i) \/ Crash(i) \/ Throw(i)

Spec == Init /\ [][Next]_vars

-----------------------------------------------------------------------------
(* Every variable holds what its column, queue or book can hold.           *)
TypeOK ==
    /\ live \subseteq Conns /\ gone \subseteq Conns /\ live \cap gone = {}
    /\ health \in [ Conns -> Health ]
    /\ last \in [ Conns -> Health \cup {"none"} ]
    /\ locks \subseteq Conns
    /\ access \subseteq Conns /\ expiring \subseteq access
    /\ token \in [ Conns -> 0 .. MaxTokens ]
    /\ event \in [ Events -> EventStage ]
    /\ kind \in [ Events -> EventKind ]
    /\ queue \subseteq Events
    /\ isolate \in [ Isolates -> Process ]
    /\ good \in [ Conns -> SUBSET (1 .. MaxTokens) ]
    /\ issued \in [ Conns -> 0 .. MaxTokens ]
    /\ notice \in [ Conns -> Notice ]
    /\ mishaps \in 0 .. MaxMishaps /\ acts \in 0 .. MaxActs

(* i is between acquireRefreshLock and releaseRefreshLock of c.            *)
Holds(i, c) ==
    /\ isolate[i].step \notin { "idle", "due" }
    /\ isolate[i].job \in RefreshJob
    /\ isolate[i].conn = c

(* The refresh lock keeps what credentials.ts:205 asks of it: no two       *)
(* isolates, sweep or request, refresh one connection at the same time.    *)
OneRefresher ==
    \A c \in Conns : \A i, j \in Isolates :
        Holds(i, c) /\ Holds(j, c) => i = j

(* A refresh sends a connection back to its customer (reauth_required)     *)
(* only when the provider has no use for the token that is stored: never   *)
(* because another refresh had just exchanged it.                          *)
ReauthIsDeserved ==
    \A i \in Isolates :
        LET p == isolate[i]
        IN  /\ p.job \in RefreshJob
            /\ p.step \in { "write", "compare", "record", "tell" }
            /\ p.health = "reauth_required"
            /\ p.conn \in live
            => token[p.conn] \notin good[p.conn]

(* What a provider issued is not lost: once no refresh has a token still   *)
(* to store, the provider honours none newer than the stored one, however  *)
(* refreshes, requests and authorizations followed each other.             *)
NewestTokenIsStored ==
    \A c \in live :
        (\A i \in Isolates :
            Holds(i, c) => isolate[i].step \notin { "store", "store_rest" })
        => \A t \in good[c] : t <= token[c]

(* A live connection reads `refreshing' only while a refresh holds its     *)
(* lock: in that state no sweep would take it up again.                    *)
RefreshingIsWorkedOn ==
    \A c \in live :
        health[c] = "refreshing" => \E i \in Isolates : Holds(i, c)

(* Once the events are closed and nobody works on one, no customer whose   *)
(* grant was withdrawn or narrowed has yet to hear of it: whatever became  *)
(* of the message that carried the event, and however many connections the *)
(* account has.                                                            *)
RevocationIsTold ==
    /\ \A e \in Events : event[e] \in { "unsent", "processed" }
    /\ \A i \in Isolates :
          isolate[i].step # "idle" => isolate[i].job \in RefreshJob
    => \A c \in Conns : notice[c] # "owed"

(* connections.ts:140-142: there is no window where the connection reads   *)
(* as disconnected while the token is still there.                         *)
DisconnectedIsWiped ==
    \A c \in gone : c \notin access /\ token[c] = 0

=============================================================================
