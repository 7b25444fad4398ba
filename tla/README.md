# A verification project for the publishing platform

The repository is a social publishing API: a customer connects accounts,
creates a post for several destinations, and a queue consumer publishes it to
each destination's provider. Its central promise is
`docs/adr/ADR-006-effective-once.md`: *effectively-once publishing*, on top of
a queue that delivers at least once, workers that may die, and providers that
do not deduplicate. This directory models the parts of the program that keep
state which several parties share, in TLA+, checks them with TLC on small
instances, and proves the safety properties of all seven state machines with
TLAPS for every instance, the two refinements included.

## Inventory

| Component | State | Operations | Hard behaviour | Correct when | Module |
|---|---|---|---|---|---|
| Post state machine (`packages/domain/src/posts`) | none | `reducePostStatus`, transition table | the table has no caller | every statement follows the table; a closed post is settled | `PostStateMachine` |
| Publish engine (`workers/publisher`, `packages/db/.../posts.ts`) | `posts`, `post_targets`, `post_target_attempts` | lease, attempt, call, record, retry, reconcile, poll, fan out | redelivery, crashes between awaits, lost responses, stale reconcilers | at most one live post per target; nothing leasable is live; nothing is left behind | `PublishPromise`, `Publisher` |
| Post API (`apps/api/src/routes/posts.ts`) | the same rows, `waitUntil` sends | create, cancel, retry | races with workers, lost sends | a cancelled target never goes out | `Publisher`, `DraftSets` |
| Cron reconciler (`workers/reconciler`) | none of its own | four sweeps | races with live workers | nothing is published early, twice or never | `Publisher`, `WebhookDelivery`, `DraftSets` |
| Rate limiter (`workers/publisher/src/rate-limiter.ts`) | permits and cooldown in a Durable Object | acquire, report, release | permits leak, reports of concurrent calls cross | never more calls than the cap; a 429 is honoured; everyone gets through | `RateLimiter` |
| Provider adapters (`packages/providers/*`, `provider-kit`) and error taxonomy (`packages/errors`) | the provider's own books | prepare, publish, status, search, normalizeError | answers that lie about what was done, searches that miss or mistake a post | a retry cannot duplicate; what is adopted is ours; nobody is blamed wrongly | `ProviderErrors`, `Adapters` |
| Customer webhooks (`workers/customer-webhooks`, `webhooks.ts`) | endpoints, deliveries, attempts | emit, lease, deliver, record, sweep, auto-disable | crash after the lease, two drivers of one delivery | every delivery is settled; nobody is given up without cause | `DeliveryPromise`, `WebhookDelivery` |
| Token refresh and connection health (`workers/connection-health`, `credentials.ts`, `connections.ts`) | credentials, refresh lock, health, its history | lock, rotate, persist, release, change health | a refresh token is good once; disconnect and revocation in flight | no two refreshes at once; no token is lost; no connection is stuck | `Connections` |
| Inbound provider webhooks (`workers/provider-webhooks`) | `provider_events` | ingress, process, sweep | resent events, lost sends, concurrent consumers | every revocation reaches every customer it concerns | `Connections` |
| OAuth and connect sessions (`connect.ts`, `connect-sessions.ts`, `services/connect.ts`) | links, handshakes, connections, destinations | begin, complete, save, disconnect, select | two handshakes for one account; a read and a write with others between | tokens land where they were asked for; one live connection; only chosen pages are published to | `Connect` |
| Idempotency (`idempotency.ts`) | `idempotency_keys` | reserve, complete, purge | concurrent requests with one key, a retry of what was done | one request per key creates a post | `DraftSets` |
| Content (`content.ts`, `draft-sets.ts`, `packages/domain/src/content`) | versions, draft sets, drafts, claims | ingest, repurpose, ground, edit, review, publish | three transactions per publication, edits in between | posted once; what is accepted is what was read | `DraftSets` |
| Usage (`usage.ts`) | usage events | record | retries of what was recorded | one row per published target | `Publisher` |
| Approvals (`agents.ts`) | approval requests | create, decide, expire | nothing creates one | - | - |
| Media (`media.ts`) | assets | reserve, upload, probe, delete, expire | nothing probes | - | - |

The rest (contracts, SDK, CLI, MCP, API shell, dashboard, crypto,
integrations) keeps no state that two actors share; `PROJECT.json` lists each
part, and *Not modelled* below says why.

How the parts interact: the API commits rows and sends `publish.target`
messages; the publisher consumes them, asks the destination's rate limiter for a
permit, calls the provider through its adapter and writes the rows; a retryable
outcome sends a delayed copy, an unknown one a `publish.reconcile`, an
asynchronous one a `publish.poll_status`; the cron finds overdue posts and
expired leases and sends more messages. A provider's webhook becomes a row and a
message, and its consumer changes the health of connections that the refresh
cron, a request and a reconnecting customer write as well. A draft set becomes a
post through the API's own route and its idempotency key. Direct calls are few,
the publisher's to its limiter and adapter and a draft set's to the posts route;
everywhere else components meet in rows and queues, which is why every promise
rests on the `WHERE` clauses of single statements.

The modules follow these seams. `Publisher` takes a provider that may do
anything `dispositionFor` leaves open; `Adapters` shows what each of the
thirteen real ones does, against an engine reduced to one worker.
`RateLimiter` takes the engine as a client that may leak a permit at every
step. `Connect` decides which rows and tokens there are, `Connections` what
becomes of them. `DraftSets` ends where the post row begins, at which
`Publisher` starts.

## Modules

| Module | What it is |
|---|---|
| `PostStateMachine` | the pure rules of `post-state-machine.ts` |
| `PublishPromise` | what the engine promises about each target: at most one post, and claims that are true |
| `Publisher`, `MCPublisher`, `PublisherProofs`, `PublisherOnceProofs` | the publish engine: one post and its targets |
| `DeliveryPromise` | what a customer is promised about one event and one endpoint |
| `WebhookDelivery`, `WebhookProofs` | the rows, queue, consumer and sweep that keep the promise |
| `Connections`, `MCConnections`, `ConnectionsProofs` | one account's connections: credentials, health, refreshes, revocations |
| `RateLimiter`, `MCRateLimiter`, `RateLimiterProofs` | one destination's Durable Object and its clients |
| `ProviderErrors` | every error code with its disposition, and what each adapter makes of an answer |
| `Adapters`, `MCAdapters`, `AdaptersProofs` | one post through one of thirteen adapters |
| `Connect`, `MCConnect`, `ConnectProofs` | handshakes for one account, from a key or a hosted link |
| `DraftSets`, `MCDraftSets`, `DraftSetsProofs` | from a source text to a post |

An `MC` module holds symmetry and the sets a `.cfg` cannot write; a `Proofs`
module the theorems. Definitions commented *Seeded bug* or *Mutant* are
deliberately wrong variants of the one that follows them (a dropped guard, a
forgotten reset). No action uses them; each one shows that the property it is
aimed at would notice.

### Publisher

One action is what another process can see between two awaits: one SQL
statement, one provider call, one queue send. An isolate (`worker`) is at one
place of one handler and carries what the handler's locals carry.

| Variable | In the code |
|---|---|
| `row` | `post_targets`: status, lease, whether it has expired, whether `next_attempt_at` has passed, `attempt_count`, `simulated` |
| `history` | the attempt numbers in `post_target_attempts` |
| `metered` | `successful_publish` usage rows |
| `postStatus`, `publishAt` | the columns of `posts` |
| `queue` | `PUBLISH_QUEUE` |
| `worker` | the local state of a queue consumer |
| `api` | a request that has not finished: recalculation and `waitUntil` sends |
| `calls`, `live` | the provider's own books: how often it was asked, how many posts exist |
| `mishaps`, `retries` | bounds |

`LeaseTarget` to `Recalculate` are `executeTarget` step by step: lease, context
and gates, attempt row, `prepare`, the call, the outcome statement, the closed
attempt, metering, the follow-up message, the recalculation. `WithOutcome` and
`After` hold the order the code does these in, which differs between a failure
(attempt closed first) and a success (row first). `Reconcile`, `Search` and
`Resolve` are `reconcileTarget`; `Poll` is `pollTargetStatus`; `FanOut` is the
`publish.scheduled_post` case. `Cancel`, `Retry`, `ApiRecalculate` and `ApiSend`
are the routes, `SweepScheduled` and `SweepAbandoned` the cron. `CatchError` is
the `catch` of `executeTarget`, `Abort` a consumer that dies or throws.

`PublishPromise` knows two things about a target, what its row claims and how
many posts exist: a post appears only while the target is open, at most once;
`published`, `simulated`, accepted and cancelled are said only when they are
true; a doubt is admitted and opened again only when a search found nothing.
`failed` is true of a target that was open; a doubt that no search settles ends
as `failed` too (`GiveUp`), and then the post may exist. ADR-006 promises more,
and `publisher_in_doubt` shows the difference. `ClaimOf` maps the row's status
to the claim (every status a worker may still take is `open`), and `PromiseKept`
says each step of `Publisher` is a step of it or changes neither.

Abstractions, and why they are sound for the properties:

* Time is three facts: `next_attempt_at` has passed (`due`), the lease has
  expired, `publish_at` has passed. Each becomes true at any moment.
* The queue is a set. Two equal messages differ from one only in that one may
  be consumed twice; `Redelivered` allows that for the types it names.
* A message that is retried too often goes to the dead letter queue. No
  passing run has enough mishaps to get there, and nothing consumes that queue.
* Providers take a post or do not; every disposition is possible in either
  case that `dispositionFor` leaves open. `findPossibleDuplicate` answers right
  or not at all: a search that adopts the wrong post is outside the model.
* A sweep's read and its release are one step. The release is guarded by the
  lease id it read, so an interleaving in between only adds a message that is
  refused or as good as the one already on its way.
* One API request at a time, and each request's first statement, recalculation
  and send are separate steps that workers interleave with.
* `Poll` leaves the row alone: every statement it could settle a target with is
  guarded by the empty lease id, which the column's type rejects.
* Content, credentials, the outcome columns of an attempt and the advisory
  fingerprint are left out. A validation block (`blocked_validation`), a draft
  and an approval precede the engine and are not initial states.

### WebhookDelivery

The deliveries of one endpoint. An action is one statement or transaction, one
request to the customer or one queue send.

| Variable | In the code |
|---|---|
| `row` | `webhook_deliveries`: status, lease, `attempt_count`, whether `next_attempt_at` has passed |
| `endpoint` | `webhook_endpoints`: status, `consecutive_failures` |
| `queue` | `WEBHOOK_QUEUE` |
| `worker` | the locals of `deliver`: step, delivery, `attemptNumber`, what will be recorded |
| `posts`, `acked` | the customer's own books: requests received, deliveries answered with 2xx |
| `mishaps` | bound |

`Emit` and `Replay` insert a delivery, with or without the message the route
sends. `Lease` and `ReadContext` are the two statements of
`leaseWebhookDelivery`, `Post` the request with its three outcomes (2xx, not
2xx, 2xx too late to be seen), `Record` the transaction of
`recordDeliveryResult` with the endpoint's counter, `Send` the delayed message
of the retry, `Sweep` the reconciler, `Abort` a consumer that dies or throws.
The attempt number is one more than the count the lease returns, as in the code.

`DeliveryPromise` knows three things about a delivery: whether it is owed, how
often the endpoint was asked and whether it acknowledged. `Promise` maps the
row's status to it; `PromiseKept` says every step is one of its steps or
changes nothing it knows, and `DeliveriesSettle` that nothing stays owed.

Abstractions: the jitter on `next_attempt_at` only orders the delayed message
and the sweep, which race here; the message of a sweep or a duplicate may be
leased while the row still waits, as in the code, where the lease does not look
at `next_attempt_at`. The lease id, a fresh uuid in the code, is the isolate: a
row that keeps the lease of an isolate that died is never leased again, so the
two are never confused. An endpoint that is deleted takes its deliveries with
it and is not modelled, nor are signatures, secrets and subscriptions.

### Connections

| Variable | In the code |
|---|---|
| `live`, `gone` | `social_connections` rows by `disconnected_at` |
| `health` | `social_connections.health` |
| `last` | `to_health` of the newest `connection_health_events` row |
| `locks` | rows whose `refresh_locked_until` lies ahead |
| `access`, `token`, `expiring` | `social_credentials`: access token, refresh token, expiry within a day |
| `event`, `kind`, `queue` | `provider_events` and `PROVIDER_EVENT_QUEUE` |
| `isolate` | the locals of a cron invocation, a request or a consumer |
| `good`, `issued` | the provider's books: tokens it honours, tokens it issued |
| `notice` | what the customer heard since authorizing |
| `mishaps`, `acts` | bounds |

`FindDue` and `Demand` begin a refresh as the cron and `POST .../refresh` do;
its steps are lock, read, call, store (two statements), write, compare and
record (the three statements of `setConnectionHealth`), tell, release.
`Announce` and `Ingress` are the provider's webhook, `Receive` and `Sweep` the
two ways an event is taken up, and its processing writes the health of every
matching connection, one by one. `Connect` and `Disconnect` are the customer,
`AccessNearsExpiry`, `RefreshTokenLapses` and `LockExpires` the clock, `Crash`
and `Throw` faults.

Abstractions: the provider rotates the refresh token at every use, the
strictest of the thirteen. Each expiry becomes true at any moment. The alarm a
customer receives is the one `emit` of `setConnectionHealth`'s caller; what
becomes of it is `WebhookDelivery`'s business. The health the publisher sets
after a failed post is left out.

### RateLimiter

The object handles one request at a time, so `acquire`, `report` and `release`
are an action each. A clock is what it has left, and `Tick` takes a unit off all
of them: `ttl` of each permit, `cooldown`, `timer` of each worker. `consecutive`
is the object's count of 429s; `step`, `permit`, `answer`, `wait`, `attempts`
and `after` are the client, `executeTarget` between the lease and the release.
`told`, the longest wait the limiter was told of, and `mishaps` are in no code;
a reported success sets `told` back, as it ends the cooldown. A worker keeps to
its budgets (`Startup`, from the permit to the call, and `CallBudget`, the
provider's timeout) unless it is `slow`.

### ProviderErrors and Adapters

`ProviderErrors` holds the taxonomy as functions: the disposition of each code,
and for each adapter the code of each answer it tells apart. Answers nobody
tells apart are one answer.

| Variable | In the code |
|---|---|
| `job` | the post: provider, kind of medium, whether it has words, whether its history may be read |
| `attempt`, `todo` | `attempt_count`, and the calls `prepare` and `publish` have left |
| `container`, `recorded` | the provider's container of each attempt, `prepared_provider_ids` |
| `posts`, `refused` | the provider's books: what became of each attempt, whether it refused the credentials |
| `verdict`, `adopted` | the target's status, by what follows from it, and the id it carries |
| `masked` | nothing: the attempts whose post was taken behind an answer that reads as an outage |

An adapter is a sequence of calls (`BlueskyCalls`, `InstagramCalls`, ...), a
table of what a failure of each is taken for, a search and what it takes for
evidence. Every call may fail in every way its adapter tells apart. The
surprises beyond that (`FaultKinds`) strike a provider only if the pair is in
`Faults`; `MCAdapters.ToleratedFaults` lists the pairs each adapter withstands,
and leaving a pair out is a statement about the code (see *Known behaviours*).
`masked_accept`, a post that is taken although the answer is a 5xx, lacks the id
or is cut off, is among the pairs of every provider. No adapter withstands it:
`OneLivePost` and `RefusedIsNotLive` name the posts in `masked` as their
exception, so that everything else is checked with such posts around.

Abstractions: calls repeated for every medium are listed once; texts are equal
or not; a page of history shows a post or does not.

### Connect

| Variable | In the code |
|---|---|
| `link`, `oauth` | `connect_sessions` and `oauth_sessions` |
| `job` | the request that finishes a handshake |
| `conn`, `dest` | `social_connections` with whose grant its tokens come from, `social_destinations` |
| `chosen` | nothing: the pages a customer chose, or that were the only one offered |

`saveConnection` runs at READ COMMITTED, so it is two actions, the read and the
write, and another handshake, a disconnect or a selection may commit in
between. `Forget` recycles a handshake that is over, so that the two slots TLC
gets stand for any number of handshakes, two at a time. All are about one
account of one provider: no others can meet. Signed tokens, PKCE and scopes are
data, and left out.

### DraftSets

| Variable | In the code |
|---|---|
| `versions` | `source_item_versions`, oldest first |
| `set` | `social_draft_sets` with their drafts and claims |
| `keys` | `idempotency_keys` |
| `posts` | `posts` made from draft sets |
| `request` | what each `PATCH` or `publish` request has read and how far it is |

A text is a sequence of spans, a span the phrase it says, a draft the set of
phrases it contains. Publication is three transactions: the route reads the
set, `POST /v1/posts` reserves the key, inserts the post and completes the key
in one, and the set is marked. A request may be the last thing its isolate does
after any of them, and `Purge` removes a key whoever is under way with it. The
key is what `draft-sets.ts` builds: the set and the
number of targets. Since a reservation commits with its completion,
`in_progress` is never read, and `failReservation` has no caller. Media and
titles are left out; the model's answer is any member of `Answers`.

## Runs

Bounds are small because the hazards are: two isolates are enough for any race
over one row, two attempts for "again", one mishap for a fault (two where the
state space allows one during the recovery from another). Targets of one post
meet only in the aggregate status, so the engine's races are run with one target
and the aggregate with two.

| Run | Bounds | Shows |
|---|---|---|
| `publisher_safety` | 1 target, 2 isolates, 2 leases, 2 attempts, 1 mishap, 1 customer retry; faults: crashes that do not separate a call from its record, lost sends, I/O errors; `publish.target` redelivered | a target is live at most once; what may still be leased is not live; `published` is the truth and nobody is billed for less; nothing goes out early; the provider is asked at most `max_attempts` times between two customer retries; statuses follow the domain's table; the engine implements `PublishPromise`, so a cancelled target never goes out |
| `publisher_progress` | 2 targets, 1 isolate, 2 attempts with automatic retries, cancel; no faults | a closed post is settled; every target comes to rest; the aggregate converges |
| `webhook_delivery` | 2 deliveries, 2 isolates, 3 rungs, disabled after 2 failures, 1 mishap: a duplicate, or a send that throws after the record | the consumer implements `DeliveryPromise`; one request at a time; a delivery is given up only when every attempt was a request and no other delivery got more, or because the endpoint was switched off; every delivery is settled |
| `connections` | 2 connections of which 1 acts, 2 isolates, 1 event, 2 tokens, 1 mishap, 3 acts; faults: `crash_outside`, `io_outside`, `lost_send` | refreshes exclude one another, lose no token and send nobody to reauthorize whose grant still works; nothing stays `refreshing`; every customer a revocation concerns is told |
| `limiter` | 2 targets, 4 permits, a cap of 1, permits of 3 units, calls of 2, 2 attempts, 2 mishaps; faults: `throw`, `report` | never more calls than the cap; no permit during a wait that was asked for since the last success; everyone gets through |
| `adapters` | 13 providers, each kind of medium, with and without words and scope, 3 attempts; the tolerated faults | but for posts that hide behind an answer that reads as an outage, no second post and no post behind a failure; no stranger's post adopted; nobody asked to reconnect for nothing; every job is decided |
| `connect` | 2 owners, 1 link, 2 handshakes at a time, 2 connections, 2 pages; `MCConnect!Few` | tokens land where they were asked for; one live connection; only chosen pages are published to |
| `drafts` | 1 set of 2 drafts, 3 requests, 2 publication times | no selection is posted twice while the key of its first post stands; who is told `accepted` is told the truth |

Two deliveries are what it takes for one to disable the endpoint of the other,
three rungs for a first, a middle and a last attempt. Two connections, one
without acts of its own, are what it takes to forget one of them; two tokens
for a rotation and what follows it. A cap of one and two targets make every
permit contested, and four permits let one leak at every attempt. Three
attempts let an id recorded by the first be stale at the third. Three requests
are a publication that dies, an edit and a retry. `Few` keeps odd handshakes
(another owner's, a link's, an expired one) from meeting one another; each of
them still meets any plain one, and the module comment lists what it cuts.

Four runs end in a counterexample, because a sentence of the repository says
more than the code does (`findings` in `PROJECT.json` quotes them):

| Run | What happens |
|---|---|
| `publisher_crash` | a worker dies between the provider call and its record; the sweep requeues the target instead of reconciling it; it is published twice |
| `publisher_in_doubt` | the provider takes a post and its answer is lost; the search cannot tell; the target ends in `permanent_failed`, which ADR-006 says it does not |
| `connections_disconnect` | a customer disconnects while a refresh is at the provider; the refresh stores tokens of a connection that is gone |
| `drafts_grounding` | a draft is edited, its new claims are stored as unverified, and the set is published: the gate reads the flag of its creation |

### Faults, tolerated and not

Every component has a `Faults` constant. The passing runs name what the code
withstands, so the members they leave out are the conditions of its promises:

* `Publisher`, for safety: no crash between a provider call and its record, no two
  reconcilers of one target, provider timeouts shorter than the lease, and
  adapters that call a lost response unknown. Under a swept crash the attempt
  is given back although the provider may have been asked, so
  `BudgetRespected` rests on the same conditions. For progress: no crash, no
  lost send, no statement that throws.
* `WebhookDelivery`: no crash between lease and record, after which the
  delivery would stay `delivering`.
* `Connections`: no crash and no thrown statement inside a refresh between lock
  and release, or between the record of a transition and its announcement; no
  lost rotation (`lost_response`: the only good token is gone); no worker slower
  than its lock; no transient failure of a refresh on demand, which the route
  takes for a revoked grant; no reconnect during a refresh or after an alarm.
* `RateLimiter`: workers keep to their budgets. Reports of concurrent calls may
  cross: a success reported late clears the cooldown of a 429, and
  `CooldownKept` counts the waits since the last success.
* `Adapters`: the pairs missing from `ToleratedFaults`. `masked_accept` is in it
  for everyone, with the exception the two properties state.

### Fairness

`Publisher.FairSpec` assumes what the platform's scheduling provides, with weak
fairness throughout: a handler that has begun goes on, an idle isolate takes up
some message while there are any, the cron runs, the clock goes on, and a
request that has committed recalculates and sends. It does not say which message
is taken up; that none is crowded out for ever is part of what the run shows.
`WebhookDelivery` is checked under the same kind of fairness. `RateLimiter`
assumes that time passes and that each worker goes on; the Durable Object
promises no order among those who ask, and `EveryJobGetsThrough` needs none.
`Adapters` assumes that the worker goes on and that a provider settles a post it
has taken. Nothing is assumed of customers or faults: a run may end with no
cancel, no retry and no mishap. `provider_processing`,
`unknown_reconciliation_required` and an exhausted `retryable_failed` count as
rest, since the code leaves them to a person.

### Known behaviours the runs do not ask for

What the models show the code does, beyond the four findings. No property
forbids these, because each would fail at once; each is a place to look before
strengthening a promise.

* Engine: two reconcilers of one target, where an old verdict `absent` lands on
  a newer `unknown` and the target is published twice; a fan-out that dies
  between its claim and its send leaves the targets queued for ever, where
  `publisher/src/index.ts:62-64` calls it safe, and so does a request whose
  `waitUntil` is lost; after a customer retry the attempt
  numbers are used again and the new attempt row is dropped; a poll cannot
  settle a target, because the empty lease id is no uuid.
* Webhooks: a consumer that dies after its lease leaves the delivery
  `delivering`, which nothing takes up again; the lease returns the count it has
  incremented and `deliver` adds one (`index.ts:134`), so the first attempt
  counts as the second, the 30 s rung is skipped, and a delivery is given up
  after one request less than `customer-webhooks/src/index.ts:45` lists (`0s,
  30s, 2m, 10m, 1h, 6h, 24h, then the DLQ`).
* Connections: a refresh that dies under its lock leaves `refreshing`; one that
  outlives its lock lets a second refresh spend the token; a refresh on demand
  takes a 503 for a revoked grant; a second alarm for a revocation processed
  twice, none for one that follows a reconnect or whose consumer died after the
  record; a refresh in flight sets a connection the provider has just reported
  revoked back to healthy.
* Limiter: a success reported late clears the cooldown of a concurrent 429
  (`rate-limiter.ts:22` against `193-196`).
* Adapters: a post is taken, but the answer is a 5xx, is cut off or lacks the id
  (`facebook/adapter.ts:523-526` calls that a 502); every adapter takes it for
  an outage, and the retry publishes a second time; Instagram compares the
  words before asking whether there are any (`adapter.ts:738` against the comment at `747-749`), so
  a wordless post adopts the next wordless one; Threads appends a link to the
  text it later searches for; Google Business adopts a post still under review;
  LinkedIn, Discord and Bluesky take our own media store's refusal for the
  provider's.
* Connect: a completed link can be redeemed until it expires
  (`connect-sessions.ts:160-168`); a reconnect whose only page is already known
  leaves it unselected (`connections.ts:554`); an empty list on reconnect keeps
  the setup complete (`services/connect.ts:392-396`); a failed emit marks the
  handshake failed though the connection is stored; `/complete` consumes the
  handshake before it asks whose it is; a selection with an unknown id answers
  404 after it has deselected the rest and stamped the setup complete.
* Drafts: publishing a discarded set posts it and then answers 409; the key
  holds the number of targets, so two selections of one size conflict and two
  of different sizes make two posts, where the comment on the key
  (`draft-sets.ts:438-440`) says that publishing one set twice must not; the
  purge looks at `expires_at` alone (`idempotency.ts:186-205`), so a request
  that replays a key on its last day and one that reserves it anew can both be
  told `accepted`, of two posts; an edit between a crash and its retry ends
  in `IDEMPOTENCY_KEY_REUSED`; an edit loaded before a publication changes a
  published set; a claim whose text an edit removes is dropped, where
  `draft-sets.ts:150-151` says it is recorded as unverified; a set that
  failed grounding can never be un-failed; a text fetched again does not
  become the one in force.

## Proofs

`PublisherProofs` proves, for any finite non-empty set of targets, any isolates
and lease ids, any budget, any bound and *every* fault, from the named
assumptions on the constants:

* `TypeCorrect`: `Spec => []TypeOK`
* `LeaseDisciplineHolds`: `Spec => []LeaseDiscipline`
* `StatusesFollowTheDomainHolds`: `Spec => StatusesFollowTheDomain`
* `TerminalIsFinalHolds`: `Spec => TerminalIsFinal`

The argument is one inductive invariant, `IInv`. `TypeOK` alone is not
inductive: an outcome statement is typed only because a worker that writes one
carries an outcome that `StatusFor` knows, and an attempt number is in range
only between the lease and the attempt row. `Shaped` says which locals a
handler has at which step. `RowsInv` adds that `publishing` and a lease on the
row go together, without which the outcome statement of a worker that lost its
lease could not be shown to leave the row alone, and that no row is ever in a
status the engine does not write. From `IInv`, `StepFollows` shows step by step
that each status change is in the table; that terminal statuses are final is
then a property of the table. There is one lemma per action.

Two more hold under every fault:

* `NoEarlyPublishHolds`: before its time a scheduled post has no message on its
  way and nobody at work on it (`NothingEarly`), whatever is cancelled or
  retried meanwhile; only the sweep starts one, and it looks at the time.
* `ClosedPostIsSettledHolds`: a recalculation reduces the statuses it reads in
  one statement, so a closed aggregate was true when written, and final
  statuses stay.

`PublisherOnceProofs` proves what the rows say of the provider's books. It
needs `OutcomesAreRecorded`: no `crash` between call and record, no
`lost_response` taken for a refusal, no `slow` worker, no redelivered
reconciliation. Each of these makes the code lose an outcome, and
`publisher_crash` is the counterexample for the first. Under it, for any
targets, isolates, leases and budget: `EffectivelyOnceHolds`,
`LeasableIsNotLiveHolds`, `PublishedIsLiveHolds`, `CancelledIsNotLiveHolds`,
`BudgetRespectedHolds` and `KeepsThePromise`, the refinement. `OnceInv` says
that a lease in a worker's hands is on its row until a success is written
(`LeaseFits`), that a worker's locals are true of the call it made
(`LocalsFit`), that a verdict `absent` is true while the row waits for it
(`VerdictFits`, which holds because one reconciliation at a time is under way
or in the queue), and that every status is true of the books. For the budget, a
call is paid for by an attempt: a lease takes one, and it is given back only by
a worker that has not asked, so calls and uncalled leases never outnumber
attempts (`CallsArePaid`).

`WebhookProofs` proves, for any deliveries and isolates, any ladder of at least
two rungs and every fault, the crash at any await included:

* `TypeCorrect`: `Spec => []TypeOK`, which bounds the requests per delivery
* `OneAtATime`: `Spec => []OneRequestAtATime`
* `GivesUpHonestly`: `Spec => []GivenUpHonestly`
* `KeepsThePromise`: `Spec => PromiseKept`, the refinement

`GivenUpHonestly` does not say how many requests a ladder of `Rungs` has: the
code makes one less than its comment lists.

Its invariant ties each isolate between lease and record to its row: it holds
the lease, the row is `delivering`, its attempt number is one ahead of the row,
and before the request the row's count is ahead of the requests made. That
there are never more requests than attempts, and that a row which may be leased
has a rung left, bounds the requests; that two isolates cannot hold one lease
makes them exclusive. `Honest` adds the account of the ladder: every attempt of
a row at rest was a request, and one in hand is still to become one, has become
one or was refused. `StepIsPromised` then maps each action to a step of
`DeliveryPromise` or to a stutter.

`ConnectionsProofs` proves `TypeCorrect` under every fault, and `LockExcludes`:
`OneRefresher` for any number of connections, isolates and events, from the
assumption `LockLasts`, that no lock runs out under its holder and no
authorization clears one. The release deletes a lock without asking whose it is,
so the inductive invariant has to say that an isolate between lock and release
is the one that set it: whoever holds a connection finds it in `locks`, and two
holders are one. `StepsFit` keeps the steps of a refresh apart from those of an
event. That an expiry belongs to a stored access token is part of `TypeOK`.

Four more theorems follow a refresh or an event further, each under the
narrowest set of absent faults its proof needs:

* `NobodyStaysRefreshing` (`RefreshingIsWorkedOn`), under `RefreshesFinish`: no
  handler dies or throws and the project has its provider application. Locks may
  run out. `RefreshingIsUndecided` strengthens the property: the isolate at work
  has not come to the write that replaces `refreshing`.
* `NoTokenIsLost` (`NewestTokenIsStored`), under `RefreshesArrive`: the lock
  lasts, nothing dies and answers arrive. On top of the lock's invariant,
  nothing the provider honours is beyond what it issued (`TokensAreIssued`), the
  token a refresh carries is the newest (`CarriedIsNewest`), and without such a
  refresh the stored one is (`StoredIsNewest`).
* `NobodyIsSentBackForNothing` (`ReauthIsDeserved`), under `RefreshesArrive` and
  `FailuresAreRefusals`: a live connection has an access token
  (`LiveHaveAccess`), and a refresh presents the token that is still stored
  (`StoredIsPresented`).
* `CustomersHear` (`RevocationIsTold`), under `RevocationsArrive`: nothing dies
  or throws between the record of a transition and its announcement, and no
  connection is authorized again after an alarm; refreshes may do what they
  like, locks and answers included. A customer who is owed a notice is ahead of
  everyone who processes some open event (`OwedIsAhead`). The hard case is a
  consumer that finds the transition already recorded and stays silent: that is
  no loss because whoever recorded it has told the customer or is about to
  (`RefusalsAreTold`), and only events record a refusal (`HealthsFit`).

`RateLimiterProofs` proves, for any targets, permits, cap and durations within
`TtlAssumption` (a permit outlasts the budgets of its holder): `CallsAreCapped`
(`ConcurrencyCapped`), if workers keep to their budgets (`BudgetsHold`), and
`CooldownIsKept` (`CooldownKept`) under every fault and in whatever order
concurrent calls report: the object's cooldown covers the longest wait it was
told of since the last success (`WaitsCovered`). The invariant of the first says
there are never more active permits than the cap (`PermitsCapped`), that the
permit of a worker in a call has more time left than the worker itself
(`AllCovered`), which is what a leak and a `Tick` must both preserve, and that
two workers never carry one permit (`Distinct`). The calls then inject into the
permits. `TypeCorrect` holds under every fault; its content is that an attempt
which is given back was taken.

`ConnectProofs` proves, for any profiles, links, handshakes, connections and
pages and without any assumption beyond those on the constants: `TypeCorrect`,
`LandsWhereItStartedHolds`, `OneLiveConnectionHolds` and
`SelectedWasChosenHolds`. The invariant keeps account of what a request has
read: it works for the profile of its handshake, and the row it means to update
is of that profile by the time it writes (`JobFits`); nothing of a handshake
that is not finished is stored or worked on (`FreshFits`); a handshake begun
from a link has the link's profile (`LinkFits`). One live connection then rests
on two statements: the partial unique index refuses a second insert, and the
update leaves `disconnected_at` alone, so a disconnect between the read and the
write is not undone. TLC has to keep odd handshakes apart (`Few`); the proofs do
not.

`AdaptersProofs` proves `TypeCorrect` under every surprise, and under
`Tolerated` (`Faults` within `ToleratedFaults`), for any choice of the thirteen
adapters and any number of attempts: `OneLivePostHolds`,
`RefusedIsNotLiveHolds`, `PublishedIsOursHolds` and `BlockedIsDeservedHolds`.
What connects the tables is an account of where an attempt is (`AtWork`): either
nothing of it is posted and `publish` lies ahead, once, or it is posted and only
a permalink is missing. So a failure that is ruled retryable or final comes
before the post, or hides one behind an answer that reads as an outage
(`masked`). What is not masked belongs to the last attempt (`OfLastAttempt`). A
search may conclude `absent` from an unpublished container because its id is
recorded before it is published (`PublishedIsRecorded`). The tables themselves
are taken apart provider by provider.

`DraftSetsProofs` proves, for any sets, drafts, texts, answers and requests:
`TypeCorrect`, `PostedOnceHolds` and `AcceptedIsTrueHolds`. The first needs an
account of the key from the request to the post: a stored key names a post with
its body (`KeysName`), keys are unique, a request that posts or moves read a
stored set (`HoldersRead`, `EditedIsStored`). A second post of a selection is
inserted only where no key of that selection stands, whoever is still under way
with the post of the first. That a
published set stays published (`AcceptedIsPublished`) is the domain's
transition table.

Every safety property of a passing run is stated by a theorem. Only
model-checked: liveness (`EveryJobGetsThrough`, `EveryJobSettles`,
`DeliveriesSettle` and the progress of `Publisher`), which like `ENABLED` is
outside the prover's reach. The assumptions on `Faults` above are the only ones
beside the named `ASSUME`s of the modules; the runs satisfy them, and the
tolerated sets are no wider in a run than in its theorem.

## Not modelled

The map covers about one seventh of the implementation's lines. Most of the
rest is not behaviour a model could check: the dashboard, the marketing site,
the SDK, the CLI and the generated OpenAPI document are presentation; the
contracts are schemas; the adapters' remaining lines build and parse HTTP
bodies, state capabilities, and fetch analytics and comments.

* Approvals: `createApprovalRequest` and `loadAgentPolicies` have no caller, so
  no request exists to be decided or to expire. (`routes/approvals.ts:124` would
  enqueue an approved post without sending its messages.)
* Media: `markProbed` and `markProbeFailed` have no caller and nothing consumes
  `media.probe`, so no asset becomes `ready` and the races of a probe with a
  delete or an expiry cannot happen. `planMediaFit` is pure and has no caller
  in the program.
* Analytics, engagement, memory: upserts of single rows, settled by a unique
  index, or pure scoring.
* Brand profiles and extractions: single statements; `recordExtraction` has no
  caller, which is why grounding after an edit finds no spans.
* MCP and the API shell: stateless translation, authentication, parsing.
* Crypto, observability, storage, the model client: pure functions and I/O.
* Browser extension, WordPress plugin, scripts: clients of the API.

## What is left

1. The delays of the webhook ladder, which the lease does not keep, and the
   status of an endpoint that customer and auto-disable both write.
2. An abstract promise for `Connections` (a customer's connection works, is
   known not to, or is being looked at), with the health and its history shown
   to implement it.
3. Approvals and media, once the program creates the one and probes the other.
