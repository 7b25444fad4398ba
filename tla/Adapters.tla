------------------------------- MODULE Adapters -------------------------------
(***************************************************************************)
(* One post on its way through a provider's adapter: the calls an attempt  *)
(* makes, what a failed one is taken for, and the search that decides      *)
(* whether an attempt of unknown outcome may be repeated.                  *)
(*                                                                         *)
(*   packages/providers/*/src/adapter.ts           prepare, publish,       *)
(*                                                 status, findPossible-   *)
(*                                                 Duplicate               *)
(*   packages/providers/meta-core/src/containers.ts                        *)
(*   workers/publisher/src/execute-target.ts       the order of the calls  *)
(*   workers/publisher/src/reconcile.ts            the search's use        *)
(*   workers/publisher/src/poll-status.ts                                  *)
(*                                                                         *)
(* Publisher models the engine against any provider; here the engine is    *)
(* reduced to one worker, and the providers are told apart.  `posts',      *)
(* `refused' and `masked' are the provider's own books; no code reads      *)
(* them.                                                                   *)
(***************************************************************************)
EXTENDS Naturals, Sequences, ProviderErrors

CONSTANTS
    Used,           \* the providers that posts go to
    Faults,         \* pairs << provider, fault kind >> that may strike
    MaxAttempts     \* max_attempts of the target

(* masked_accept:  a post is taken, and the answer is a 5xx, lacks the id  *)
(*                 or never arrives (a transport error, not a timeout)     *)
(* late:           a post is taken, but appears only after the search      *)
(* unseen:         a post is live, but the search cannot recognise it: its *)
(*                 published text differs, it is a captioned story, or the *)
(*                 search comes more than LOOKBACK_MS after it             *)
(* twin:           the destination holds another post of the same words    *)
(* silent_twin:    it holds another post without words                     *)
(* unreviewed:     the search lists posts the provider has yet to accept   *)
(* slow_processing: processing outlasts MAX_POLL_AGE_MS                    *)
(* new_status:     a container reports a status the code does not know     *)
(* stale_url:      our media store refuses the signed URL of the media     *)
FaultKinds == 
    { "masked_accept", "late", "unseen", "twin", "silent_twin", "unreviewed",
      "slow_processing", "new_status", "stale_url" }

ASSUME UsedAssumption == Used \subseteq ProviderName
ASSUME FaultsAssumption == Faults \subseteq ProviderName \X FaultKinds
ASSUME MaxAttemptsAssumption == MaxAttempts \in Nat \ {0}

VARIABLES
    job,            \* the post and its provider
    attempt,        \* post_targets.attempt_count
    todo,           \* the calls the attempt has left
    container,      \* the provider's container of each attempt
    recorded,       \* whose container prepared_provider_ids holds, or 0
    posts,          \* what the provider made of each attempt, and the twin
    verdict,        \* the target's status, by what follows from it
    adopted,        \* the post whose id the target carries
    refused,        \* the provider itself refused the credentials
    masked          \* the attempts whose post hides behind another error

vars == << job, attempt, todo, container, recorded, posts, verdict, adopted,
           refused, masked >>

Attempts == 1 .. MaxAttempts
Twin == MaxAttempts + 1
Post == Attempts \cup {Twin}
NoPost == 0

May(kind) == << job.provider, kind >> \in Faults

Medium == { "none", "image", "images", "video", "story" }

Media(p) ==
    CASE p \in {"bluesky", "discord", "linkedin", "mock", "x",
                "google_business_profile"} -> {"none", "image"}
      [] p = "facebook" \/ p = "threads" -> {"none", "image", "images", "video"}
      [] p = "telegram" -> {"none", "image", "images"}
      [] p = "instagram" -> {"image", "images", "video", "story"}
      [] p = "pinterest" -> {"image", "video"}
      [] p = "tiktok" -> {"images", "video"}
      [] OTHER -> {"video"}

(* `words': the post has text.  `reads': the connection granted the scope  *)
(* that lists posts.  A captioned story is a post no search can recognise. *)
Jobs ==
    { j \in [ provider: Used, media: Medium, words: BOOLEAN, reads: BOOLEAN ] :
        /\ j.media \in Media(j.provider)
        /\ j.media = "none" => j.words
        /\ j.media = "story" /\ j.words =>
               << j.provider, "unseen" >> \in Faults }

Call == { "ask", "limit", "mention", "try", "fetch", "upload", "process",
          "child", "container", "wait", "record", "publish" }

ContainerStatus == { "IN_PROGRESS", "FINISHED", "PUBLISHED", "ERROR",
                     "EXPIRED" }

(* Statuses of which the search reads "nothing was published".             *)
ReadContainerStatus(s) == IF s \in ContainerStatus THEN s ELSE "IN_PROGRESS"

(* ------------------------- the calls of an attempt --------------------- *)
(* Each adapter's prepare and publish.  Calls repeated for every medium    *)
(* are listed once.                                                        *)
(*   ask      a call that leaves nothing behind                            *)
(*   limit    the same; only a 429 fails the attempt                       *)
(*   mention  the same; an answer never fails the attempt                  *)
(*   try      the same; nothing fails the attempt                          *)
(*   fetch    read the medium from our media store                         *)
(*   upload   put it to an upload URL of the provider                      *)
(*   process  wait until the provider has processed it                     *)
(*   container, wait      create the post's container, wait for it         *)
(*   child    wait for the container of a carousel's item                  *)
BlueskyCalls(media) ==
    [ prepare |-> IF media = "none" THEN << "ask" >>
                  ELSE << "ask", "fetch", "ask" >>,
      publish |-> << "ask", "mention", "publish" >> ]

DiscordCalls(media) ==
    [ prepare |-> << >>,
      publish |-> IF media = "none" THEN << "publish" >>
                  ELSE << "fetch", "publish" >> ]

FacebookCalls(media) ==
    [ prepare |-> IF media = "images" THEN << "ask" >> ELSE << >>,
      publish |-> << "publish" >> ]

GoogleBusinessCalls(media) ==
    [ prepare |-> << >>, publish |-> << "publish" >> ]

InstagramCalls(media) ==
    [ prepare |-> IF media = "images" 
                  THEN << "limit", "ask", "child", "container", "wait" >>
                  ELSE << "limit", "container", "wait" >>,
      publish |-> << "publish", "try" >> ]

ThreadsCalls(media) ==
    [ prepare |-> IF media = "images"
                  THEN << "ask", "child", "container", "wait" >>
                  ELSE << "container", "wait" >>,
      publish |-> << "publish", "try" >> ]

LinkedInCalls(media) ==
    [ prepare |-> IF media = "none" THEN << >>
                  ELSE << "ask", "fetch", "upload" >>,
      publish |-> << "publish" >> ]

MockCalls(media) == [ prepare |-> << >>, publish |-> << "publish" >> ]

PinterestUpload == << "ask", "fetch", "upload", "process" >>

PinterestCalls(media) ==
    [ prepare |-> IF media = "video" THEN PinterestUpload ELSE << >>,
      publish |-> << "publish" >> ]

TelegramCalls(media) == [ prepare |-> << >>, publish |-> << "publish" >> ]

(* The creator's own settings can refuse the post as an answer would.      *)
TikTokCalls(media) == [ prepare |-> << "ask" >>, publish |-> << "publish" >> ]

XUpload == << "fetch", "ask", "process", "try" >>

XCalls(media) ==
    [ prepare |-> IF media = "none" THEN << >> ELSE XUpload,
      publish |-> << "publish" >> ]

YouTubeCalls(media) ==
    [ prepare |-> << "ask" >>, publish |-> << "fetch", "publish" >> ]

Calls(p, media) ==
    CASE p = "bluesky" -> BlueskyCalls(media)
      [] p = "discord" -> DiscordCalls(media)
      [] p = "facebook" -> FacebookCalls(media)
      [] p = "google_business_profile" -> GoogleBusinessCalls(media)
      [] p = "instagram" -> InstagramCalls(media)
      [] p = "linkedin" -> LinkedInCalls(media)
      [] p = "pinterest" -> PinterestCalls(media)
      [] p = "telegram" -> TelegramCalls(media)
      [] p = "threads" -> ThreadsCalls(media)
      [] p = "tiktok" -> TikTokCalls(media)
      [] p = "x" -> XCalls(media)
      [] p = "youtube" -> YouTubeCalls(media)
      [] OTHER -> MockCalls(media)

(* The engine records what was prepared before it publishes.               *)
Attempt(j) ==
    LET c == Calls(j.provider, j.media) IN
    c.prepare \o << "record" >> \o c.publish

(* A post the provider takes is live at once, or is processed first.       *)
Takes(p) ==
    CASE p = "tiktok" -> {"taken"}
      [] p \in {"youtube", "google_business_profile", "mock"} ->
             {"taken", "live"}
      [] OTHER -> {"live"}

(* --------------------------- the failures of a call -------------------- *)
FromProvider ==
    [ status: Statuses \ {"thrown"}, reason: {"none"} ]
        \cup [ status: {"s400"}, reason: ProviderReasons ]

FromStore ==
    { [ status |-> "thrown", reason |-> "none" ] } \cup
    [ status: {"s5xx"} \cup (IF May("stale_url") THEN {"s401", "s403", "s404"}
                             ELSE {}),
      reason: {"store"} ]

FromProcessing == FromProvider \cup
    { [ status |-> "s422", reason |-> "media" ],
      [ status |-> "s5xx", reason |-> "media" ] }

Uploading == { [ f EXCEPT !.reason = "upload" ] :
                 f \in [ status: Statuses \ Silences, reason: {"none"} ] }

(* An IG or Threads container that failed, or is not ready in time.        *)
FromContainer == FromProvider \cup
    { [ status |-> "s422", reason |-> "none" ],
      [ status |-> "thrown", reason |-> "media" ] }

(* A statement that throws: an error no adapter knows.                     *)
FromDatabase == { [ status |-> "thrown", reason |-> "none" ] }

FailuresOf(call) ==
    CASE call = "fetch" -> FromStore
      [] call = "upload" -> FromProvider \cup Uploading
      [] call = "process" -> FromProcessing
      [] call \in {"wait", "child"} -> FromContainer
      [] call = "record" -> FromDatabase
      [] OTHER -> FromProvider

(* Failures the adapter catches and goes on.                               *)
Swallowed(call, f) ==
    \/ call = "try"
    \/ call = "limit" /\ f.status # "s429"
    \/ call = "mention" /\ f.status \notin Silences

RefusesCredentials(f) ==
    /\ f.reason # "store"
    /\ \/ f.status \in {"s401", "s403"}
       \/ f.reason \in {"auth", "revoked", "scope"}

(* ------------------------------- the worker ---------------------------- *)
Init ==
    /\ job \in Jobs
    /\ attempt = 0 /\ todo = << >> /\ recorded = 0
    /\ container = [ n \in Attempts |-> "none" ]
    /\ posts \in { [ n \in Post |-> IF n = Twin THEN s ELSE "none" ] :
                     s \in {"none"} \cup
                       (IF (IF job.words THEN May("twin") ELSE May("silent_twin"))
                        THEN {"live"} ELSE {}) }
    /\ verdict = "retry" /\ adopted = NoPost /\ refused = FALSE
    /\ masked = {}

(* Mutant: a job whose attempts are used up is left to the next sweep.     *)
RetryForever == "retry"

Retry == IF attempt < MaxAttempts THEN "retry" ELSE "failed"

(* Mutant: the disposition is stored as it is.                             *)
RulingUntranslated(code) == Disposition(code)

Ruling(code) ==
    LET d == Disposition(code) IN
    CASE d = "retryable_failed" -> Retry
      [] d = "blocked_on_connection" -> "blocked"
      [] d = "unknown_reconciliation_required" -> "unknown"
      [] OTHER -> "failed"

Begin ==
    /\ verdict = "retry" /\ attempt < MaxAttempts
    /\ attempt' = attempt + 1
    /\ todo' = Attempt(job)
    /\ verdict' = "working" /\ refused' = FALSE
    /\ UNCHANGED << job, container, recorded, posts, adopted, masked >>

Calling(call) == verdict = "working" /\ todo # << >> /\ Head(todo) = call

(* The attempt goes on; after the last call the provider has the post.     *)
GoOn ==
    /\ todo' = Tail(todo)
    /\ IF Tail(todo) # << >> THEN UNCHANGED << verdict, adopted >>
       ELSE /\ verdict' = IF posts'[attempt] = "taken" THEN "processing"
                          ELSE "published"
            /\ adopted' = attempt

CallReturns ==
    /\ \E call \in Call \ {"container", "wait", "record", "publish"} :
           Calling(call)
    /\ UNCHANGED << job, attempt, container, recorded, posts, refused,
                    masked >>
    /\ GoOn

CreateContainer ==
    /\ Calling("container")
    /\ container' = [ container EXCEPT ![attempt] = "IN_PROGRESS" ]
    /\ UNCHANGED << job, attempt, recorded, posts, refused, masked >>
    /\ GoOn

WaitForContainer ==
    /\ Calling("wait")
    /\ ReadContainerStatus(container[attempt]) \in {"FINISHED", "PUBLISHED"}
    /\ UNCHANGED << job, attempt, container, recorded, posts, refused,
                    masked >>
    /\ GoOn

(* Mutant: ids once recorded are kept.                                     *)
RecordPreparedOnce ==
    /\ Calling("record")
    /\ recorded' = IF container[attempt] = "none" \/ recorded # 0
                   THEN recorded ELSE attempt
    /\ UNCHANGED << job, attempt, container, posts, refused, masked >>
    /\ GoOn

(* Only container ids are ever read back.                                  *)
RecordPrepared ==
    /\ Calling("record")
    /\ recorded' = IF container[attempt] = "none" THEN recorded ELSE attempt
    /\ UNCHANGED << job, attempt, container, posts, refused, masked >>
    /\ GoOn

(* The provider takes the post and says so.                                *)
Publish ==
    /\ Calling("publish")
    /\ \E s \in Takes(job.provider) : posts' = [ posts EXCEPT ![attempt] = s ]
    /\ container' = [ container EXCEPT ![attempt] =
                        IF @ = "none" THEN "none" ELSE "PUBLISHED" ]
    /\ GoOn
    /\ UNCHANGED << job, attempt, recorded, refused, masked >>

(* A duplicate is refused only where there is one.                         *)
Possible(f) ==
    f.reason = "duplicate" => \E n \in Post : posts[n] \in {"taken", "live"}

CallFails ==
    /\ verdict = "working"
    /\ \E f \in FailuresOf(Head(todo)) :
         /\ Possible(f) /\ ~Swallowed(Head(todo), f)
         /\ refused' = RefusesCredentials(f)
         /\ verdict' = Ruling(NormalizeError(job.provider, f))
    /\ todo' = << >>
    /\ UNCHANGED << job, attempt, container, recorded, posts, adopted,
                    masked >>

CallFailsQuietly ==
    /\ verdict = "working"
    /\ \E f \in FailuresOf(Head(todo)) : Swallowed(Head(todo), f)
    /\ UNCHANGED << job, attempt, container, recorded, posts, refused,
                    masked >>
    /\ GoOn

(* The provider took the post, and the worker hears something else.        *)
MayHide(f) ==
    /\ f.reason = "none"
    /\ \/ f.status = "timeout"
       \/ May("masked_accept") /\ f.status \in {"transport", "s5xx"}

AnswerIsLost ==
    /\ Calling("publish")
    /\ \E f \in FailuresOf("publish") :
         /\ MayHide(f)
         /\ verdict' = Ruling(NormalizeError(job.provider, f))
         /\ masked' = IF f.status = "timeout" THEN masked
                      ELSE masked \cup {attempt}
    /\ \E s \in Takes(job.provider)
                  \cup (IF May("late") THEN {"taken"} ELSE {}) :
           posts' = [ posts EXCEPT ![attempt] = s ]
    /\ container' = [ container EXCEPT ![attempt] =
                        IF @ = "none" THEN "none" ELSE "PUBLISHED" ]
    /\ todo' = << >>
    /\ UNCHANGED << job, attempt, recorded, adopted, refused >>

(* ----------------------------- the providers --------------------------- *)
ContainerMoves ==
    /\ \E n \in Attempts, s \in ContainerStatus \cup {"NEW"} :
         /\ \/ container[n] = "IN_PROGRESS" /\ s \in {"FINISHED", "ERROR"}
            \/ container[n] = "FINISHED" /\ s = "EXPIRED"
            \/ container[n] = "PUBLISHED" /\ s = "NEW" /\ May("new_status")
         /\ container' = [ container EXCEPT ![n] = s ]
    /\ UNCHANGED << job, attempt, todo, recorded, posts, verdict, adopted,
                    refused, masked >>

(* Processing ends, or an overdue post appears.                            *)
PostSettles ==
    /\ \E n \in Attempts, s \in {"live", "removed"} :
         /\ posts[n] = "taken"
         /\ posts' = [ posts EXCEPT ![n] = s ]
    /\ UNCHANGED << job, attempt, todo, container, recorded, verdict, adopted,
                    refused, masked >>

(* -------------------------------- the search --------------------------- *)
(* What a search has to go by: which of the listed posts match, whether    *)
(* the page was full, and what the recorded container's status reads.      *)

BlueskySearch(e) ==
    IF e.matching # {} THEN "found"
    ELSE IF e.full THEN "indeterminate" ELSE "absent"

DiscordSearch(e) ==
    IF ~e.words THEN "indeterminate"
    ELSE IF e.matching # {} THEN "found"
    ELSE IF e.full THEN "indeterminate" ELSE "absent"

FacebookSearch(e) ==
    IF e.matching # {} THEN "found"
    ELSE IF e.full \/ (~e.words /\ e.media # "none") THEN "indeterminate"
    ELSE "absent"

GoogleBusinessSearch(e) ==
    IF ~e.reads THEN "indeterminate"
    ELSE IF e.matching # {} THEN "found"
    ELSE IF ~e.words \/ e.full THEN "indeterminate" ELSE "absent"

(* instagram and threads: an unpublished container is proof of absence.    *)
InstagramSearch(e) ==
    IF e.container \in {"FINISHED", "IN_PROGRESS"} THEN "absent"
    ELSE IF e.matching # {} THEN "found"
    ELSE IF ~e.words \/ e.full THEN "indeterminate" ELSE "absent"

ThreadsSearch(e) ==
    IF e.container \in {"FINISHED", "IN_PROGRESS"} THEN "absent"
    ELSE IF e.matching # {} THEN "found"
    ELSE IF ~e.words \/ e.full THEN "indeterminate" ELSE "absent"

LinkedInSearch(e) ==
    IF ~e.reads THEN "indeterminate"
    ELSE IF e.matching # {} THEN "found"
    ELSE IF e.full THEN "indeterminate" ELSE "absent"

MockSearch(e) == IF e.matching # {} THEN "found" ELSE "absent"

PinterestSearch(e) ==
    IF ~e.reads THEN "indeterminate"
    ELSE IF e.matching # {} THEN "found"
    ELSE IF e.full THEN "indeterminate" ELSE "absent"

(* Mutant: a video that is not listed was not created.                     *)
TikTokSearchTrustsList(e) ==
    IF ~e.reads \/ ~e.words THEN "indeterminate"
    ELSE IF e.matching # {} THEN "found"
    ELSE IF e.full THEN "indeterminate" ELSE "absent"

TikTokSearch(e) ==
    IF ~e.reads \/ ~e.words THEN "indeterminate"
    ELSE IF e.matching # {} THEN "found" ELSE "indeterminate"

XSearch(e) ==
    IF ~e.reads THEN "indeterminate"
    ELSE IF e.matching # {} THEN "found"
    ELSE IF e.full \/ ~e.words THEN "indeterminate" ELSE "absent"

YouTubeSearch(e) ==
    IF ~e.reads THEN "indeterminate"
    ELSE IF e.matching # {} THEN "found" ELSE "indeterminate"

Search(p, e) ==
    CASE p = "bluesky" -> BlueskySearch(e)
      [] p = "discord" -> DiscordSearch(e)
      [] p = "facebook" -> FacebookSearch(e)
      [] p = "google_business_profile" -> GoogleBusinessSearch(e)
      [] p = "instagram" -> InstagramSearch(e)
      [] p = "threads" -> ThreadsSearch(e)
      [] p = "linkedin" -> LinkedInSearch(e)
      [] p = "pinterest" -> PinterestSearch(e)
      [] p = "tiktok" -> TikTokSearch(e)
      [] p = "x" -> XSearch(e)
      [] p = "youtube" -> YouTubeSearch(e)
      [] OTHER -> MockSearch(e)

Searchable == job.provider # "telegram"

(* Mutant: words are enough for the mock, too.                             *)
MatchesByWords(n) == TRUE

(* A twin has the same words, but not the idempotency key.                 *)
Matches(n) == n = Twin => job.provider # "mock"

Listed ==
    { n \in Post : /\ \/ posts[n] = "live"
                      \/ posts[n] = "taken" /\ May("unreviewed")
                   /\ n # Twin => job.media # "story" }

(* A full page of younger posts may leave ours out; the mock has no pages. *)
(* The container lookup may fail.                                          *)
Evidence ==
    { e \in [ matching: SUBSET Post, words: {job.words},
              full: IF job.provider = "mock" THEN {FALSE} ELSE BOOLEAN,
              media: {job.media}, reads: {job.reads},
              container: {"none"} \cup
                  (IF recorded = 0 THEN {}
                   ELSE { ReadContainerStatus(container[recorded]) }) ] :
        LET matching == { n \in Listed : Matches(n) } IN
        IF e.full \/ May("unseen") THEN e.matching \subseteq matching
        ELSE e.matching = matching }

(* The search runs 30 s after the failure, by when an accepted post is     *)
(* listed.                                                                 *)
Settled(n) == posts[n] # "taken"

FindPossibleDuplicate ==
    /\ verdict = "unknown" /\ Searchable
    /\ May("late") \/ May("unreviewed") \/ \A n \in Attempts : Settled(n)
    /\ \E e \in Evidence :
         LET conclusion == Search(job.provider, e) IN
         \/ /\ conclusion = "found" /\ verdict' = "published"
            /\ adopted' \in e.matching
         \/ /\ conclusion = "absent" /\ verdict' = Retry
            /\ UNCHANGED adopted
         \/ /\ conclusion = "indeterminate" /\ verdict' = "escalated"
            /\ UNCHANGED adopted
    /\ UNCHANGED << job, attempt, todo, container, recorded, posts, refused,
                    masked >>

(* How the four asynchronous providers name the state of a post, and what  *)
(* their adapters make of it; `none' is a post they no longer know.        *)
Names(p, s) ==
    CASE p = "tiktok" -> CASE s = "live" -> {"PUBLISH_COMPLETE"}
                           [] s = "removed" -> {"FAILED"}
                           [] OTHER -> {"PROCESSING_DOWNLOAD"}
      [] p = "youtube" -> CASE s = "live" -> {"processed"}
                            [] s = "removed" -> {"failed", "rejected",
                                                 "deleted", "none"}
                            [] OTHER -> {"uploaded"}
      [] p = "google_business_profile" ->
             CASE s = "live" -> {"LIVE", "RECURRING"}
               [] s = "removed" -> {"REJECTED"}
               [] OTHER -> {"PROCESSING"}
      [] OTHER -> IF s = "removed" THEN {"none"} ELSE {s}

TikTokStatus(name) ==
    CASE name = "PUBLISH_COMPLETE" -> "published"
      [] name = "FAILED" -> "failed"
      [] OTHER -> "processing"

YouTubeStatus(name) ==
    CASE name = "processed" -> "published"
      [] name \in {"none", "failed", "rejected", "deleted"} -> "failed"
      [] OTHER -> "processing"

GoogleBusinessStatus(name) ==
    CASE name \in {"LIVE", "RECURRING"} -> "published"
      [] name = "REJECTED" -> "failed"
      [] OTHER -> "processing"

MockStatus(name) ==
    CASE name = "none" -> "failed"
      [] name = "taken" -> "processing"
      [] OTHER -> "published"

Status(p, name) ==
    CASE p = "tiktok" -> TikTokStatus(name)
      [] p = "youtube" -> YouTubeStatus(name)
      [] p = "google_business_profile" -> GoogleBusinessStatus(name)
      [] OTHER -> MockStatus(name)

(* What a poll concludes.  Publisher has the statement that records it,    *)
(* which the database refuses: its lease id is empty.                      *)
PollStatus ==
    /\ verdict = "processing"
    /\ \/ \E name \in Names(job.provider, posts[adopted]) :
             verdict' = Status(job.provider, name)
       \/ May("slow_processing") /\ verdict' = "failed"
    /\ UNCHANGED << job, attempt, todo, container, recorded, posts, adopted,
                    refused, masked >>

Worker ==
    \/ Begin \/ CallReturns \/ CreateContainer \/ WaitForContainer
    \/ RecordPrepared \/ Publish
    \/ CallFails \/ CallFailsQuietly \/ AnswerIsLost
    \/ FindPossibleDuplicate \/ PollStatus

Next == Worker \/ ContainerMoves \/ PostSettles

(* Queue messages are delivered, every wait has a budget, and a provider   *)
(* ends its processing.                                                    *)
Spec == Init /\ [][Next]_vars /\ WF_vars(Worker) /\ WF_vars(PostSettles)

(* ------------------------------- properties ---------------------------- *)
TypeOK ==
    /\ job \in Jobs
    /\ attempt \in 0 .. MaxAttempts
    /\ todo \in Seq(Call)
    /\ container \in [ Attempts -> ContainerStatus \cup {"none", "NEW"} ]
    /\ recorded \in 0 .. MaxAttempts
    /\ posts \in [ Post -> {"none", "taken", "live", "removed"} ]
    /\ verdict \in { "working", "processing", "published", "retry", "blocked",
                     "failed", "unknown", "escalated" }
    /\ adopted \in Post \cup {NoPost}
    /\ refused \in BOOLEAN
    /\ masked \subseteq Attempts

Ours == { n \in Attempts : posts[n] \in {"taken", "live"} }

(* No provider ever holds two posts of one target, whatever its answers to *)
(* the attempts (ADR-006: effectively once), but for the posts it took     *)
(* while it answered with a 5xx, without an id or not at all: these the    *)
(* adapters call unavailable, and what is unavailable is tried again.      *)
OneLivePost == \A m, n \in Ours \ masked : m = n

(* A target that is retried, blocked or failed has no post at the          *)
(* provider, but one that hides behind such an error: no timeout is taken  *)
(* for a refusal, whichever call it struck, and no search concludes from a *)
(* page, a container or its own words that a post is absent when it is     *)
(* there.                                                                  *)
RefusedIsNotLive ==
    verdict \in {"retry", "blocked", "failed"} => Ours \subseteq masked

(* A target said to be published carries the id of a post of its own that  *)
(* is there to see, and not that of another post of the destination.       *)
PublishedIsOurs == verdict = "published" => adopted \in Ours

(* A customer is asked to reconnect only because the provider refused the  *)
(* credentials.                                                            *)
BlockedIsDeserved == verdict = "blocked" => refused

(* Every job is decided, or left to a person where its provider has no     *)
(* search: no call, container or poll is waited on for ever.               *)
EveryJobSettles ==
    <>(\/ verdict \in {"published", "blocked", "failed", "escalated"}
       \/ verdict = "unknown" /\ ~Searchable)
=============================================================================
