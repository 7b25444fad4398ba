---------------------------- MODULE AdaptersProofs ----------------------------
(***************************************************************************)
(* What the thirteen adapters promise, proved for any choice of them, any  *)
(* number of attempts and any of the surprises in ToleratedFaults.  The    *)
(* tables (what an answer is called, what a search concludes) are taken    *)
(* apart provider by provider; what connects them is an account of where   *)
(* an attempt is when a call fails.                                        *)
(***************************************************************************)
EXTENDS MCAdapters, SequenceTheorems, TLAPS

(* Every adapter may mistake an accepted post for an outage; the other     *)
(* surprises that strike are ones the adapter withstands.                  *)
Tolerated == Faults \subseteq ToleratedFaults

Contained == { "instagram", "threads" }
Fetchers == { "bluesky", "discord", "linkedin", "pinterest", "x", "youtube" }

Alive == { "taken", "live" }

(* ---------------------------- the calls ahead -------------------------- *)
Has(q, c) == \E i \in 1 .. Len(q) : q[i] = c

Before(q, c, d) ==
    \A i, j \in 1 .. Len(q) : q[i] = c /\ q[j] = d => i < j

(* Where the post is made: the last call, but for a permalink.             *)
PublishAt(q) == IF q[Len(q)] = "try" THEN Len(q) - 1 ELSE Len(q)

Planned(q, p) ==
    /\ q \in Seq(Call) /\ PublishAt(q) >= 1
    /\ \A i \in 1 .. Len(q) : q[i] = "publish" <=> i = PublishAt(q)
    /\ q[Len(q)] = "try" => p \in Contained
    /\ Has(q, "fetch") => p \in Fetchers
    /\ Before(q, "container", "record") /\ Before(q, "record", "publish")
    /\ Before(q, "container", "publish")

(* ------------------------------- invariant ----------------------------- *)
(* While an attempt is at work nothing of it is posted and `publish' lies  *)
(* ahead, or it is posted and only a permalink is missing.  An unpublished *)
(* container is proof of absence because the id of this attempt's own is   *)
(* recorded before it publishes.                                           *)
AtWork ==
    verdict = "working" =>
        /\ attempt \in Attempts
        /\ \/ /\ Planned(todo, job.provider)
              /\ posts[attempt] = "none"
              /\ job.provider \in Contained =>
                    /\ Has(todo, "record") \/ recorded = attempt
                    /\ Has(todo, "container") \/ container[attempt] # "none"
           \/ /\ todo = << "try" >>
              /\ posts[attempt] = "live"

(* What is at the provider is of the last attempt, or hides behind an      *)
(* error.                                                                  *)
OfLastAttempt ==
    \A n \in Attempts :
        /\ n # attempt /\ posts[n] \in Alive => n \in masked
        /\ n > attempt => posts[n] = "none"

TwinIsAllowed ==
    \/ posts[Twin] = "none"
    \/ /\ posts[Twin] = "live"
       /\ IF job.words THEN May("twin") ELSE May("silent_twin")

PublishedIsRecorded ==
    job.provider \in Contained =>
        \A n \in Attempts :
            n = attempt /\ posts[n] # "none" =>
                recorded = n /\ container[n] = "PUBLISHED"

Verdicts ==
    /\ verdict \in { "retry", "blocked", "failed" } => Ours \subseteq masked
    /\ verdict = "published" => adopted \in Attempts /\ posts[adopted] = "live"
    /\ verdict = "processing" =>
          /\ attempt \in Attempts /\ adopted = attempt
          /\ posts[adopted] \in { "taken", "live", "removed" }
    /\ verdict = "blocked" => refused

TypeInv ==
    TypeOK /\ (verdict = "working" => todo # << >> /\ attempt \in Attempts)

IInv ==
    /\ TypeInv /\ AtWork /\ OfLastAttempt /\ TwinIsAllowed
    /\ PublishedIsRecorded /\ Verdicts

LEMMA AttemptsAreNatural ==
  /\ MaxAttempts \in Nat /\ MaxAttempts >= 1 /\ Twin \notin Attempts
  /\ NoPost \notin Post /\ Attempts \subseteq Nat /\ Twin \in Post
  /\ Attempts \subseteq Post
  BY MaxAttemptsAssumption DEF Twin, Attempts, NoPost, Post

(* --------------------------- what is planned --------------------------- *)
LEMMA ConcatIsPlanned ==
  ASSUME NEW p, NEW q,
         \/ q = << >> \o << "record" >> \o << "publish" >>
         \/ q = << "ask" >> \o << "record" >> \o << "publish" >>
         \/ q = << "ask" >> \o << "record" >> \o << "ask", "mention", "publish" >>
  PROVE  Planned(q, p) /\ Has(q, "record")
  <1>1. CASE q = << >> \o << "record" >> \o << "publish" >>
    BY <1>1 DEF Planned, PublishAt, Has, Before, Call
  <1>2. CASE q = << "ask" >> \o << "record" >> \o << "publish" >>
    BY <1>2 DEF Planned, PublishAt, Has, Before, Call
  <1>3. CASE q = << "ask" >> \o << "record" >>
                   \o << "ask", "mention", "publish" >>
    BY <1>3 DEF Planned, PublishAt, Has, Before, Call
  <1>. QED  BY <1>1, <1>2, <1>3

LEMMA FetchIsPlanned ==
  ASSUME NEW p \in Fetchers, NEW q,
         \/ q = << >> \o << "record" >> \o << "fetch", "publish" >>
         \/ q = << "ask" >> \o << "record" >> \o << "fetch", "publish" >>
         \/ q = << "ask", "fetch", "ask" >> \o << "record" >>
                  \o << "ask", "mention", "publish" >>
         \/ q = << "ask", "fetch", "upload" >> \o << "record" >>
                  \o << "publish" >>
         \/ q = << "ask", "fetch", "upload", "process" >> \o << "record" >>
                  \o << "publish" >>
         \/ q = << "fetch", "ask", "process", "try" >> \o << "record" >>
                  \o << "publish" >>
  PROVE  Planned(q, p) /\ Has(q, "record")
  <1>1. CASE q = << >> \o << "record" >> \o << "fetch", "publish" >>
    BY <1>1 DEF Planned, PublishAt, Has, Before, Call
  <1>2. CASE q = << "ask" >> \o << "record" >> \o << "fetch", "publish" >>
    BY <1>2 DEF Planned, PublishAt, Has, Before, Call
  <1>3. CASE q = << "ask", "fetch", "ask" >> \o << "record" >>
                   \o << "ask", "mention", "publish" >>
    BY <1>3 DEF Planned, PublishAt, Has, Before, Call
  <1>4. CASE q = << "ask", "fetch", "upload" >> \o << "record" >>
                   \o << "publish" >>
    BY <1>4 DEF Planned, PublishAt, Has, Before, Call
  <1>5. CASE q = << "ask", "fetch", "upload", "process" >> \o << "record" >>
                   \o << "publish" >>
    BY <1>5 DEF Planned, PublishAt, Has, Before, Call
  <1>6. CASE q = << "fetch", "ask", "process", "try" >> \o << "record" >>
                   \o << "publish" >>
    BY <1>6 DEF Planned, PublishAt, Has, Before, Call
  <1>. QED  BY <1>1, <1>2, <1>3, <1>4, <1>5, <1>6

LEMMA ContainerIsPlanned ==
  ASSUME NEW p \in Contained, NEW q,
         \/ q = << "limit", "ask", "child", "container", "wait" >>
                  \o << "record" >> \o << "publish", "try" >>
         \/ q = << "limit", "container", "wait" >>
                  \o << "record" >> \o << "publish", "try" >>
         \/ q = << "ask", "child", "container", "wait" >>
                  \o << "record" >> \o << "publish", "try" >>
         \/ q = << "container", "wait" >>
                  \o << "record" >> \o << "publish", "try" >>
  PROVE  Planned(q, p) /\ Has(q, "record") /\ Has(q, "container")
  <1>1. CASE q = << "limit", "ask", "child", "container", "wait" >>
                   \o << "record" >> \o << "publish", "try" >>
    BY <1>1 DEF Planned, PublishAt, Has, Before, Call
  <1>2. CASE q = << "limit", "container", "wait" >>
                   \o << "record" >> \o << "publish", "try" >>
    BY <1>2 DEF Planned, PublishAt, Has, Before, Call
  <1>3. CASE q = << "ask", "child", "container", "wait" >>
                   \o << "record" >> \o << "publish", "try" >>
    BY <1>3 DEF Planned, PublishAt, Has, Before, Call
  <1>4. CASE q = << "container", "wait" >>
                   \o << "record" >> \o << "publish", "try" >>
    BY <1>4 DEF Planned, PublishAt, Has, Before, Call
  <1>. QED  BY <1>1, <1>2, <1>3, <1>4

LEMMA AttemptIsPlanned ==
  ASSUME NEW j, j.provider \in ProviderName
  PROVE  /\ Planned(Attempt(j), j.provider) /\ Has(Attempt(j), "record")
         /\ j.provider \in Contained => Has(Attempt(j), "container")
  <1>. DEFINE q == Attempt(j)
  <1>1. CASE j.provider \in { "facebook", "google_business_profile", "mock",
                              "telegram", "tiktok" }
    <2>1. \/ q = << >> \o << "record" >> \o << "publish" >>
          \/ q = << "ask" >> \o << "record" >> \o << "publish" >>
      BY <1>1 DEF Attempt, Calls, FacebookCalls, GoogleBusinessCalls, MockCalls,
                  TelegramCalls, TikTokCalls
    <2>. QED  BY <1>1, <2>1, ConcatIsPlanned DEF Contained
  <1>2. CASE j.provider \in Contained
    <2>1. \/ q = << "limit", "ask", "child", "container", "wait" >>
                   \o << "record" >> \o << "publish", "try" >>
          \/ q = << "limit", "container", "wait" >>
                   \o << "record" >> \o << "publish", "try" >>
          \/ q = << "ask", "child", "container", "wait" >>
                   \o << "record" >> \o << "publish", "try" >>
          \/ q = << "container", "wait" >>
                   \o << "record" >> \o << "publish", "try" >>
      BY <1>2 DEF Contained, Attempt, Calls, InstagramCalls, ThreadsCalls
    <2>. QED  BY <1>2, <2>1, ContainerIsPlanned
  <1>3. CASE j.provider \in Fetchers
    <2>1. \/ q = << >> \o << "record" >> \o << "publish" >>
          \/ q = << "ask" >> \o << "record" >> \o << "ask", "mention", "publish" >>
          \/ q = << >> \o << "record" >> \o << "fetch", "publish" >>
          \/ q = << "ask" >> \o << "record" >> \o << "fetch", "publish" >>
          \/ q = << "ask", "fetch", "ask" >> \o << "record" >>
                   \o << "ask", "mention", "publish" >>
          \/ q = << "ask", "fetch", "upload" >> \o << "record" >>
                   \o << "publish" >>
          \/ q = << "ask", "fetch", "upload", "process" >> \o << "record" >>
                   \o << "publish" >>
          \/ q = << "fetch", "ask", "process", "try" >> \o << "record" >>
                   \o << "publish" >>
      BY <1>3 DEF Fetchers, Attempt, Calls, BlueskyCalls, DiscordCalls,
                  LinkedInCalls, PinterestCalls, PinterestUpload, XCalls,
                  XUpload, YouTubeCalls
    <2>2. j.provider \notin Contained
      BY <1>3 DEF Fetchers, Contained
    <2>. HIDE DEF q
    <2>3. Planned(q, j.provider) /\ Has(q, "record")
      BY <1>3, <2>1, ConcatIsPlanned, FetchIsPlanned
    <2>. QED  BY <2>2, <2>3 DEF q
  <1>. QED  BY <1>1, <1>2, <1>3 DEF ProviderName, Contained, Fetchers

(* What is left of a plan once its first call has returned.                *)
LEMMA RestIsPlanned ==
  ASSUME NEW p, NEW q, Planned(q, p)
  PROVE  /\ q # << >> /\ Tail(q) \in Seq(Call)
         /\ Head(q) # "publish" => Tail(q) # << >> /\ Planned(Tail(q), p)
         /\ Head(q) = "publish" =>
              \/ Tail(q) = << >>
              \/ Tail(q) = << "try" >> /\ p \in Contained
         /\ \A c : Has(q, c) => Head(q) = c \/ Has(Tail(q), c)
         /\ \A c, d : Before(q, c, d) /\ Head(q) = d => ~Has(q, c)
  <1>. DEFINE r == Tail(q)
  <1>1. q \in Seq(Call) /\ Len(q) \in Nat /\ Len(q) >= 1 /\ q # << >>
    BY DEF Planned, PublishAt
  <1>2. /\ r \in Seq(Call) /\ Len(r) = Len(q) - 1 /\ Head(q) = q[1]
        /\ \A i \in 1 .. Len(r) : r[i] = q[i + 1]
    BY <1>1, HeadTailProperties
  <1>. HIDE DEF r
  <1>3. ASSUME NEW c, NEW d, Before(q, c, d) PROVE Before(r, c, d)
    <2>. SUFFICES ASSUME NEW i \in 1 .. Len(r), NEW k \in 1 .. Len(r),
                         r[i] = c, r[k] = d
                  PROVE  i < k
      BY DEF Before
    <2>1. i + 1 \in 1 .. Len(q) /\ k + 1 \in 1 .. Len(q)
      BY <1>1, <1>2
    <2>2. q[i + 1] = c /\ q[k + 1] = d
      BY <1>2
    <2>. QED  BY <1>3, <2>1, <2>2 DEF Before
  <1>4. ASSUME NEW c, Has(r, c) PROVE Has(q, c)
    <2>1. PICK i \in 1 .. Len(r) : r[i] = c
      BY <1>4 DEF Has
    <2>2. i + 1 \in 1 .. Len(q) /\ q[i + 1] = c
      BY <1>1, <1>2, <2>1
    <2>. QED  BY <2>2 DEF Has
  <1>5. ASSUME NEW c, Has(q, c), Head(q) # c PROVE Has(r, c)
    <2>1. PICK i \in 1 .. Len(q) : q[i] = c
      BY <1>5 DEF Has
    <2>2. i - 1 \in 1 .. Len(r) /\ r[i - 1] = c
      BY <1>1, <1>2, <1>5, <2>1
    <2>. QED  BY <2>2 DEF Has
  <1>6. ASSUME NEW c, NEW d, Before(q, c, d), Head(q) = d PROVE ~Has(q, c)
    BY <1>1, <1>2, <1>6 DEF Before, Has
  <1>7. CASE Head(q) # "publish"
    <2>1. PublishAt(q) >= 2
      BY <1>1, <1>2, <1>7 DEF Planned, PublishAt
    <2>2. Len(r) >= 1 /\ r[Len(r)] = q[Len(q)] /\ r # << >>
      BY <1>1, <1>2, <2>1 DEF PublishAt
    <2>3. PublishAt(r) = PublishAt(q) - 1
      BY <1>1, <1>2, <2>2 DEF PublishAt
    <2>4. \A i \in 1 .. Len(r) : r[i] = "publish" <=> i = PublishAt(r)
      <3>. SUFFICES ASSUME NEW i \in 1 .. Len(r)
                    PROVE  r[i] = "publish" <=> i = PublishAt(r)
        OBVIOUS
      <3>1. i + 1 \in 1 .. Len(q) /\ r[i] = q[i + 1]
        BY <1>1, <1>2
      <3>2. q[i + 1] = "publish" <=> i + 1 = PublishAt(q)
        BY <3>1 DEF Planned
      <3>3. PublishAt(q) \in Int
        BY <1>1 DEF PublishAt
      <3>. QED  BY <2>3, <3>1, <3>2, <3>3
    <2>5. Planned(r, p)
      <3>1. PublishAt(r) >= 1
        BY <1>1, <2>1, <2>3 DEF PublishAt
      <3>2. r[Len(r)] = "try" => p \in Contained
        BY <2>2 DEF Planned
      <3>3. Has(r, "fetch") => p \in Fetchers
        BY <1>4 DEF Planned
      <3>4. /\ Before(r, "container", "record") /\ Before(r, "record", "publish")
            /\ Before(r, "container", "publish")
        BY <1>3 DEF Planned
      <3>. QED  BY <1>2, <2>4, <3>1, <3>2, <3>3, <3>4 DEF Planned
    <2>. QED  BY <1>1, <1>2, <1>5, <1>6, <1>7, <2>2, <2>5 DEF r
  <1>8. CASE Head(q) = "publish"
    <2>1. PublishAt(q) = 1
      BY <1>1, <1>2, <1>8 DEF Planned
    <2>2. CASE q[Len(q)] = "try"
      <3>1. Len(r) = 1 /\ r[1] = "try" /\ p \in Contained
        BY <1>1, <1>2, <2>1, <2>2 DEF PublishAt, Planned
      <3>2. << "try" >> \in Seq(Call)
        BY DEF Call
      <3>3. r = << "try" >>
        BY <1>2, <3>1, <3>2, SeqEqual
      <3>. QED  BY <1>1, <1>2, <1>5, <1>6, <1>8, <3>1, <3>3 DEF r
    <2>3. CASE q[Len(q)] # "try"
      <3>1. r = << >>
        BY <1>1, <1>2, <2>1, <2>3 DEF PublishAt
      <3>. QED  BY <1>1, <1>2, <1>5, <1>6, <1>8, <3>1 DEF r
    <2>. QED  BY <2>2, <2>3
  <1>. QED  BY <1>7, <1>8

(* ------------------------------- the tables ---------------------------- *)
LEMMA TolerancesAreNarrow ==
  ASSUME Tolerated
  PROVE  /\ ~May("unreviewed") /\ ~May("slow_processing")
         /\ ~May("new_status")
         /\ May("late") \/ May("unseen") =>
              job.provider \in { "tiktok", "youtube", "telegram" }
         /\ May("twin") => job.provider \in { "telegram", "mock" }
         /\ May("silent_twin") =>
              job.provider \in { "telegram", "mock", "discord", "tiktok" }
         /\ May("stale_url") =>
              job.provider \in { "mock", "x", "pinterest", "youtube" }
  <1>1. ASSUME NEW kind, May(kind)
        PROVE  \/ /\ kind \in {"late", "unseen"}
                  /\ job.provider \in {"tiktok", "youtube"}
               \/ /\ kind \in {"late", "unseen", "twin", "silent_twin"}
                  /\ job.provider = "telegram"
               \/ /\ kind \in {"twin", "silent_twin", "stale_url"}
                  /\ job.provider = "mock"
               \/ /\ kind = "silent_twin"
                  /\ job.provider \in {"discord", "tiktok"}
               \/ /\ kind = "stale_url"
                  /\ job.provider \in {"x", "pinterest", "youtube"}
               \/ kind = "masked_accept"
    <2>1. << job.provider, kind >> \in ToleratedFaults
      BY <1>1 DEF Tolerated, May
    <2>. QED  BY <2>1 DEF ToleratedFaults
  <1>3. ASSUME May("unreviewed") PROVE FALSE
    BY <1>1, <1>3
  <1>4. ASSUME May("slow_processing") PROVE FALSE
    BY <1>1, <1>4
  <1>5. ASSUME May("new_status") PROVE FALSE
    BY <1>1, <1>5
  <1>6. ASSUME May("late") \/ May("unseen")
        PROVE  job.provider \in { "tiktok", "youtube", "telegram" }
    BY <1>1, <1>6
  <1>7. ASSUME May("twin") PROVE job.provider \in { "telegram", "mock" }
    BY <1>1, <1>7
  <1>8. ASSUME May("silent_twin")
        PROVE  job.provider \in { "telegram", "mock", "discord", "tiktok" }
    BY <1>1, <1>8
  <1>9. ASSUME May("stale_url")
        PROVE  job.provider \in { "mock", "x", "pinterest", "youtube" }
    BY <1>1, <1>9
  <1>. QED  BY <1>3, <1>4, <1>5, <1>6, <1>7, <1>8, <1>9

LEMMA JobIsKnown ==
  ASSUME TypeOK
  PROVE  /\ job.provider \in ProviderName
         /\ job.words \in BOOLEAN /\ job.reads \in BOOLEAN
         /\ job.media = "story" =>
              job.provider = "instagram" /\ (job.words => May("unseen"))
  <1>1. /\ job \in [ provider: Used, media: Medium, words: BOOLEAN,
                     reads: BOOLEAN ]
        /\ job.media \in Media(job.provider)
        /\ job.media = "story" /\ job.words =>
             << job.provider, "unseen" >> \in Faults
    BY DEF TypeOK, Jobs
  <1>2. job.provider \in ProviderName
    BY <1>1, UsedAssumption
  <1>3. job.media = "story" => job.provider = "instagram"
    BY <1>1, <1>2 DEF Media, ProviderName
  <1>. QED  BY <1>1, <1>2, <1>3 DEF May

(* No adapter takes a timeout for a refusal.                               *)
LEMMA TimeoutIsUnknown ==
  ASSUME NEW p \in ProviderName, NEW f, f.status = "timeout", f.reason = "none"
  PROVE  Disposition(NormalizeError(p, f)) = "unknown_reconciliation_required"
  <1>. USE DEF ByReason, ByStatus, Usual
  <1>1. NormalizeError(p, f) = "PROVIDER_TIMEOUT"
    <2>1. CASE p = "bluesky"
      BY <2>1 DEF NormalizeError, BlueskyError
    <2>2. CASE p = "discord"
      BY <2>2 DEF NormalizeError, DiscordError
    <2>3. CASE p \in { "facebook", "instagram", "threads" }
      BY <2>3 DEF NormalizeError, GraphError, ContainerError
    <2>4. CASE p = "google_business_profile"
      BY <2>4 DEF NormalizeError, GoogleBusinessError
    <2>5. CASE p = "linkedin"
      BY <2>5 DEF NormalizeError, LinkedInError
    <2>6. CASE p = "pinterest"
      BY <2>6 DEF NormalizeError, PinterestError
    <2>7. CASE p = "telegram"
      BY <2>7 DEF NormalizeError, TelegramError
    <2>8. CASE p = "tiktok"
      BY <2>8 DEF NormalizeError, TikTokError
    <2>9. CASE p = "x"
      BY <2>9 DEF NormalizeError, XError
    <2>10. CASE p = "youtube"
      BY <2>10 DEF NormalizeError, YouTubeError
    <2>11. CASE p = "mock"
      BY <2>11 DEF NormalizeError, MockError
    <2>. QED  BY <2>1, <2>2, <2>3, <2>4, <2>5, <2>6, <2>7, <2>8, <2>9, <2>10,
                 <2>11 DEF ProviderName
  <1>. QED  BY <1>1 DEF Disposition, Blocking, Retryable, Ambiguous

(* An answer of the provider blocks a connection only if it refuses the    *)
(* credentials, by its status or by the reason it gives.                   *)
LEMMA BlockingAnswersRefuse ==
  ASSUME NEW p \in ProviderName, NEW f,
         f.status \in Statuses, f.reason # "store",
         f.reason \in {"none"} \cup ProviderReasons \cup OwnReasons,
         NormalizeError(p, f) \in Blocking
  PROVE  RefusesCredentials(f)
  <1>. USE DEF ByReason, ByStatus, Usual, Blocking, RefusesCredentials,
               Statuses, Silences, ProviderReasons, OwnReasons
  <1>1. CASE p = "bluesky"
    BY <1>1 DEF NormalizeError, BlueskyError
  <1>2. CASE p = "discord"
    BY <1>2 DEF NormalizeError, DiscordError
  <1>3. CASE p \in { "facebook", "instagram", "threads" }
    BY <1>3 DEF NormalizeError, GraphError, ContainerError
  <1>4. CASE p = "google_business_profile"
    BY <1>4 DEF NormalizeError, GoogleBusinessError
  <1>5. CASE p = "linkedin"
    BY <1>5 DEF NormalizeError, LinkedInError
  <1>6. CASE p = "pinterest"
    BY <1>6 DEF NormalizeError, PinterestError
  <1>7. CASE p = "telegram"
    BY <1>7 DEF NormalizeError, TelegramError
  <1>8. CASE p = "tiktok"
    BY <1>8 DEF NormalizeError, TikTokError
  <1>9. CASE p = "x"
    BY <1>9 DEF NormalizeError, XError
  <1>10. CASE p = "youtube"
    BY <1>10 DEF NormalizeError, YouTubeError
  <1>11. CASE p = "mock"
    BY <1>11 DEF NormalizeError, MockError
  <1>. QED  BY <1>1, <1>2, <1>3, <1>4, <1>5, <1>6, <1>7, <1>8, <1>9, <1>10,
               <1>11 DEF ProviderName

(* Our media store's refusal is not taken for the provider's.              *)
LEMMA StoreBlocksNobody ==
  ASSUME Tolerated, job.provider \in Fetchers, NEW f \in FromStore
  PROVE  NormalizeError(job.provider, f) \notin Blocking
  <1>. USE DEF ByReason, ByStatus, Usual, Blocking
  <1>1. \/ f.status = "thrown" /\ f.reason = "none"
        \/ f.status = "s5xx" /\ f.reason = "store"
        \/ /\ f.reason = "store"
           /\ job.provider \in { "x", "pinterest", "youtube" }
    BY TolerancesAreNarrow DEF FromStore, Fetchers
  <1>2. CASE job.provider = "bluesky"
    BY <1>1, <1>2 DEF NormalizeError, BlueskyError
  <1>3. CASE job.provider = "discord"
    BY <1>1, <1>3 DEF NormalizeError, DiscordError
  <1>4. CASE job.provider = "linkedin"
    BY <1>1, <1>4 DEF NormalizeError, LinkedInError
  <1>5. CASE job.provider = "pinterest"
    BY <1>1, <1>5 DEF NormalizeError, PinterestError
  <1>6. CASE job.provider = "x"
    BY <1>1, <1>6 DEF NormalizeError, XError
  <1>7. CASE job.provider = "youtube"
    BY <1>1, <1>7 DEF NormalizeError, YouTubeError
  <1>. QED  BY <1>2, <1>3, <1>4, <1>5, <1>6, <1>7 DEF Fetchers

LEMMA FailuresAreTyped ==
  ASSUME NEW call, call # "fetch", NEW f \in FailuresOf(call)
  PROVE  /\ f.status \in Statuses /\ f.reason # "store"
         /\ f.reason \in {"none"} \cup ProviderReasons \cup OwnReasons
  <1>1. ASSUME NEW g \in FromProvider
        PROVE  /\ g.status \in Statuses
               /\ g.reason \in {"none"} \cup ProviderReasons
    BY <1>1 DEF FromProvider, Statuses
  <1>2. "store" \notin {"none"} \cup ProviderReasons
    BY DEF ProviderReasons
  <1>3. ASSUME NEW g \in Uploading
        PROVE  g.status \in Statuses /\ g.reason = "upload"
    BY <1>3 DEF Uploading, Statuses
  <1>4. ASSUME NEW g \in FromProcessing \cup FromContainer \cup FromDatabase
        PROVE  \/ g \in FromProvider
               \/ /\ g.status \in Statuses
                  /\ g.reason \in { "none", "media" }
    BY <1>4 DEF FromProcessing, FromContainer, FromDatabase, Statuses, Silences
  <1>5. f \in FromProvider \cup Uploading \cup FromProcessing \cup FromContainer
                \cup FromDatabase
    BY DEF FailuresOf
  <1>. QED  BY <1>1, <1>2, <1>3, <1>4, <1>5 DEF OwnReasons

LEMMA RulingIsAVerdict ==
  ASSUME NEW code
  PROVE  /\ Ruling(code) \in { "retry", "blocked", "failed", "unknown" }
         /\ Ruling(code) = "blocked" => code \in Blocking
         /\ Disposition(code) = "unknown_reconciliation_required" =>
              Ruling(code) = "unknown"
  BY DEF Ruling, Retry, Disposition, Blocking, Retryable, Ambiguous

(* ------------------------------- the search ---------------------------- *)
LEMMA FoundIsSeen ==
  ASSUME NEW p \in ProviderName, NEW e, e.words \in BOOLEAN,
         e.full \in BOOLEAN, e.reads \in BOOLEAN, Search(p, e) = "found"
  PROVE  p \in { "discord", "tiktok" } => e.words
  BY DEF Search, DiscordSearch, TikTokSearch

(* A search concludes that a post is absent only from a whole page of a    *)
(* provider that lists all there is, or from its container.                *)
LEMMA AbsentIsSeen ==
  ASSUME NEW p \in ProviderName, NEW e, e.words \in BOOLEAN,
         e.full \in BOOLEAN, e.reads \in BOOLEAN,
         p = "mock" => ~e.full,
         p # "telegram", Search(p, e) = "absent"
  PROVE  /\ p \notin { "tiktok", "youtube" }
         /\ \/ /\ p \in Contained
               /\ e.container \in { "FINISHED", "IN_PROGRESS" }
            \/ /\ e.matching = {} /\ ~e.full
               /\ p \in Contained => e.words
  <1>1. CASE p = "bluesky"
    BY <1>1 DEF Search, BlueskySearch, Contained
  <1>2. CASE p = "discord"
    BY <1>2 DEF Search, DiscordSearch, Contained
  <1>3. CASE p = "facebook"
    BY <1>3 DEF Search, FacebookSearch, Contained
  <1>4. CASE p = "google_business_profile"
    BY <1>4 DEF Search, GoogleBusinessSearch, Contained
  <1>5. CASE p = "instagram"
    BY <1>5 DEF Search, InstagramSearch, Contained
  <1>6. CASE p = "threads"
    BY <1>6 DEF Search, ThreadsSearch, Contained
  <1>7. CASE p = "linkedin"
    BY <1>7 DEF Search, LinkedInSearch, Contained
  <1>8. CASE p = "pinterest"
    BY <1>8 DEF Search, PinterestSearch, Contained
  <1>9. CASE p = "tiktok"
    BY <1>9 DEF Search, TikTokSearch
  <1>10. CASE p = "x"
    BY <1>10 DEF Search, XSearch, Contained
  <1>11. CASE p = "youtube"
    BY <1>11 DEF Search, YouTubeSearch
  <1>12. CASE p = "mock"
    BY <1>12 DEF Search, MockSearch, Contained
  <1>. QED  BY <1>1, <1>2, <1>3, <1>4, <1>5, <1>6, <1>7, <1>8, <1>9, <1>10,
               <1>11, <1>12 DEF ProviderName

LEMMA EvidenceIsSeen ==
  ASSUME NEW e \in Evidence, job.words \in BOOLEAN, job.reads \in BOOLEAN
  PROVE  /\ e.words = job.words /\ e.words \in BOOLEAN /\ e.reads \in BOOLEAN
         /\ e.full \in BOOLEAN /\ (job.provider = "mock" => ~e.full)
         /\ e.matching \subseteq { n \in Listed : Matches(n) }
         /\ ~e.full /\ ~May("unseen") =>
              e.matching = { n \in Listed : Matches(n) }
         /\ e.container # "none" =>
              /\ recorded # 0
              /\ e.container = ReadContainerStatus(container[recorded])
  <1>. DEFINE M == { n \in Listed : Matches(n) }
              F == IF job.provider = "mock" THEN {FALSE} ELSE BOOLEAN
              C == {"none"} \cup
                  (IF recorded = 0 THEN {}
                   ELSE { ReadContainerStatus(container[recorded]) })
  <1>1. /\ e \in [ matching: SUBSET Post, words: {job.words}, full: F,
                   media: {job.media}, reads: {job.reads}, container: C ]
        /\ IF e.full \/ May("unseen") THEN e.matching \subseteq M
           ELSE e.matching = M
    BY DEF Evidence
  <1>2. e.full \in F /\ e.container \in C /\ e.words = job.words
        /\ e.reads = job.reads
    <2>. HIDE DEF F, C, M
    <2>. QED  BY <1>1
  <1>3. e.full \in BOOLEAN /\ (job.provider = "mock" => ~e.full)
    BY <1>2
  <1>4. e.container # "none" =>
          /\ recorded # 0
          /\ e.container = ReadContainerStatus(container[recorded])
    BY <1>2
  <1>. HIDE DEF F, C, M
  <1>. QED  BY <1>1, <1>2, <1>3, <1>4 DEF M
(* ---------------------------------- types ------------------------------ *)
Verdict ==
    { "working", "processing", "published", "retry", "blocked", "failed",
      "unknown", "escalated" }

LEMMA InitIsTyped == Init => TypeInv
  <1>. SUFFICES ASSUME Init PROVE TypeInv
    OBVIOUS
  <1>1. PICK s \in {"none", "live"} :
          posts = [ n \in Post |-> IF n = Twin THEN s ELSE "none" ]
    BY DEF Init
  <1>2. posts \in [ Post -> {"none", "taken", "live", "removed"} ]
    BY <1>1
  <1>3. << >> \in Seq(Call)
    OBVIOUS
  <1>4. container \in [ Attempts -> ContainerStatus \cup {"none", "NEW"} ]
    BY DEF Init
  <1>5. job \in Jobs /\ todo = << >> /\ verdict = "retry" /\ adopted = NoPost
        /\ refused = FALSE /\ masked = {}
    BY DEF Init
  <1>6. attempt \in 0 .. MaxAttempts /\ recorded \in 0 .. MaxAttempts
    BY AttemptsAreNatural DEF Init
  <1>. QED  BY <1>2, <1>3, <1>4, <1>5, <1>6 DEF TypeInv, TypeOK

LEMMA GoOnIsTyped ==
  ASSUME TypeInv, verdict = "working", GoOn
  PROVE  /\ todo' \in Seq(Call) /\ (verdict' = "working" => todo' # << >>)
         /\ verdict' \in Verdict /\ adopted' \in Post \cup {NoPost}
  <1>1. todo \in Seq(Call) /\ todo # << >>
    BY DEF TypeInv, TypeOK
  <1>2. Tail(todo) \in Seq(Call)
    BY <1>1, HeadTailProperties
  <1>3. attempt \in Post \cup {NoPost}
    BY AttemptsAreNatural DEF TypeInv, TypeOK, Attempts, Post, NoPost
  <1>4. CASE Tail(todo) # << >>
    BY <1>2, <1>4 DEF GoOn, TypeInv, TypeOK, Verdict
  <1>5. CASE Tail(todo) = << >>
    BY <1>2, <1>3, <1>5 DEF GoOn, Verdict
  <1>. QED  BY <1>4, <1>5

LEMMA ContainerStaysTyped ==
  ASSUME TypeOK, NEW n,
         NEW s \in ContainerStatus \cup {"none", "NEW"},
         container' = [ container EXCEPT ![n] = s ]
  PROVE  container' \in [ Attempts -> ContainerStatus \cup {"none", "NEW"} ]
  BY DEF TypeOK

LEMMA PublishedContainerIsTyped ==
  ASSUME TypeOK,
         container' = [ container EXCEPT ![attempt] =
                          IF @ = "none" THEN "none" ELSE "PUBLISHED" ]
  PROVE  container' \in [ Attempts -> ContainerStatus \cup {"none", "NEW"} ]
  BY ContainerStaysTyped DEF ContainerStatus

LEMMA PostStaysTyped ==
  ASSUME TypeOK, NEW n, NEW s \in {"none", "taken", "live", "removed"},
         posts' = [ posts EXCEPT ![n] = s ]
  PROVE  posts' \in [ Post -> {"none", "taken", "live", "removed"} ]
  BY DEF TypeOK

LEMMA TakesIsTyped ==
  ASSUME NEW p
  PROVE  /\ Takes(p) \subseteq Alive
         /\ p \in Contained => Takes(p) = {"live"}
  BY DEF Takes, Alive, Contained

(* The steps of an attempt that go on.                                     *)
LEMMA GoingOnIsTyped ==
  ASSUME TypeInv,
         CallReturns \/ CreateContainer \/ WaitForContainer \/ RecordPrepared
           \/ CallFailsQuietly
  PROVE  TypeInv'
  <1>1. verdict = "working" /\ GoOn /\ UNCHANGED << job, attempt, posts, refused, masked >>
    BY DEF CallReturns, CreateContainer, WaitForContainer, RecordPrepared,
           CallFailsQuietly, Calling
  <1>2. container' \in [ Attempts -> ContainerStatus \cup {"none", "NEW"} ]
    <2>1. CASE CreateContainer
      BY <2>1, ContainerStaysTyped DEF CreateContainer, ContainerStatus, TypeInv
    <2>2. CASE ~CreateContainer
      BY <2>2 DEF CallReturns, WaitForContainer, RecordPrepared,
                  CallFailsQuietly, TypeInv, TypeOK
    <2>. QED  BY <2>1, <2>2
  <1>3. recorded' \in 0 .. MaxAttempts
    BY DEF CallReturns, CreateContainer, WaitForContainer, RecordPrepared,
           CallFailsQuietly, TypeInv, TypeOK
  <1>. QED  BY <1>1, <1>2, <1>3, GoOnIsTyped DEF TypeInv, TypeOK, Verdict

LEMMA PublishIsTyped ==
  ASSUME TypeInv, Publish
  PROVE  TypeInv'
  <1>1. /\ verdict = "working" /\ GoOn
        /\ UNCHANGED << job, attempt, recorded, refused, masked >>
    BY DEF Publish, Calling
  <1>2. PICK s \in Takes(job.provider) : posts' = [ posts EXCEPT ![attempt] = s ]
    BY DEF Publish
  <1>3. s \in {"none", "taken", "live", "removed"}
    BY TakesIsTyped DEF Alive
  <1>4. posts' \in [ Post -> {"none", "taken", "live", "removed"} ]
    BY <1>2, <1>3, PostStaysTyped DEF TypeInv
  <1>5. container' \in [ Attempts -> ContainerStatus \cup {"none", "NEW"} ]
    BY PublishedContainerIsTyped DEF Publish, TypeInv
  <1>. QED  BY <1>1, <1>4, <1>5, GoOnIsTyped DEF TypeInv, TypeOK, Verdict

LEMMA FailureIsTyped ==
  ASSUME TypeInv, CallFails \/ AnswerIsLost
  PROVE  TypeInv'
  <1>1. << >> \in Seq(Call) /\ todo' = << >>
    BY DEF CallFails, AnswerIsLost
  <1>2. verdict' \in { "retry", "blocked", "failed", "unknown" }
    BY RulingIsAVerdict DEF CallFails, AnswerIsLost
  <1>3. refused' \in BOOLEAN
    BY DEF CallFails, AnswerIsLost, RefusesCredentials, TypeInv, TypeOK
  <1>4. posts' \in [ Post -> {"none", "taken", "live", "removed"} ]
    <2>1. CASE CallFails
      BY <2>1 DEF CallFails, TypeInv, TypeOK
    <2>2. CASE AnswerIsLost
      <3>1. PICK s \in Takes(job.provider)
                         \cup (IF May("late") THEN {"taken"} ELSE {}) :
              posts' = [ posts EXCEPT ![attempt] = s ]
        BY <2>2 DEF AnswerIsLost
      <3>2. s \in {"none", "taken", "live", "removed"}
        BY TakesIsTyped DEF Alive
      <3>. QED  BY <3>1, <3>2, PostStaysTyped DEF TypeInv
    <2>. QED  BY <2>1, <2>2
  <1>5. container' \in [ Attempts -> ContainerStatus \cup {"none", "NEW"} ]
    BY PublishedContainerIsTyped DEF CallFails, AnswerIsLost, TypeInv, TypeOK
  <1>6. UNCHANGED << job, attempt, recorded, adopted >>
    BY DEF CallFails, AnswerIsLost
  <1>7. masked' \subseteq Attempts
    BY DEF CallFails, AnswerIsLost, Calling, TypeInv, TypeOK
  <1>. QED  BY <1>1, <1>2, <1>3, <1>4, <1>5, <1>6, <1>7 DEF TypeInv, TypeOK

LEMMA BeginIsTyped ==
  ASSUME TypeInv, Begin
  PROVE  TypeInv'
  <1>1. attempt' \in 0 .. MaxAttempts /\ attempt' \in Attempts
    BY AttemptsAreNatural DEF Begin, TypeInv, TypeOK, Attempts
  <1>2. Planned(Attempt(job), job.provider)
    BY JobIsKnown, AttemptIsPlanned DEF TypeInv
  <1>3. todo' \in Seq(Call) /\ todo' # << >>
    BY <1>2, RestIsPlanned DEF Begin, Planned
  <1>. QED  BY <1>1, <1>3 DEF Begin, TypeInv, TypeOK

LEMMA SearchIsTyped ==
  ASSUME TypeInv, FindPossibleDuplicate
  PROVE  TypeInv'
  <1>1. PICK e \in Evidence :
          LET conclusion == Search(job.provider, e) IN
          \/ /\ conclusion = "found" /\ verdict' = "published"
             /\ adopted' \in e.matching
          \/ /\ conclusion = "absent" /\ verdict' = Retry
             /\ UNCHANGED adopted
          \/ /\ conclusion = "indeterminate" /\ verdict' = "escalated"
             /\ UNCHANGED adopted
    BY DEF FindPossibleDuplicate
  <1>2. e.matching \subseteq Post
    BY JobIsKnown, EvidenceIsSeen DEF TypeInv, Listed
  <1>3. /\ verdict' \in { "published", "retry", "failed", "escalated" }
        /\ adopted' \in Post \cup {NoPost}
    BY <1>1, <1>2 DEF Retry, TypeInv, TypeOK
  <1>. QED  BY <1>3 DEF FindPossibleDuplicate, TypeInv, TypeOK

LEMMA PollIsTyped ==
  ASSUME TypeInv, PollStatus
  PROVE  TypeInv'
  <1>1. ASSUME NEW p, NEW name
        PROVE  Status(p, name) \in { "published", "failed", "processing" }
    BY DEF Status, TikTokStatus, YouTubeStatus, GoogleBusinessStatus, MockStatus
  <1>2. verdict' \in { "published", "failed", "processing" }
    BY <1>1 DEF PollStatus
  <1>. QED  BY <1>2 DEF PollStatus, TypeInv, TypeOK

LEMMA ProviderIsTyped ==
  ASSUME TypeInv, ContainerMoves \/ PostSettles
  PROVE  TypeInv'
  <1>1. CASE ContainerMoves
    <2>1. PICK n \in Attempts, s \in ContainerStatus \cup {"NEW"} :
            container' = [ container EXCEPT ![n] = s ]
      BY <1>1 DEF ContainerMoves
    <2>2. container' \in [ Attempts -> ContainerStatus \cup {"none", "NEW"} ]
      BY <2>1, ContainerStaysTyped DEF TypeInv
    <2>. QED  BY <1>1, <2>2 DEF ContainerMoves, TypeInv, TypeOK
  <1>2. CASE PostSettles
    <2>1. PICK n \in Attempts, s \in {"live", "removed"} :
            posts' = [ posts EXCEPT ![n] = s ]
      BY <1>2 DEF PostSettles
    <2>2. posts' \in [ Post -> {"none", "taken", "live", "removed"} ]
      BY <2>1, PostStaysTyped DEF TypeInv
    <2>. QED  BY <1>2, <2>2 DEF PostSettles, TypeInv, TypeOK
  <1>. QED  BY <1>1, <1>2

LEMMA StepIsTyped == TypeInv /\ [Next]_vars => TypeInv'
  <1>. SUFFICES ASSUME TypeInv, [Next]_vars PROVE TypeInv'
    OBVIOUS
  <1>1. CASE Next
    BY <1>1, GoingOnIsTyped, PublishIsTyped, FailureIsTyped, BeginIsTyped,
       SearchIsTyped, PollIsTyped, ProviderIsTyped DEF Next, Worker
  <1>2. CASE UNCHANGED vars
    BY <1>2 DEF vars, TypeInv, TypeOK
  <1>. QED  BY <1>1, <1>2

(* ------------------------- the steps of an attempt --------------------- *)
LEMMA InitHolds == Init => IInv
  <1>. SUFFICES ASSUME Init PROVE IInv
    OBVIOUS
  <1>1. PICK s \in {"none"} \cup
               (IF (IF job.words THEN May("twin") ELSE May("silent_twin"))
                THEN {"live"} ELSE {}) :
          posts = [ n \in Post |-> IF n = Twin THEN s ELSE "none" ]
    BY DEF Init
  <1>2. \A n \in Attempts : posts[n] = "none"
    BY <1>1, AttemptsAreNatural
  <1>3. posts[Twin] = s
    BY <1>1, AttemptsAreNatural
  <1>4. TwinIsAllowed
    BY <1>1, <1>3 DEF TwinIsAllowed
  <1>5. AtWork /\ OfLastAttempt /\ PublishedIsRecorded /\ Verdicts
    BY <1>2 DEF Init, AtWork, OfLastAttempt, PublishedIsRecorded, Verdicts,
                Ours, Alive
  <1>. QED  BY <1>4, <1>5, InitIsTyped DEF IInv

LEMMA BeginKeeps ==
  ASSUME IInv, Begin
  PROVE  IInv'
  <1>1. /\ verdict = "retry" /\ attempt' = attempt + 1
        /\ todo' = Attempt(job) /\ verdict' = "working"
        /\ attempt < MaxAttempts
        /\ UNCHANGED << job, container, recorded, posts, adopted, masked >>
    BY DEF Begin
  <1>2. attempt \in 0 .. MaxAttempts /\ attempt' \in Attempts
    BY <1>1, AttemptsAreNatural DEF IInv, TypeInv, TypeOK, Attempts
  <1>3. \A n \in Attempts : posts[n] \in Alive => n \in masked
    BY <1>1 DEF IInv, Verdicts, Ours, Alive
  <1>4. posts[attempt'] = "none"
    BY <1>1, <1>2 DEF IInv, OfLastAttempt
  <1>5. OfLastAttempt'
    <2>. SUFFICES ASSUME NEW n \in Attempts
                  PROVE  /\ posts[n] \in Alive => n \in masked
                         /\ n > attempt' => posts[n] = "none"
      BY <1>1 DEF OfLastAttempt
    <2>1. n > attempt' => n > attempt
      BY <1>1, <1>2, AttemptsAreNatural
    <2>. QED  BY <1>3, <2>1 DEF IInv, OfLastAttempt
  <1>6. AtWork'
    BY <1>1, <1>2, <1>4, JobIsKnown, AttemptIsPlanned
       DEF AtWork, IInv, TypeInv
  <1>7. PublishedIsRecorded'
    BY <1>1, <1>4 DEF PublishedIsRecorded
  <1>8. TwinIsAllowed' /\ Verdicts'
    BY <1>1 DEF IInv, TwinIsAllowed, Verdicts, May
  <1>. QED  BY <1>5, <1>6, <1>7, <1>8, BeginIsTyped DEF IInv

(* A call that leaves nothing behind at the provider, or a container: the  *)
(* attempt goes on, or was only waiting for the permalink.                 *)
LEMMA GoingOnKeeps ==
  ASSUME IInv,
         CallReturns \/ CreateContainer \/ WaitForContainer \/ RecordPrepared
           \/ CallFailsQuietly
  PROVE  IInv'
  <1>1. verdict = "working" /\ GoOn /\ UNCHANGED << job, attempt, posts, refused, masked >>
    BY DEF CallReturns, CreateContainer, WaitForContainer, RecordPrepared,
           CallFailsQuietly, Calling
  <1>2. /\ \/ /\ Head(todo) \notin { "container", "record", "publish" }
              /\ UNCHANGED << container, recorded >>
           \/ /\ Head(todo) = "container" /\ UNCHANGED recorded
              /\ container' = [ container EXCEPT ![attempt] = "IN_PROGRESS" ]
           \/ /\ Head(todo) = "record" /\ UNCHANGED container
              /\ recorded' = IF container[attempt] = "none" THEN recorded
                             ELSE attempt
    BY DEF CallReturns, CreateContainer, WaitForContainer, RecordPrepared,
           CallFailsQuietly, Calling, Swallowed
  <1>3. attempt \in Attempts
    BY <1>1 DEF IInv, AtWork
  <1>4. TypeInv'
    BY GoingOnIsTyped DEF IInv
  <1>5. OfLastAttempt' /\ TwinIsAllowed'
    BY <1>1 DEF IInv, OfLastAttempt, TwinIsAllowed, May
  <1>6. CASE todo = << "try" >> /\ posts[attempt] = "live"
    <2>1. Head(todo) = "try" /\ Tail(todo) = << >>
      BY <1>6
    <2>2. UNCHANGED << container, recorded >>
      BY <1>2, <2>1
    <2>3. verdict' = "published" /\ adopted' = attempt
      BY <1>1, <1>6, <2>1 DEF GoOn
    <2>4. AtWork' /\ Verdicts'
      BY <1>1, <1>3, <1>6, <2>3 DEF AtWork, Verdicts
    <2>5. PublishedIsRecorded'
      BY <1>1, <2>2 DEF IInv, PublishedIsRecorded
    <2>. QED  BY <1>4, <1>5, <2>4, <2>5 DEF IInv
  <1>7. CASE /\ Planned(todo, job.provider) /\ posts[attempt] = "none"
             /\ job.provider \in Contained =>
                  /\ Has(todo, "record") \/ recorded = attempt
                  /\ Has(todo, "container") \/ container[attempt] # "none"
    <2>1. Head(todo) # "publish"
      BY <1>2
    <2>2. /\ Tail(todo) # << >> /\ Planned(Tail(todo), job.provider)
          /\ \A c : Has(todo, c) => Head(todo) = c \/ Has(Tail(todo), c)
          /\ \A c, d : Before(todo, c, d) /\ Head(todo) = d => ~Has(todo, c)
      BY <1>7, <2>1, RestIsPlanned
    <2>3. todo' = Tail(todo) /\ UNCHANGED << verdict, adopted >>
      BY <1>1, <2>2 DEF GoOn
    <2>4. container[attempt] # "none" => container'[attempt] # "none"
      BY <1>2, <1>3 DEF IInv, TypeInv, TypeOK
    <2>5. Head(todo) = "container" => container'[attempt] # "none"
      BY <1>2, <1>3 DEF IInv, TypeInv, TypeOK
    <2>6. ASSUME job.provider \in Contained, Head(todo) = "record"
          PROVE  recorded' = attempt
      <3>1. ~Has(todo, "container")
        BY <1>7, <2>2, <2>6 DEF Planned
      <3>. QED  BY <1>2, <1>7, <2>6, <3>1
    <2>7. recorded = attempt => recorded' = attempt
      BY <1>2
    <2>8. AtWork'
      <3>1. job.provider \in Contained =>
              /\ Has(Tail(todo), "record") \/ recorded' = attempt
              /\ Has(Tail(todo), "container") \/ container'[attempt] # "none"
        BY <1>7, <2>2, <2>4, <2>5, <2>6, <2>7
      <3>. QED  BY <1>1, <1>3, <1>7, <2>2, <2>3, <3>1 DEF AtWork
    <2>9. PublishedIsRecorded'
      BY <1>1, <1>7 DEF PublishedIsRecorded
    <2>10. Verdicts'
      BY <1>1, <2>3 DEF Verdicts
    <2>. QED  BY <1>4, <1>5, <2>8, <2>9, <2>10 DEF IInv
  <1>. QED  BY <1>1, <1>6, <1>7 DEF IInv, AtWork

(* The provider takes the post of an attempt: what it holds, and what its  *)
(* container and the recorded id say about it.                             *)
LEMMA TakingIsRecorded ==
  ASSUME IInv, Calling("publish"), NEW s \in Alive,
         posts' = [ posts EXCEPT ![attempt] = s ],
         container' = [ container EXCEPT ![attempt] =
                          IF @ = "none" THEN "none" ELSE "PUBLISHED" ],
         masked \subseteq masked', UNCHANGED << job, attempt, recorded >>
  PROVE  /\ attempt \in Attempts /\ posts'[attempt] = s
         /\ Planned(todo, job.provider)
         /\ OfLastAttempt' /\ TwinIsAllowed' /\ PublishedIsRecorded'
  <1>1. verdict = "working" /\ Head(todo) = "publish" /\ attempt \in Attempts
    BY DEF Calling, IInv, AtWork
  <1>2. /\ Planned(todo, job.provider)
        /\ job.provider \in Contained =>
             /\ Has(todo, "record") \/ recorded = attempt
             /\ Has(todo, "container") \/ container[attempt] # "none"
    <2>1. todo # << "try" >>
      BY <1>1
    <2>. QED  BY <1>1, <2>1 DEF IInv, AtWork
  <1>3. ~Has(todo, "record") /\ ~Has(todo, "container")
    <2>1. Before(todo, "record", "publish") /\ Before(todo, "container", "publish")
      BY <1>2 DEF Planned
    <2>. QED  BY <1>1, <1>2, <2>1, RestIsPlanned
  <1>4. /\ posts'[attempt] = s
        /\ \A n \in Post : n # attempt => posts'[n] = posts[n]
    BY <1>1, AttemptsAreNatural DEF IInv, TypeInv, TypeOK
  <1>5. OfLastAttempt'
    BY <1>1, <1>4, AttemptsAreNatural DEF IInv, OfLastAttempt
  <1>6. TwinIsAllowed'
    BY <1>1, <1>4, AttemptsAreNatural DEF IInv, TwinIsAllowed, May
  <1>7. PublishedIsRecorded'
    BY <1>1, <1>2, <1>3 DEF IInv, TypeInv, TypeOK, PublishedIsRecorded
  <1>. QED  BY <1>1, <1>2, <1>4, <1>5, <1>6, <1>7

LEMMA PublishKeeps ==
  ASSUME IInv, Publish
  PROVE  IInv'
  <1>1. /\ Calling("publish") /\ GoOn
        /\ container' = [ container EXCEPT ![attempt] =
                            IF @ = "none" THEN "none" ELSE "PUBLISHED" ]
        /\ UNCHANGED << job, attempt, recorded, refused, masked >>
    BY DEF Publish
  <1>2. PICK s \in Takes(job.provider) : posts' = [ posts EXCEPT ![attempt] = s ]
    BY DEF Publish
  <1>3. s \in Alive /\ (job.provider \in Contained => s = "live")
    BY TakesIsTyped
  <1>4. /\ attempt \in Attempts /\ posts'[attempt] = s
        /\ Planned(todo, job.provider)
        /\ OfLastAttempt' /\ TwinIsAllowed' /\ PublishedIsRecorded'
    BY <1>1, <1>2, <1>3, TakingIsRecorded
  <1>5. Head(todo) = "publish" /\ verdict = "working"
    BY <1>1 DEF Calling
  <1>6. CASE Tail(todo) = << >>
    <2>1. /\ verdict' = IF s = "taken" THEN "processing" ELSE "published"
          /\ adopted' = attempt
      BY <1>1, <1>4, <1>6 DEF GoOn
    <2>2. AtWork' /\ Verdicts'
      BY <1>1, <1>3, <1>4, <2>1 DEF AtWork, Verdicts, Alive
    <2>. QED  BY <1>4, <2>2, PublishIsTyped DEF IInv
  <1>7. CASE Tail(todo) = << "try" >> /\ job.provider \in Contained
    <2>1. todo' = << "try" >> /\ UNCHANGED << verdict, adopted >>
      BY <1>1, <1>7 DEF GoOn
    <2>2. AtWork' /\ Verdicts'
      BY <1>1, <1>3, <1>4, <1>5, <1>7, <2>1 DEF AtWork, Verdicts
    <2>. QED  BY <1>4, <2>2, PublishIsTyped DEF IInv
  <1>. QED  BY <1>4, <1>5, <1>6, <1>7, RestIsPlanned

LEMMA AnswerIsLostKeeps ==
  ASSUME IInv, Tolerated, AnswerIsLost
  PROVE  IInv'
  <1>1. /\ Calling("publish")
        /\ container' = [ container EXCEPT ![attempt] =
                            IF @ = "none" THEN "none" ELSE "PUBLISHED" ]
        /\ UNCHANGED << job, attempt, recorded, adopted, refused >>
    BY DEF AnswerIsLost
  <1>2. PICK s \in Takes(job.provider)
                     \cup (IF May("late") THEN {"taken"} ELSE {}) :
          posts' = [ posts EXCEPT ![attempt] = s ]
    BY DEF AnswerIsLost
  <1>3. s \in Alive
    BY TakesIsTyped DEF Alive
  <1>4. PICK f \in FailuresOf("publish") :
          /\ MayHide(f)
          /\ verdict' = Ruling(NormalizeError(job.provider, f))
          /\ masked' = IF f.status = "timeout" THEN masked
                       ELSE masked \cup {attempt}
    BY DEF AnswerIsLost
  <1>5. /\ attempt \in Attempts /\ posts'[attempt] = s
        /\ OfLastAttempt' /\ TwinIsAllowed' /\ PublishedIsRecorded'
    BY <1>1, <1>2, <1>3, <1>4, TakingIsRecorded
  <1>6. job.provider \in ProviderName /\ f.reason = "none"
    BY <1>4, JobIsKnown DEF IInv, TypeInv, MayHide
  <1>7. CASE f.status = "timeout"
    <2>1. verdict' = "unknown"
      BY <1>4, <1>6, <1>7, TimeoutIsUnknown, RulingIsAVerdict
    <2>2. AtWork' /\ Verdicts'
      BY <2>1 DEF AtWork, Verdicts
    <2>. QED  BY <1>5, <2>2, FailureIsTyped DEF IInv
  <1>8. CASE f.status # "timeout"
    <2>1. ~RefusesCredentials(f)
      BY <1>4, <1>6, <1>8 DEF MayHide, RefusesCredentials
    <2>2. NormalizeError(job.provider, f) \notin Blocking
      BY <1>6, <2>1, FailuresAreTyped, BlockingAnswersRefuse
    <2>3. verdict' \in { "retry", "failed", "unknown" }
      BY <1>4, <2>2, RulingIsAVerdict
    <2>4. attempt \in masked' /\ attempt' = attempt
      BY <1>1, <1>4, <1>8
    <2>5. Ours' \subseteq masked'
      BY <1>5, <2>4 DEF OfLastAttempt, Ours, Alive
    <2>6. AtWork' /\ Verdicts'
      BY <2>3, <2>5 DEF AtWork, Verdicts
    <2>. QED  BY <1>5, <2>6, FailureIsTyped DEF IInv
  <1>. QED  BY <1>7, <1>8

(* A call that fails fails before there is a post.                         *)
LEMMA CallFailsKeeps ==
  ASSUME IInv, Tolerated, CallFails
  PROVE  IInv'
  <1>1. /\ verdict = "working"
        /\ UNCHANGED << job, attempt, container, recorded, posts, adopted,
                        masked >>
    BY DEF CallFails
  <1>2. PICK f \in FailuresOf(Head(todo)) :
          /\ ~Swallowed(Head(todo), f)
          /\ refused' = RefusesCredentials(f)
          /\ verdict' = Ruling(NormalizeError(job.provider, f))
    BY DEF CallFails
  <1>3. todo # << "try" >>
    BY <1>2 DEF Swallowed
  <1>4. attempt \in Attempts /\ posts[attempt] = "none"
        /\ Planned(todo, job.provider)
    BY <1>1, <1>3 DEF IInv, AtWork
  <1>5. Ours \subseteq masked
    BY <1>4 DEF IInv, OfLastAttempt, Ours, Alive
  <1>6. job.provider \in ProviderName
    BY JobIsKnown DEF IInv, TypeInv
  <1>7. NormalizeError(job.provider, f) \in Blocking => RefusesCredentials(f)
    <2>1. CASE Head(todo) = "fetch"
      <3>1. Has(todo, "fetch")
        <4>1. todo \in Seq(Call) /\ Len(todo) \in Nat /\ Len(todo) >= 1
          BY <1>4 DEF Planned, PublishAt
        <4>2. todo[1] = "fetch" /\ 1 \in 1 .. Len(todo)
          BY <2>1, <4>1
        <4>. QED  BY <4>2 DEF Has
      <3>2. job.provider \in Fetchers
        BY <1>4, <3>1 DEF Planned
      <3>3. f \in FromStore
        BY <1>2, <2>1 DEF FailuresOf
      <3>. QED  BY <3>2, <3>3, StoreBlocksNobody
    <2>2. CASE Head(todo) # "fetch"
      BY <1>2, <1>6, <2>2, FailuresAreTyped, BlockingAnswersRefuse
    <2>. QED  BY <2>1, <2>2
  <1>8. /\ verdict' \in { "retry", "blocked", "failed", "unknown" }
        /\ verdict' = "blocked" => refused'
    BY <1>2, <1>7, RulingIsAVerdict
  <1>9. AtWork' /\ Verdicts'
    BY <1>1, <1>5, <1>8 DEF AtWork, Verdicts, Ours
  <1>10. OfLastAttempt' /\ TwinIsAllowed' /\ PublishedIsRecorded'
    BY <1>1 DEF IInv, OfLastAttempt, TwinIsAllowed, PublishedIsRecorded, May
  <1>. QED  BY <1>9, <1>10, FailureIsTyped DEF IInv

(* ------------------------ searches, polls, providers ------------------- *)
(* What a search finds is a post of the target that is there to see ...    *)
LEMMA FoundIsOurs ==
  ASSUME IInv, Tolerated, Searchable, NEW e \in Evidence,
         Search(job.provider, e) = "found", NEW n \in e.matching
  PROVE  n \in Attempts /\ posts[n] = "live"
  <1>1. /\ job.provider \in ProviderName /\ job.words \in BOOLEAN
        /\ job.reads \in BOOLEAN
    BY JobIsKnown DEF IInv, TypeInv
  <1>2. n \in Listed /\ Matches(n) /\ e.words = job.words /\ e.full \in BOOLEAN
        /\ e.words \in BOOLEAN /\ e.reads \in BOOLEAN
    BY <1>1, EvidenceIsSeen
  <1>3. n \in Post /\ posts[n] = "live"
    BY <1>2, TolerancesAreNarrow DEF Listed
  <1>4. n # Twin
    <2>. SUFFICES ASSUME n = Twin PROVE FALSE
      OBVIOUS
    <2>1. job.provider # "mock" /\ job.provider # "telegram"
      BY <1>2 DEF Matches, Searchable
    <2>2. IF job.words THEN May("twin") ELSE May("silent_twin")
      BY <1>3 DEF IInv, TwinIsAllowed
    <2>3. ~job.words /\ job.provider \in { "discord", "tiktok" }
      BY <2>1, <2>2, TolerancesAreNarrow
    <2>. QED  BY <1>1, <1>2, <2>3, FoundIsSeen
  <1>. QED  BY <1>3, <1>4 DEF Post

(* ... and if it concludes that there is none, there is none it could see. *)
LEMMA AbsentIsTrue ==
  ASSUME IInv, Tolerated, Searchable, NEW e \in Evidence,
         May("late") \/ May("unreviewed") \/ \A n \in Attempts : Settled(n),
         Search(job.provider, e) = "absent"
  PROVE  Ours \subseteq masked
  <1>1. /\ job.provider \in ProviderName /\ job.words \in BOOLEAN
        /\ job.reads \in BOOLEAN
        /\ job.media = "story" =>
             job.provider = "instagram" /\ (job.words => May("unseen"))
    BY JobIsKnown DEF IInv, TypeInv
  <1>2. /\ e.words = job.words /\ e.words \in BOOLEAN /\ e.reads \in BOOLEAN
        /\ e.full \in BOOLEAN /\ (job.provider = "mock" => ~e.full)
        /\ ~e.full /\ ~May("unseen") =>
             e.matching = { n \in Listed : Matches(n) }
        /\ e.container # "none" =>
             /\ recorded # 0
             /\ e.container = ReadContainerStatus(container[recorded])
    BY <1>1, EvidenceIsSeen
  <1>3. /\ job.provider \notin { "tiktok", "youtube", "telegram" }
        /\ \/ /\ job.provider \in Contained
              /\ e.container \in { "FINISHED", "IN_PROGRESS" }
           \/ /\ e.matching = {} /\ ~e.full
              /\ job.provider \in Contained => e.words
    BY <1>1, <1>2, AbsentIsSeen DEF Searchable
  <1>4. ~May("late") /\ ~May("unseen") /\ ~May("unreviewed")
    BY <1>3, TolerancesAreNarrow
  <1>. SUFFICES ASSUME NEW n \in Ours, n \notin masked PROVE FALSE
    OBVIOUS
  <1>5. n \in Attempts /\ posts[n] = "live" /\ n = attempt /\ n # Twin
    BY <1>4, AttemptsAreNatural
       DEF Settled, Ours, IInv, OfLastAttempt, Alive
  <1>6. CASE /\ job.provider \in Contained
             /\ e.container \in { "FINISHED", "IN_PROGRESS" }
    <2>1. recorded = n /\ container[n] = "PUBLISHED"
      BY <1>5, <1>6 DEF IInv, PublishedIsRecorded
    <2>2. e.container = "PUBLISHED"
      BY <1>2, <1>6, <2>1 DEF ReadContainerStatus, ContainerStatus
    <2>. QED  BY <1>6, <2>2
  <1>7. CASE /\ e.matching = {} /\ ~e.full
             /\ job.provider \in Contained => e.words
    <2>1. n \notin Listed
      BY <1>2, <1>4, <1>5, <1>7 DEF Matches
    <2>2. job.media = "story"
      BY <1>5, <2>1, AttemptsAreNatural DEF Listed
    <2>3. job.provider \in Contained /\ ~job.words
      BY <1>1, <1>4, <2>2 DEF Contained
    <2>. QED  BY <1>2, <1>7, <2>3
  <1>. QED  BY <1>3, <1>6, <1>7

LEMMA SearchKeeps ==
  ASSUME IInv, Tolerated, FindPossibleDuplicate
  PROVE  IInv'
  <1>1. /\ Searchable
        /\ May("late") \/ May("unreviewed") \/ \A n \in Attempts : Settled(n)
        /\ UNCHANGED << job, attempt, todo, container, recorded, posts, refused,
                        masked >>
    BY DEF FindPossibleDuplicate
  <1>2. PICK e \in Evidence :
          \/ /\ Search(job.provider, e) = "found" /\ verdict' = "published"
             /\ adopted' \in e.matching
          \/ /\ Search(job.provider, e) = "absent" /\ verdict' = Retry
          \/ verdict' = "escalated"
    BY DEF FindPossibleDuplicate
  <1>3. /\ verdict' \in { "published", "retry", "failed", "escalated" }
        /\ verdict' \in { "retry", "failed" } => Ours \subseteq masked
        /\ verdict' = "published" =>
             adopted' \in Attempts /\ posts[adopted'] = "live"
    BY <1>1, <1>2, FoundIsOurs, AbsentIsTrue DEF Retry
  <1>4. AtWork' /\ Verdicts'
    BY <1>1, <1>3 DEF AtWork, Verdicts, Ours
  <1>5. OfLastAttempt' /\ TwinIsAllowed' /\ PublishedIsRecorded'
    BY <1>1 DEF IInv, OfLastAttempt, TwinIsAllowed, PublishedIsRecorded, May
  <1>. QED  BY <1>4, <1>5, SearchIsTyped DEF IInv

(* What an adapter makes of the state a provider reports.                  *)
LEMMA StatusIsTrue ==
  ASSUME NEW p \in ProviderName, NEW s \in { "taken", "live", "removed" },
         NEW name \in Names(p, s)
  PROVE  /\ Status(p, name) = "published" => s = "live"
         /\ Status(p, name) = "failed" => s = "removed"
         /\ Status(p, name) \in { "published", "failed", "processing" }
  <1>1. CASE p = "tiktok"
    BY <1>1 DEF Names, Status, TikTokStatus
  <1>2. CASE p = "youtube"
    BY <1>2 DEF Names, Status, YouTubeStatus
  <1>3. CASE p = "google_business_profile"
    BY <1>3 DEF Names, Status, GoogleBusinessStatus
  <1>4. CASE p \notin { "tiktok", "youtube", "google_business_profile" }
    BY <1>4 DEF Names, Status, MockStatus
  <1>. QED  BY <1>1, <1>2, <1>3, <1>4

LEMMA PollKeeps ==
  ASSUME IInv, Tolerated, PollStatus
  PROVE  IInv'
  <1>1. /\ verdict = "processing"
        /\ UNCHANGED << job, attempt, todo, container, recorded, posts, adopted,
                        refused, masked >>
    BY DEF PollStatus
  <1>2. /\ attempt \in Attempts /\ adopted = attempt
        /\ posts[adopted] \in { "taken", "live", "removed" }
    BY <1>1 DEF IInv, Verdicts
  <1>3. PICK name \in Names(job.provider, posts[adopted]) :
          verdict' = Status(job.provider, name)
    BY TolerancesAreNarrow DEF PollStatus
  <1>4. /\ verdict' \in { "published", "failed", "processing" }
        /\ verdict' = "published" => posts[adopted] = "live"
        /\ verdict' = "failed" => posts[adopted] = "removed"
    BY <1>2, <1>3, StatusIsTrue, JobIsKnown DEF IInv, TypeInv
  <1>5. verdict' = "failed" => Ours \subseteq masked
    BY <1>2, <1>4 DEF IInv, OfLastAttempt, Ours, Alive
  <1>6. AtWork' /\ Verdicts'
    BY <1>1, <1>2, <1>4, <1>5 DEF AtWork, Verdicts, Ours
  <1>7. OfLastAttempt' /\ TwinIsAllowed' /\ PublishedIsRecorded'
    BY <1>1 DEF IInv, OfLastAttempt, TwinIsAllowed, PublishedIsRecorded, May
  <1>. QED  BY <1>6, <1>7, PollIsTyped DEF IInv

LEMMA ContainerMovesKeeps ==
  ASSUME IInv, Tolerated, ContainerMoves
  PROVE  IInv'
  <1>1. UNCHANGED << job, attempt, todo, recorded, posts, verdict, adopted,
                     refused, masked >>
    BY DEF ContainerMoves
  <1>2. PICK n \in Attempts, s \in ContainerStatus \cup {"NEW"} :
          /\ container[n] \in { "IN_PROGRESS", "FINISHED" }
          /\ container' = [ container EXCEPT ![n] = s ]
    BY TolerancesAreNarrow DEF ContainerMoves
  <1>3. \A k \in Attempts :
          /\ container[k] # "none" => container'[k] # "none"
          /\ container[k] = "PUBLISHED" => container'[k] = "PUBLISHED"
    BY <1>2 DEF ContainerStatus, IInv, TypeInv, TypeOK
  <1>4. AtWork'
    BY <1>1, <1>3 DEF IInv, AtWork
  <1>5. PublishedIsRecorded'
    BY <1>1, <1>3 DEF IInv, PublishedIsRecorded
  <1>6. OfLastAttempt' /\ TwinIsAllowed' /\ Verdicts'
    BY <1>1 DEF IInv, OfLastAttempt, TwinIsAllowed, Verdicts, Ours, May
  <1>. QED  BY <1>4, <1>5, <1>6, ProviderIsTyped DEF IInv

LEMMA PostSettlesKeeps ==
  ASSUME IInv, PostSettles
  PROVE  IInv'
  <1>1. UNCHANGED << job, attempt, todo, container, recorded, verdict, adopted,
                     refused, masked >>
    BY DEF PostSettles
  <1>2. PICK n \in Attempts, s \in {"live", "removed"} :
          posts[n] = "taken" /\ posts' = [ posts EXCEPT ![n] = s ]
    BY DEF PostSettles
  <1>3. \A k \in Post :
          /\ posts'[k] \in Alive => posts[k] \in Alive
          /\ posts[k] = "none" <=> posts'[k] = "none"
          /\ posts[k] = "live" => posts'[k] = "live"
          /\ posts[k] \in { "taken", "live", "removed" } =>
               posts'[k] \in { "taken", "live", "removed" }
          /\ k \notin Attempts => posts'[k] = posts[k]
    BY <1>2 DEF Alive, IInv, TypeInv, TypeOK
  <1>4. \A k \in Attempts : k \in Post
    BY AttemptsAreNatural
  <1>5. AtWork' /\ PublishedIsRecorded'
    BY <1>1, <1>3, <1>4 DEF IInv, AtWork, PublishedIsRecorded
  <1>6. OfLastAttempt'
    BY <1>1, <1>3, <1>4 DEF IInv, OfLastAttempt
  <1>7. TwinIsAllowed'
    BY <1>1, <1>3, AttemptsAreNatural DEF IInv, TwinIsAllowed, May
  <1>8. Ours' \subseteq Ours
    BY <1>3, <1>4 DEF Ours, Alive
  <1>9. Verdicts'
    BY <1>1, <1>3, <1>4, <1>8 DEF IInv, Verdicts
  <1>. QED  BY <1>5, <1>6, <1>7, <1>9, ProviderIsTyped DEF IInv

LEMMA StepKeeps ==
  ASSUME Tolerated
  PROVE  IInv /\ [Next]_vars => IInv'
  <1>. SUFFICES ASSUME IInv, [Next]_vars PROVE IInv'
    OBVIOUS
  <1>1. CASE Next
    BY <1>1, BeginKeeps, GoingOnKeeps, PublishKeeps, AnswerIsLostKeeps,
       CallFailsKeeps, SearchKeeps, PollKeeps, ContainerMovesKeeps,
       PostSettlesKeeps DEF Next, Worker
  <1>2. CASE UNCHANGED vars
    BY <1>2, StepIsTyped
       DEF vars, IInv, AtWork, OfLastAttempt, TwinIsAllowed,
           PublishedIsRecorded, Verdicts, Ours, May
  <1>. QED  BY <1>1, <1>2

LEMMA IInvHolds ==
  ASSUME Tolerated
  PROVE  Spec => []IInv
  <1>1. IInv /\ [Next]_vars => IInv'
    BY StepKeeps
  <1>. QED  BY <1>1, InitHolds, PTL DEF Spec

(* ------------------------------- theorems ------------------------------ *)
(* Whatever a provider answers and whichever surprise strikes, the target, *)
(* its attempts and the provider's books keep their types; an attempt that *)
(* is at work always has a call left to make.                              *)
THEOREM TypeCorrect == Spec => []TypeOK
  <1>1. TypeInv => TypeOK
    BY DEF TypeInv
  <1>. QED  BY <1>1, InitIsTyped, StepIsTyped, PTL DEF Spec

(* For any of the thirteen adapters, any number of attempts and whatever   *)
(* the provider answers: of the posts of one target it holds at most one   *)
(* that does not hide behind a 5xx, an answer without an id or a broken    *)
(* connection (those the adapters call unavailable, and repeat).           *)
THEOREM OneLivePostHolds ==
  ASSUME Tolerated
  PROVE  Spec => []OneLivePost
  <1>1. IInv => OneLivePost
    BY DEF IInv, OfLastAttempt, Ours, Alive, OneLivePost
  <1>. QED  BY <1>1, IInvHolds, PTL

(* A target that is retried, blocked or failed has no post at the          *)
(* provider but those that hide so: no adapter takes a timeout for a       *)
(* refusal, an accepted post is never followed by a request to reconnect,  *)
(* and no search concludes that a post is absent when it is there, not     *)
(* even while an earlier attempt's post is hidden.                         *)
THEOREM RefusedIsNotLiveHolds ==
  ASSUME Tolerated
  PROVE  Spec => []RefusedIsNotLive
  <1>1. IInv => RefusedIsNotLive
    BY DEF IInv, Verdicts, RefusedIsNotLive
  <1>. QED  BY <1>1, IInvHolds, PTL

(* The id of a published target is that of a post of its own that is there *)
(* to see: a search that has a post of the same words to mistake for it,   *)
(* or none to compare, does not conclude `found'.                          *)
THEOREM PublishedIsOursHolds ==
  ASSUME Tolerated
  PROVE  Spec => []PublishedIsOurs
  <1>1. IInv => PublishedIsOurs
    BY DEF IInv, Verdicts, PublishedIsOurs, Ours
  <1>. QED  BY <1>1, IInvHolds, PTL

(* No adapter asks a customer to reconnect unless the provider itself      *)
(* refused the credentials, by status or by reason.                        *)
THEOREM BlockedIsDeservedHolds ==
  ASSUME Tolerated
  PROVE  Spec => []BlockedIsDeserved
  <1>1. IInv => BlockedIsDeserved
    BY DEF IInv, Verdicts, BlockedIsDeserved
  <1>. QED  BY <1>1, IInvHolds, PTL
=============================================================================
