------------------------------ MODULE DraftSets ------------------------------
(***************************************************************************)
(* From an article to a post: ingestion of a source item, its adaptation   *)
(* by a model, the review and edit of the drafts, and their publication    *)
(* through POST /v1/posts and its idempotency key.                         *)
(*   apps/api/src/routes/content.ts, draft-sets.ts, posts.ts               *)
(*   packages/db/src/repositories/content.ts, idempotency.ts               *)
(*   packages/domain/src/content/spans.ts, repurpose.ts,                   *)
(*   untrusted-source.ts                                                   *)
(*                                                                         *)
(* A request reads the set, then posts, then moves the status of the set:  *)
(* three transactions, with other requests in between, and any of them may *)
(* be the last one its isolate lives to make.                              *)
(*                                                                         *)
(* A text is the sequence of its spans, a span the phrase it says, and the *)
(* body of a draft the set of phrases it contains.  Media, titles and the  *)
(* wording around the phrases are left out; every draft has a destination. *)
(***************************************************************************)
EXTENDS Naturals, Sequences, FiniteSets, SequencesExt

CONSTANTS
    Sets,       \* draft sets of one profile, made from one source item
    Drafts,     \* the drafts of a set, one per destination
    Phrases,    \* what a claim may assert
    Texts,      \* the texts the source may have: sequences of phrases
    Answers,    \* drafts the model may return
    Fits,       \* how many spans fit GENERATION_POLICY
    Requests,   \* edits and publications, each made once
    Times       \* values of publish_at

ASSUME TextsAssumption == \A t \in Texts : t \in Seq(Phrases) /\ t # << >>
ASSUME FitsAssumption == Fits \in Nat \ {0}
ASSUME DraftsAssumption == IsFiniteSet(Drafts) /\ Drafts # {}

ClaimKinds == { "fact", "quote" }
RawClaim == [text : Phrases, kind : ClaimKinds, cites : SUBSET (Nat \ {0})]
Claim ==
    [text : Phrases, kind : ClaimKinds, cites : SUBSET (Nat \ {0}),
     verified : BOOLEAN]
Draft == [body : SUBSET Phrases, claims : SUBSET Claim]

ASSUME AnswersAssumption ==
    \A a \in Answers : a.body \in SUBSET Phrases /\ a.claims \in SUBSET RawClaim

Unpublished == { "draft", "ready_for_review", "approved" }
DraftSetStatus == Unpublished \cup { "published", "discarded" }

VARIABLES
    versions,   \* source_item_versions of the item, oldest first
    set,        \* social_draft_sets with their drafts and claims
    keys,       \* idempotency_keys
    posts,      \* the posts made of draft sets, in order
    request     \* PATCH and publish requests and how far they are

vars == << versions, set, keys, posts, request >>

NoSet == [status |-> "none"]
Generating == [status : {"generating"}, text : Texts]
StoredSet ==
    [status : DraftSetStatus, groundingFailed : BOOLEAN,
     drafts : [Drafts -> Draft]]

(* The body of POST /v1/posts, as far as its hash can differ. *)
PostBody ==
    [set : Sets, at : Times,
     targets : UNION { [D -> SUBSET Phrases] : D \in SUBSET Drafts }]

(* Mutant: the key follows the content, so an edited retry is a new request. *)
KeyOfContent(body) ==
    << body.set, Cardinality(UNION { body.targets[d] : d \in DOMAIN body.targets }) >>

KeyOf(body) == << body.set, Cardinality(DOMAIN body.targets) >>

Idle == [at |-> "idle"]
Over == { [at |-> "lost"], [at |-> "answered"], [at |-> "refused"] }
Wishes == { "none", "ready_for_review", "approved", "discarded" }
Editing ==
    [at : {"editing"}, set : Sets, draft : Drafts, body : SUBSET Phrases,
     claims : SUBSET Claim, to : Wishes]
Deciding == [at : {"deciding"}, set : Sets, to : Wishes \ {"none"}]
Posting == [at : {"posting"}, body : PostBody, claims : SUBSET Claim]
Moving == [at : {"moving", "accepted"}, body : PostBody, post : Nat]

Init ==
    /\ versions = << >>
    /\ set = [s \in Sets |-> NoSet]
    /\ keys = {}
    /\ posts = << >>
    /\ request = [r \in Requests |-> Idle]

-----------------------------------------------------------------------------
(* The source.                                                             *)

(* A text that is stored already is not stored again, and keeps the place  *)
(* it had.                                                                 *)
Ingest(t) ==
    /\ t \in Texts
    /\ versions' = IF t \in ToSet(versions) THEN versions
                                            ELSE Append(versions, t)
    /\ UNCHANGED << set, keys, posts, request >>

(* Every claim needs spans that exist, and a quotation its words in one of *)
(* them.                                                                   *)
Grounds(claim, spans) ==
    /\ claim.cites # {}
    /\ claim.cites \subseteq DOMAIN spans
    /\ claim.kind = "quote" => \E c \in claim.cites : spans[c] = claim.text

(* The spans the model was shown: citing one that was cut is citing none.  *)
Visible(text) == SubSeq(text, 1, IF Len(text) < Fits THEN Len(text) ELSE Fits)

Verified(claim, ok) ==
    [text |-> claim.text, kind |-> claim.kind, cites |-> claim.cites,
     verified |-> ok]

TextsOf(claims) == { c.text : c \in claims }

(* Failures are looked up by the text of a claim. *)
Checked(answer, spans) ==
    LET failed == TextsOf({ c \in answer.claims : ~Grounds(c, spans) })
    IN  [body |-> answer.body,
         claims |-> { Verified(c, c.text \notin failed) : c \in answer.claims }]

(* The latest version is read, and the model is asked. *)
Repurpose(s) ==
    /\ set[s] = NoSet
    /\ versions # << >>
    /\ set' = [set EXCEPT ![s] = [status |-> "generating",
                                  text |-> Last(versions)]]
    /\ UNCHANGED << versions, keys, posts, request >>

(* Mutant: the row of the set is written outside the transaction. *)
ModelFailsLate(s) ==
    /\ set[s].status = "generating"
    /\ set' = [set EXCEPT ![s] = [status |-> "draft",
                                  groundingFailed |-> FALSE]]
    /\ UNCHANGED << versions, keys, posts, request >>

(* The model refused, timed out or left a draft out. *)
ModelFails(s) ==
    /\ set[s].status = "generating"
    /\ set' = [set EXCEPT ![s] = NoSet]
    /\ UNCHANGED << versions, keys, posts, request >>

(* The set is written whether or not its claims ground. *)
CreateDraftSet(s) ==
    /\ set[s].status = "generating"
    /\ \E answer \in [Drafts -> Answers] :
         LET drafts ==
               [d \in Drafts |-> Checked(answer[d], Visible(set[s].text))]
         IN  set' = [set EXCEPT ![s] =
               [status |-> "draft", drafts |-> drafts,
                groundingFailed |->
                   \E d \in Drafts : \E c \in drafts[d].claims : ~c.verified]]
    /\ UNCHANGED << versions, keys, posts, request >>

-----------------------------------------------------------------------------
(* PATCH /v1/draft-sets/:id.                                               *)

Stored(s) == set[s].status \in DraftSetStatus

(* The route creates a set without its extraction, so there is never a     *)
(* version to look the spans up in.                                        *)
SourceSpansFor(s) == << >>

(* A claim survives an edit if the new body still says it; whether it is   *)
(* still grounded is asked of the spans of the set, and never as a quote.  *)
Retained(claims, body, spans) ==
    LET kept == { c \in claims : c.text \in body }
        grounded == TextsOf({ c \in kept :
                                Grounds([c EXCEPT !.kind = "fact"], spans) })
    IN  { Verified(c, c.text \in grounded) : c \in kept }

(* Only a published set refuses an edit, and only as of this read.  A       *)
(* request that edits several drafts, each in a transaction of its own, is *)
(* here as many requests that edit one.                                    *)
BeginEdit(r) ==
    /\ request[r] = Idle
    /\ \E s \in Sets, d \in Drafts, body \in SUBSET Phrases, to \in Wishes :
         /\ Stored(s)
         /\ request' = [request EXCEPT ![r] =
              IF set[s].status = "published" THEN [at |-> "refused"]
              ELSE [at |-> "editing", set |-> s, draft |-> d, body |-> body,
                    claims |-> Retained(set[s].drafts[d].claims, body,
                                        SourceSpansFor(s)),
                    to |-> to]]
    /\ UNCHANGED << versions, set, keys, posts >>

(* A request that names no drafts changes the status alone. *)
BeginDecision(r) ==
    /\ request[r] = Idle
    /\ \E s \in Sets, to \in Wishes \ {"none"} :
         /\ Stored(s)
         /\ request' = [request EXCEPT ![r] =
              IF set[s].status = "published" THEN [at |-> "refused"]
              ELSE [at |-> "deciding", set |-> s, to |-> to]]
    /\ UNCHANGED << versions, set, keys, posts >>

(* updateDraft replaces body and claims by its id, whatever the set is now; *)
(* groundingFailed stays what it was.                                      *)
UpdateDraft(r) ==
    /\ request[r].at = "editing"
    /\ LET e == request[r]
       IN  /\ set' = [set EXCEPT ![e.set].drafts[e.draft] =
                        [body |-> e.body, claims |-> e.claims]]
           /\ request' = [request EXCEPT ![r] =
                IF e.to = "none" THEN [at |-> "answered"]
                ELSE [at |-> "deciding", set |-> e.set, to |-> e.to]]
    /\ UNCHANGED << versions, keys, posts >>

AllowedFrom(to) ==
    CASE to = "approved" -> { "draft", "ready_for_review" }
      [] to = "ready_for_review" -> { "draft" }
      [] to \in { "discarded", "published" } -> Unpublished

(* transitionDraftSet: one conditional statement. *)
Decide(r) ==
    /\ request[r].at = "deciding"
    /\ LET q == request[r]
           moved == set[q.set].status \in AllowedFrom(q.to)
       IN  /\ set' = IF moved THEN [set EXCEPT ![q.set].status = q.to] ELSE set
           /\ request' = [request EXCEPT ![r] =
                [at |-> IF moved THEN "answered" ELSE "refused"]]
    /\ UNCHANGED << versions, keys, posts >>

-----------------------------------------------------------------------------
(* POST /v1/draft-sets/:id/publish.                                        *)

(* What stops a publication before it posts. *)
Publishable(s) ==
    /\ set[s].status # "published"
    /\ ~set[s].groundingFailed

BodyOf(s, selected, at) ==
    [set |-> s, at |-> at,
     targets |-> [d \in selected |-> set[s].drafts[d].body]]

BeginPublish(r) ==
    /\ request[r] = Idle
    /\ \E s \in Sets, selected \in SUBSET Drafts \ {{}}, at \in Times :
         /\ Stored(s)
         /\ request' = [request EXCEPT ![r] =
              IF Publishable(s)
              THEN [at |-> "posting", body |-> BodyOf(s, selected, at),
                    claims |-> UNION { set[s].drafts[d].claims : d \in selected }]
              ELSE [at |-> "refused"]]
    /\ UNCHANGED << versions, set, keys, posts >>

(* Mutant: the hash of the request is not compared. *)
ReserveByKey(body) ==
    IF \E k \in keys : k.key = KeyOf(body) THEN "replay" ELSE "reserved"

(* reserveIdempotency.  A reservation commits with its completion, so the  *)
(* row of another request is complete or not there.                        *)
Reserve(body) ==
    LET held == { k \in keys : k.key = KeyOf(body) }
    IN  CASE held = {} -> "reserved"
          [] \E k \in held : k.body = body -> "replay"
          [] OTHER -> "conflict"

Holder(body) == CHOOSE k \in keys : k.key = KeyOf(body)

Moved(r, id) ==
    request' = [request EXCEPT ![r] =
                  [at |-> "moving", body |-> request[r].body, post |-> id]]

(* The transaction of POST /v1/posts: key, post and targets, or none. *)
Post(r) ==
    /\ request[r].at = "posting"
    /\ Reserve(request[r].body) = "reserved"
    /\ LET q == request[r]
           id == Len(posts) + 1
       IN  /\ posts' = Append(posts, [body |-> q.body, claims |-> q.claims])
           /\ keys' = keys \cup
                { [key |-> KeyOf(q.body), body |-> q.body, post |-> id] }
           /\ Moved(r, id)
    /\ UNCHANGED << versions, set >>

Replay(r) ==
    /\ request[r].at = "posting"
    /\ Reserve(request[r].body) = "replay"
    /\ Moved(r, Holder(request[r].body).post)
    /\ UNCHANGED << versions, set, keys, posts >>

(* IDEMPOTENCY_KEY_REUSED, or a preflight that finds a target invalid. *)
PostRefused(r) ==
    /\ request[r].at = "posting"
    /\ request' = [request EXCEPT ![r] = [at |-> "refused"]]
    /\ UNCHANGED << versions, set, keys, posts >>

(* Only after the post exists. *)
MarkPublished(r) ==
    /\ request[r].at = "moving"
    /\ LET s == request[r].body.set
           moved == set[s].status \in AllowedFrom("published")
       IN  /\ set' = IF moved THEN [set EXCEPT ![s].status = "published"]
                              ELSE set
           /\ request' = IF moved THEN [request EXCEPT ![r].at = "accepted"]
                         ELSE [request EXCEPT ![r] = [at |-> "refused"]]
    /\ UNCHANGED << versions, keys, posts >>

-----------------------------------------------------------------------------
(* What happens to any of it.                                              *)

InFlight(r) == request[r].at \in { "editing", "deciding", "posting", "moving" }

(* The isolate dies, or the connection to the database does. *)
Lose(r) ==
    /\ InFlight(r)
    /\ request' = [request EXCEPT ![r] = [at |-> "lost"]]
    /\ UNCHANGED << versions, set, keys, posts >>

(* purgeExpiredIdempotencyKeys, a day after the key was made: it looks at   *)
(* expires_at and at nothing else, so a request that replays the key just  *)
(* before may still be on its way to mark the set.                         *)
Purge(k) ==
    /\ k \in keys
    /\ keys' = keys \ {k}
    /\ UNCHANGED << versions, set, posts, request >>

Next ==
    \/ \E t \in Texts : Ingest(t)
    \/ \E s \in Sets : Repurpose(s) \/ ModelFails(s) \/ CreateDraftSet(s)
    \/ \E r \in Requests :
         \/ BeginEdit(r) \/ BeginDecision(r) \/ UpdateDraft(r) \/ Decide(r)
         \/ BeginPublish(r) \/ Post(r) \/ Replay(r) \/ PostRefused(r)
         \/ MarkPublished(r) \/ Lose(r)
    \/ \E k \in keys : Purge(k)

Spec == Init /\ [][Next]_vars

-----------------------------------------------------------------------------
(* Properties.                                                             *)

(* The rows and requests are as the schema and the handlers make them. *)
TypeOK ==
    /\ versions \in Seq(Texts)
    /\ set \in [Sets -> {NoSet} \cup Generating \cup StoredSet]
    /\ keys \subseteq [key : Sets \X Nat, body : PostBody, post : Nat]
    /\ posts \in Seq([body : PostBody, claims : SUBSET Claim])
    /\ request \in
         [Requests -> {Idle} \cup Over \cup Editing \cup Deciding
                             \cup Posting \cup Moving]

Twins(i, j) ==
    /\ posts[i].body.set = posts[j].body.set
    /\ DOMAIN posts[i].body.targets = DOMAIN posts[j].body.targets

(* Whatever was edited, rescheduled, lost or replayed in between, a         *)
(* selection of drafts is posted a second time only when the day of the    *)
(* key of the first post is over.  Two selections of different sizes have  *)
(* different keys, so they are two posts.                                  *)
PostedOnce ==
    \A i, j \in DOMAIN posts :
        i < j /\ Twins(i, j) => \A k \in keys : k.post # i

(* The post an accepted publication names says what that request read, to  *)
(* the destinations and at the time it asked for, and the set reads        *)
(* published from then on.                                                 *)
AcceptedIsTrue ==
    \A r \in Requests :
        request[r].at = "accepted" =>
            /\ request[r].post \in DOMAIN posts
            /\ posts[request[r].post].body = request[r].body
            /\ set[request[r].body.set].status = "published"

(* `Grounding is a hard gate': no claim is posted that was not traced to   *)
(* the source.  Does not hold: an edit leaves groundingFailed alone.       *)
PublishedIsGrounded ==
    \A i \in DOMAIN posts : \A c \in posts[i].claims : c.verified

=============================================================================
