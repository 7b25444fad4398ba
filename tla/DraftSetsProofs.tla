-------------------------- MODULE DraftSetsProofs --------------------------
(***************************************************************************)
(* Theorems about DraftSets, for any number of sets, drafts and requests.  *)
(***************************************************************************)
EXTENDS DraftSets, FiniteSetTheorems, TLAPS

-----------------------------------------------------------------------------
(* The inductive invariant.                                                *)

(* A key names a post, and the body that post was made of. *)
KeysName ==
    \A k \in keys :
        /\ k.post \in DOMAIN posts
        /\ posts[k.post].body = k.body
        /\ k.key = KeyOf(k.body)

(* The unique index. *)
KeysAreUnique == \A k, l \in keys : k.key = l.key => k = l

(* Whoever has a post has one made of what it read. *)
HoldersRead ==
    \A r \in Requests :
        request[r].at \in { "moving", "accepted" } =>
            /\ request[r].post \in DOMAIN posts
            /\ posts[request[r].post].body = request[r].body

(* A set that was read stays: it is moved on, never taken back. *)
EditedIsStored ==
    \A r \in Requests : request[r].at = "editing" => Stored(request[r].set)

AcceptedIsPublished ==
    \A r \in Requests :
        request[r].at = "accepted" =>
            set[request[r].body.set].status = "published"

IInv ==
    /\ TypeOK
    /\ EditedIsStored
    /\ KeysName
    /\ KeysAreUnique
    /\ HoldersRead
    /\ AcceptedIsPublished
    /\ PostedOnce

-----------------------------------------------------------------------------
(* Shapes.                                                                 *)

PostRow == [body : PostBody, claims : SUBSET Claim]
RequestRow ==
    {Idle} \cup Over \cup Editing \cup Deciding \cup Posting \cup Moving
SetRow == {NoSet} \cup Generating \cup StoredSet

LEMMA RequestShapes ==
    ASSUME NEW q \in RequestRow
    PROVE  /\ q.at = "editing" => q \in Editing
           /\ q.at = "deciding" => q \in Deciding
           /\ q.at = "posting" => q \in Posting
           /\ q.at \in { "moving", "accepted" } => q \in Moving
  BY DEF RequestRow, Idle, Over, Editing, Deciding, Posting, Moving

LEMMA SetShapes ==
    ASSUME NEW x \in SetRow
    PROVE  /\ x.status = "generating" => x \in Generating
           /\ x.status \in DraftSetStatus => x \in StoredSet
  BY DEF SetRow, NoSet, Generating, StoredSet, DraftSetStatus, Unpublished

(* The key of a body is a pair of its set and a number. *)
LEMMA KeyOfType ==
    ASSUME NEW b \in PostBody
    PROVE  KeyOf(b) \in Sets \X Nat
  <1>1. PICK D \in SUBSET Drafts : b.targets \in [D -> SUBSET Phrases]
    BY DEF PostBody
  <1>2. DOMAIN b.targets = D
    BY <1>1
  <1>3. IsFiniteSet(D)
    BY DraftsAssumption, FS_Subset
  <1>4. Cardinality(D) \in Nat
    BY <1>3, FS_CardinalityType
  <1>5. b.set \in Sets
    BY DEF PostBody
  <1> QED
    BY <1>2, <1>4, <1>5 DEF KeyOf

(* Two posts of one set to the same destinations have the same key. *)
LEMMA TwinsShareTheirKey ==
    ASSUME NEW b, NEW c, b.set = c.set, DOMAIN b.targets = DOMAIN c.targets
    PROVE  KeyOf(b) = KeyOf(c)
  BY DEF KeyOf

LEMMA VerifiedType ==
    ASSUME NEW c, c.text \in Phrases, c.kind \in ClaimKinds,
           c.cites \in SUBSET (Nat \ {0}), NEW ok \in BOOLEAN
    PROVE  Verified(c, ok) \in Claim
  BY DEF Verified, Claim

(* What is stored of a model's answer is a draft. *)
LEMMA CheckedType ==
    ASSUME NEW a \in Answers, NEW spans
    PROVE  Checked(a, spans) \in Draft
  <1>1. a.body \in SUBSET Phrases /\ a.claims \in SUBSET RawClaim
    BY AnswersAssumption
  <1>2. \A c \in a.claims, ok \in BOOLEAN : Verified(c, ok) \in Claim
    BY <1>1, VerifiedType DEF RawClaim
  <1> QED
    BY <1>1, <1>2 DEF Checked, Draft

LEMMA RetainedType ==
    ASSUME NEW claims \in SUBSET Claim, NEW body, NEW spans
    PROVE  Retained(claims, body, spans) \in SUBSET Claim
  <1> DEFINE kept == { c \in claims : c.text \in body }
             grounded ==
               TextsOf({ c \in kept : Grounds([c EXCEPT !.kind = "fact"], spans) })
  <1>1. Retained(claims, body, spans) = { Verified(c, c.text \in grounded) : c \in kept }
    BY DEF Retained
  <1> HIDE DEF grounded
  <1>2. \A c \in kept : Verified(c, c.text \in grounded) \in Claim
    BY DEF Verified, Claim
  <1> HIDE DEF kept
  <1> QED
    BY <1>1, <1>2

-----------------------------------------------------------------------------
(* Type correctness.                                                       *)

LEMMA TypeAsRows ==
    TypeOK <=> /\ versions \in Seq(Texts)
               /\ set \in [Sets -> SetRow]
               /\ keys \subseteq [key : Sets \X Nat, body : PostBody, post : Nat]
               /\ posts \in Seq(PostRow)
               /\ request \in [Requests -> RequestRow]
  BY DEF TypeOK, SetRow, PostRow, RequestRow

LEMMA TypeInit == Init => TypeOK
  BY DEF Init, TypeOK

LEMMA StatusChange ==
    ASSUME NEW x \in StoredSet, NEW to \in DraftSetStatus
    PROVE  [x EXCEPT !.status = to] \in StoredSet
  BY DEF StoredSet

(* What a transition moves is a stored set that is neither published nor     *)
(* discarded.                                                              *)
LEMMA AllowedAreStored ==
    ASSUME NEW to \in (Wishes \ {"none"}) \cup {"published"}
    PROVE  /\ AllowedFrom(to) \subseteq Unpublished
           /\ Unpublished \subseteq DraftSetStatus
           /\ to \in DraftSetStatus
  BY DEF AllowedFrom, Unpublished, Wishes, DraftSetStatus

LEMMA DraftChange ==
    ASSUME NEW x \in StoredSet, NEW d \in Drafts, NEW y \in Draft
    PROVE  /\ [x EXCEPT !.drafts[d] = y] \in StoredSet
           /\ [x EXCEPT !.drafts[d] = y].status = x.status
  BY DEF StoredSet

LEMMA BodyOfType ==
    ASSUME NEW s \in Sets, set[s] \in StoredSet, NEW at \in Times,
           NEW selected \in SUBSET Drafts
    PROVE  /\ BodyOf(s, selected, at) \in PostBody
           /\ BodyOf(s, selected, at).set = s
           /\ UNION { set[s].drafts[d].claims : d \in selected }
                \in SUBSET Claim
  <1>1. \A d \in selected : /\ set[s].drafts[d].body \in SUBSET Phrases
                            /\ set[s].drafts[d].claims \in SUBSET Claim
    BY DEF StoredSet, Draft
  <1>2. [d \in selected |-> set[s].drafts[d].body] \in [selected -> SUBSET Phrases]
    BY <1>1
  <1> DEFINE F == [d \in selected |-> set[s].drafts[d].body]
  <1>3. F \in UNION { [D -> SUBSET Phrases] : D \in SUBSET Drafts }
    <2> HIDE DEF F
    <2> QED BY <1>2 DEF F
  <1>4. BodyOf(s, selected, at) \in PostBody
    <2> HIDE DEF F
    <2>1. BodyOf(s, selected, at) = [set |-> s, at |-> at, targets |-> F]
      BY DEF BodyOf, F
    <2> QED BY <2>1, <1>3 DEF PostBody
  <1> QED
    BY <1>1, <1>4 DEF BodyOf

LEMMA TypeStep == TypeOK /\ EditedIsStored /\ [Next]_vars => TypeOK'
  <1> SUFFICES ASSUME TypeOK, EditedIsStored, [Next]_vars PROVE TypeOK'
    OBVIOUS
  <1>t. /\ versions \in Seq(Texts)
        /\ set \in [Sets -> SetRow]
        /\ keys \subseteq [key : Sets \X Nat, body : PostBody, post : Nat]
        /\ posts \in Seq(PostRow)
        /\ request \in [Requests -> RequestRow]
    BY TypeAsRows
  <1> SUFFICES /\ versions' \in Seq(Texts)
               /\ set' \in [Sets -> SetRow]
               /\ keys' \subseteq [key : Sets \X Nat, body : PostBody, post : Nat]
               /\ posts' \in Seq(PostRow)
               /\ request' \in [Requests -> RequestRow]
    BY DEF TypeOK, SetRow, PostRow, RequestRow
  <1>1. ASSUME NEW t \in Texts, Ingest(t) PROVE versions' \in Seq(Texts)
    BY <1>1, <1>t DEF Ingest
  <1>2. ASSUME NEW s \in Sets, Repurpose(s) PROVE set' \in [Sets -> SetRow]
    <2>1. versions[Len(versions)] \in Texts
      <3>1. versions \in Seq(Texts) /\ versions # << >>
        BY <1>2, <1>t DEF Repurpose
      <3>2. Len(versions) \in 1 .. Len(versions)
        BY <3>1
      <3> QED
        BY <3>1, <3>2
    <2>2. Last(versions) \in Texts
      BY <2>1 DEF Last
    <2>3. [status |-> "generating", text |-> Last(versions)] \in SetRow
      BY <2>2 DEF SetRow, Generating
    <2> QED
      BY <1>2, <1>t, <2>3 DEF Repurpose
  <1>3. ASSUME NEW s \in Sets, ModelFails(s) PROVE set' \in [Sets -> SetRow]
    BY <1>3, <1>t DEF ModelFails, SetRow
  <1>4. ASSUME NEW s \in Sets, CreateDraftSet(s) PROVE set' \in [Sets -> SetRow]
    <2>1. PICK answer \in [Drafts -> Answers] :
            set' = [set EXCEPT ![s] =
               [status |-> "draft",
                drafts |-> [d \in Drafts |-> Checked(answer[d], Visible(set[s].text))],
                groundingFailed |->
                   \E d \in Drafts : \E c \in Checked(answer[d], Visible(set[s].text)).claims :
                       ~c.verified]]
      BY <1>4 DEF CreateDraftSet
    <2>2. \A d \in Drafts : Checked(answer[d], Visible(set[s].text)) \in Draft
      BY CheckedType
    <2> DEFINE B == \E d \in Drafts :
                       \E c \in Checked(answer[d], Visible(set[s].text)).claims : ~c.verified
               D == [d \in Drafts |-> Checked(answer[d], Visible(set[s].text))]
    <2>3. D \in [Drafts -> Draft]
      BY <2>2
    <2>4. B \in BOOLEAN
      OBVIOUS
    <2>5. set' = [set EXCEPT ![s] = [status |-> "draft", drafts |-> D, groundingFailed |-> B]]
      BY <2>1
    <2> HIDE DEF B, D
    <2>6. [status |-> "draft", drafts |-> D, groundingFailed |-> B] \in StoredSet
      BY <2>3, <2>4 DEF StoredSet, DraftSetStatus, Unpublished
    <2> QED
      BY <2>5, <2>6, <1>t DEF SetRow
  <1>5. ASSUME NEW r \in Requests, BeginEdit(r)
        PROVE  request' \in [Requests -> RequestRow]
    <2>1. PICK s \in Sets, d \in Drafts, body \in SUBSET Phrases, to \in Wishes :
            /\ Stored(s)
            /\ request' = [request EXCEPT ![r] =
                 IF set[s].status = "published" THEN [at |-> "refused"]
                 ELSE [at |-> "editing", set |-> s, draft |-> d, body |-> body,
                       claims |-> Retained(set[s].drafts[d].claims, body,
                                           SourceSpansFor(s)),
                       to |-> to]]
      BY <1>5 DEF BeginEdit
    <2>2. set[s].drafts[d].claims \in SUBSET Claim
      BY <2>1, <1>t, SetShapes DEF Stored, StoredSet, Draft
    <2>3. Retained(set[s].drafts[d].claims, body, SourceSpansFor(s)) \in SUBSET Claim
      BY <2>2, RetainedType
    <2>4. [at |-> "editing", set |-> s, draft |-> d, body |-> body,
           claims |-> Retained(set[s].drafts[d].claims, body, SourceSpansFor(s)),
           to |-> to] \in RequestRow
      BY <2>3 DEF RequestRow, Editing
    <2>5. [at |-> "refused"] \in RequestRow
      BY DEF RequestRow, Over
    <2> QED
      BY <2>1, <2>4, <2>5, <1>t
  <1>6. ASSUME NEW r \in Requests, BeginDecision(r)
        PROVE  request' \in [Requests -> RequestRow]
    <2>1. \A s \in Sets, to \in Wishes :
            /\ (to # "none" => [at |-> "deciding", set |-> s, to |-> to] \in RequestRow)
            /\ [at |-> "refused"] \in RequestRow
      BY DEF RequestRow, Deciding, Over
    <2> QED
      BY <1>6, <2>1, <1>t DEF BeginDecision
  <1>7. ASSUME NEW r \in Requests, UpdateDraft(r)
        PROVE  /\ set' \in [Sets -> SetRow]
               /\ request' \in [Requests -> RequestRow]
    <2>1. request[r] \in Editing
      BY <1>7, <1>t, RequestShapes DEF UpdateDraft
    <2> DEFINE e == request[r]
               y == [body |-> e.body, claims |-> e.claims]
    <2>2. /\ e.set \in Sets /\ e.draft \in Drafts /\ e.to \in Wishes
          /\ y \in Draft
      BY <2>1 DEF Editing, Draft
    <2>3. set' = [set EXCEPT ![e.set].drafts[e.draft] = y]
      BY <1>7 DEF UpdateDraft
    <2>4. set[e.set] \in StoredSet
      BY <1>7, <1>t, <2>2, SetShapes DEF UpdateDraft, EditedIsStored, Stored
    <2>5. [set[e.set] EXCEPT !.drafts[e.draft] = y] \in SetRow
      BY <2>2, <2>4, DraftChange DEF SetRow
    <2>6. set' = [set EXCEPT ![e.set] = [set[e.set] EXCEPT !.drafts[e.draft] = y]]
      BY <2>3, <2>2, <1>t
    <2>7. set' \in [Sets -> SetRow]
      BY <2>2, <2>5, <2>6, <1>t
    <2>8. /\ [at |-> "answered"] \in RequestRow
          /\ e.to # "none" => [at |-> "deciding", set |-> e.set, to |-> e.to] \in RequestRow
      BY <2>2 DEF RequestRow, Over, Deciding
    <2>9. request' \in [Requests -> RequestRow]
      BY <1>7, <2>8, <1>t DEF UpdateDraft
    <2> QED
      BY <2>7, <2>9
  <1>8. ASSUME NEW r \in Requests, Decide(r)
        PROVE  /\ set' \in [Sets -> SetRow]
               /\ request' \in [Requests -> RequestRow]
    <2> DEFINE q == request[r]
    <2>1. q \in Deciding
      BY <1>8, <1>t, RequestShapes DEF Decide
    <2>2. q.set \in Sets /\ q.to \in Wishes \ {"none"}
      BY <2>1 DEF Deciding
    <2>3. /\ [at |-> "answered"] \in RequestRow
          /\ [at |-> "refused"] \in RequestRow
      BY DEF RequestRow, Over
    <2>4. request' \in [Requests -> RequestRow]
      BY <1>8, <2>3, <1>t DEF Decide
    <2>5. CASE set[q.set].status \in AllowedFrom(q.to)
      <3>1. set[q.set] \in StoredSet /\ q.to \in DraftSetStatus
        BY <2>5, <2>2, <1>t, AllowedAreStored, SetShapes
      <3>2. [set[q.set] EXCEPT !.status = q.to] \in SetRow
        BY <3>1, StatusChange DEF SetRow
      <3>3. set' = [set EXCEPT ![q.set] = [set[q.set] EXCEPT !.status = q.to]]
        BY <1>8, <2>5, <2>2, <1>t DEF Decide
      <3> QED
        BY <3>2, <3>3, <2>2, <2>4, <1>t
    <2>6. CASE set[q.set].status \notin AllowedFrom(q.to)
      BY <1>8, <2>6, <2>4, <1>t DEF Decide
    <2> QED
      BY <2>5, <2>6
  <1>9. ASSUME NEW r \in Requests, BeginPublish(r)
        PROVE  request' \in [Requests -> RequestRow]
    <2>1. PICK s \in Sets, selected \in SUBSET Drafts \ {{}}, at \in Times :
            /\ Stored(s)
            /\ request' = [request EXCEPT ![r] =
                 IF Publishable(s)
                 THEN [at |-> "posting", body |-> BodyOf(s, selected, at),
                       claims |-> UNION { set[s].drafts[d].claims : d \in selected }]
                 ELSE [at |-> "refused"]]
      BY <1>9 DEF BeginPublish
    <2>2. set[s] \in StoredSet
      BY <2>1, <1>t, SetShapes DEF Stored
    <2> DEFINE C == UNION { set[s].drafts[d].claims : d \in selected }
    <2>3. BodyOf(s, selected, at) \in PostBody /\ C \in SUBSET Claim
      BY <2>2, BodyOfType
    <2>4. request' = [request EXCEPT ![r] =
            IF Publishable(s)
            THEN [at |-> "posting", body |-> BodyOf(s, selected, at), claims |-> C]
            ELSE [at |-> "refused"]]
      BY <2>1
    <2> HIDE DEF C
    <2>5. /\ [at |-> "posting", body |-> BodyOf(s, selected, at), claims |-> C]
               \in RequestRow
          /\ [at |-> "refused"] \in RequestRow
      BY <2>3 DEF RequestRow, Posting, Over
    <2> QED
      BY <2>4, <2>5, <1>t
  <1>10. ASSUME NEW r \in Requests, request[r].at = "posting", NEW id \in Nat,
                Moved(r, id)
         PROVE  request' \in [Requests -> RequestRow]
    <2>1. request[r].body \in PostBody
      BY <1>10, <1>t, RequestShapes DEF Posting
    <2>2. [at |-> "moving", body |-> request[r].body, post |-> id] \in RequestRow
      BY <2>1 DEF RequestRow, Moving
    <2> QED
      BY <1>10, <2>2, <1>t DEF Moved
  <1>11. ASSUME NEW r \in Requests, Post(r)
         PROVE  /\ keys' \subseteq [key : Sets \X Nat, body : PostBody, post : Nat]
                /\ posts' \in Seq(PostRow)
                /\ request' \in [Requests -> RequestRow]
    <2> DEFINE q == request[r]
               id == Len(posts) + 1
    <2>1. q \in Posting
      BY <1>11, <1>t, RequestShapes DEF Post
    <2>2. q.body \in PostBody /\ q.claims \in SUBSET Claim
      BY <2>1 DEF Posting
    <2>3. KeyOf(q.body) \in Sets \X Nat
      BY <2>2, KeyOfType
    <2>4. id \in Nat
      BY <1>t
    <2>5. posts' \in Seq(PostRow)
      BY <1>11, <2>2, <1>t DEF Post, PostRow
    <2>6. keys' = keys \cup { [key |-> KeyOf(q.body), body |-> q.body, post |-> id] }
      BY <1>11 DEF Post
    <2>7. request' \in [Requests -> RequestRow]
      BY <1>11, <1>10, <2>4 DEF Post
    <2> QED
      BY <2>2, <2>3, <2>4, <2>5, <2>6, <2>7, <1>t
  <1>12. ASSUME NEW r \in Requests, Replay(r)
         PROVE  request' \in [Requests -> RequestRow]
    <2>1. \E k \in keys : k.key = KeyOf(request[r].body)
      BY <1>12 DEF Replay, Reserve
    <2>2. Holder(request[r].body) \in keys
      BY <2>1 DEF Holder
    <2>3. Holder(request[r].body).post \in Nat
      BY <2>2, <1>t
    <2> QED
      BY <1>12, <1>10, <2>3 DEF Replay
  <1>13. ASSUME NEW r \in Requests, PostRefused(r) \/ Lose(r)
         PROVE  request' \in [Requests -> RequestRow]
    BY <1>13, <1>t DEF PostRefused, Lose, RequestRow, Over
  <1>14. ASSUME NEW r \in Requests, MarkPublished(r)
         PROVE  /\ set' \in [Sets -> SetRow]
                /\ request' \in [Requests -> RequestRow]
    <2> DEFINE s == request[r].body.set
    <2>1. request[r] \in Moving
      BY <1>14, <1>t, RequestShapes DEF MarkPublished
    <2>2. s \in Sets
      BY <2>1 DEF Moving, PostBody
    <2>3. /\ [request[r] EXCEPT !.at = "accepted"] \in RequestRow
          /\ [at |-> "refused"] \in RequestRow
      BY <2>1 DEF RequestRow, Moving, Over
    <2>4. request' \in [Requests -> RequestRow]
      BY <1>14, <2>3, <1>t DEF MarkPublished
    <2>5. CASE set[s].status \in AllowedFrom("published")
      <3>1. set[s] \in StoredSet
        BY <2>5, <2>2, <1>t, AllowedAreStored, SetShapes DEF DraftSetStatus
      <3>2. [set[s] EXCEPT !.status = "published"] \in SetRow
        BY <3>1, StatusChange DEF SetRow, DraftSetStatus
      <3>3. set' = [set EXCEPT ![s] = [set[s] EXCEPT !.status = "published"]]
        BY <1>14, <2>5, <2>2, <1>t DEF MarkPublished
      <3> QED
        BY <3>2, <3>3, <2>2, <2>4, <1>t
    <2>6. CASE set[s].status \notin AllowedFrom("published")
      BY <1>14, <2>6, <2>4, <1>t DEF MarkPublished
    <2> QED
      BY <2>5, <2>6
  <1> QED
    BY <1>t, <1>1, <1>2, <1>3, <1>4, <1>5, <1>6, <1>7, <1>8, <1>9, <1>11,
       <1>12, <1>13, <1>14
    DEF Next, vars, Ingest, Repurpose, ModelFails, CreateDraftSet, BeginEdit,
        BeginDecision, UpdateDraft, Decide, BeginPublish, Post, Replay,
        PostRefused, MarkPublished, Lose, Purge

-----------------------------------------------------------------------------
(* The other parts.                                                        *)

(* What a step may do to the status of a set that was read. *)
LEMMA SetsMoveOn ==
    ASSUME TypeOK, EditedIsStored, [Next]_vars, NEW s \in Sets
    PROVE  /\ Stored(s) => Stored(s)'
           /\ set[s].status = "published" => set'[s].status = "published"
  <1>t. set \in [Sets -> SetRow] /\ request \in [Requests -> RequestRow]
    BY TypeAsRows
  <1>1. ASSUME NEW x \in Sets, Repurpose(x) \/ ModelFails(x) \/ CreateDraftSet(x)
        PROVE  set'[s] = set[s] \/ set[s].status \in { "none", "generating" }
    BY <1>1, <1>t DEF Repurpose, ModelFails, CreateDraftSet, NoSet
  <1>2. ASSUME NEW r \in Requests, UpdateDraft(r)
        PROVE  set'[s].status = set[s].status
    <2> DEFINE e == request[r]
               y == [body |-> e.body, claims |-> e.claims]
    <2>1. e \in Editing
      BY <1>2, <1>t, RequestShapes DEF UpdateDraft
    <2>2. e.set \in Sets /\ e.draft \in Drafts /\ y \in Draft
      BY <2>1 DEF Editing, Draft
    <2>3. set[e.set] \in StoredSet
      BY <1>2, <1>t, <2>2, SetShapes DEF UpdateDraft, EditedIsStored, Stored
    <2>4. set' = [set EXCEPT ![e.set] = [set[e.set] EXCEPT !.drafts[e.draft] = y]]
      BY <1>2, <2>2, <1>t DEF UpdateDraft
    <2>5. [set[e.set] EXCEPT !.drafts[e.draft] = y].status = set[e.set].status
      BY <2>2, <2>3, DraftChange
    <2> QED
      BY <2>2, <2>4, <2>5, <1>t
  <1>3. ASSUME NEW x \in Sets, NEW to \in (Wishes \ {"none"}) \cup {"published"},
               set[x].status \in AllowedFrom(to),
               set' = [set EXCEPT ![x].status = to]
        PROVE  /\ Stored(s) => Stored(s)'
               /\ set[s].status = "published" => set'[s].status = "published"
    <2>1. set[x] \in StoredSet /\ to \in DraftSetStatus
          /\ set[x].status # "published"
      BY <1>3, <1>t, AllowedAreStored, SetShapes DEF Unpublished
    <2>2. set' = [set EXCEPT ![x] = [set[x] EXCEPT !.status = to]]
      BY <1>3, <1>t
    <2>3. [set[x] EXCEPT !.status = to].status = to
      BY <2>1 DEF StoredSet
    <2> QED
      BY <2>1, <2>2, <2>3, <1>t DEF Stored
  <1>4. ASSUME NEW r \in Requests, Decide(r)
        PROVE  /\ Stored(s) => Stored(s)'
               /\ set[s].status = "published" => set'[s].status = "published"
    <2>1. request[r].set \in Sets /\ request[r].to \in Wishes \ {"none"}
      BY <1>4, <1>t, RequestShapes DEF Decide, Deciding
    <2> QED
      BY <1>3, <1>4, <2>1 DEF Decide, Stored
  <1>5. ASSUME NEW r \in Requests, MarkPublished(r)
        PROVE  /\ Stored(s) => Stored(s)'
               /\ set[s].status = "published" => set'[s].status = "published"
    <2>1. request[r].body.set \in Sets
      BY <1>5, <1>t, RequestShapes DEF MarkPublished, Moving, PostBody
    <2> QED
      BY <1>3, <1>5, <2>1 DEF MarkPublished, Stored
  <1>6. ASSUME set' = set
        PROVE  /\ Stored(s) => Stored(s)'
               /\ set[s].status = "published" => set'[s].status = "published"
    BY <1>6 DEF Stored
  <1>7. ASSUME set'[s] = set[s] \/ set[s].status \in { "none", "generating" }
               \/ set'[s].status = set[s].status
        PROVE  /\ Stored(s) => Stored(s)'
               /\ set[s].status = "published" => set'[s].status = "published"
    BY <1>7 DEF Stored, DraftSetStatus, Unpublished
  <1>8. CASE \E x \in Sets : Repurpose(x) \/ ModelFails(x) \/ CreateDraftSet(x)
    BY <1>8, <1>1, <1>7
  <1>9. CASE \E r \in Requests : UpdateDraft(r) \/ Decide(r) \/ MarkPublished(r)
    BY <1>9, <1>2, <1>4, <1>5, <1>7
  <1>10. CASE set' = set
    BY <1>10, <1>6
  <1> QED
    BY <1>8, <1>9, <1>10
    DEF Next, vars, Ingest, BeginEdit, BeginDecision, BeginPublish, Post,
        Replay, PostRefused, Lose, Purge

(* A request is changed by its own steps only. *)
LEMMA BeganThisStep ==
    ASSUME TypeOK, [Next]_vars, NEW r \in Requests
    PROVE  /\ request'[r].at = "editing" =>
                 request[r] = request'[r] \/ Stored(request'[r].set)
           /\ request'[r].at = "posting" =>
                 \/ request[r] = request'[r]
                 \/ /\ set[request'[r].body.set].status # "published"
                    /\ set' = set
           /\ request'[r].at = "moving" =>
                 request[r] = request'[r] \/ Post(r) \/ Replay(r)
           /\ request'[r].at = "accepted" =>
                 request[r] = request'[r] \/ MarkPublished(r)
  <1>t. request \in [Requests -> RequestRow]
    BY TypeAsRows
  <1> DEFINE Same == request'[r] = request[r]
  <1>e. ASSUME NEW q \in Requests, NEW e, request' = [request EXCEPT ![q] = e]
        PROVE  Same \/ (q = r /\ request'[r] = e)
    BY <1>e, <1>t
  <1>1. ASSUME NEW q \in Requests, BeginEdit(q)
        PROVE  Same \/ request'[r].at = "refused"
               \/ (request'[r].at = "editing" /\ Stored(request'[r].set))
    <2>1. PICK s \in Sets, d \in Drafts, body \in SUBSET Phrases, to \in Wishes :
            /\ Stored(s)
            /\ request' = [request EXCEPT ![q] =
                 IF set[s].status = "published" THEN [at |-> "refused"]
                 ELSE [at |-> "editing", set |-> s, draft |-> d, body |-> body,
                       claims |-> Retained(set[s].drafts[d].claims, body,
                                           SourceSpansFor(s)),
                       to |-> to]]
      BY <1>1 DEF BeginEdit
    <2> DEFINE C == Retained(set[s].drafts[d].claims, body, SourceSpansFor(s))
               e == IF set[s].status = "published" THEN [at |-> "refused"]
                    ELSE [at |-> "editing", set |-> s, draft |-> d, body |-> body,
                          claims |-> C, to |-> to]
    <2>2. request' = [request EXCEPT ![q] = e]
      BY <2>1
    <2>3. e.at = "refused" \/ (e.at = "editing" /\ e.set = s)
      <3> HIDE DEF C
      <3> QED OBVIOUS
    <2> HIDE DEF e
    <2>4. Same \/ (q = r /\ request'[r] = e)
      BY <1>e, <2>2
    <2> QED
      BY <2>1, <2>3, <2>4
  <1>2. ASSUME NEW q \in Requests, BeginDecision(q)
        PROVE  Same \/ request'[r].at \in { "refused", "deciding" }
    BY <1>2, <1>t DEF BeginDecision
  <1>3. ASSUME NEW q \in Requests, UpdateDraft(q)
        PROVE  Same \/ request'[r].at \in { "answered", "deciding" }
    BY <1>3, <1>t DEF UpdateDraft
  <1>4. ASSUME NEW q \in Requests, Decide(q)
        PROVE  Same \/ request'[r].at \in { "answered", "refused" }
    BY <1>4, <1>t DEF Decide
  <1>5. ASSUME NEW q \in Requests, BeginPublish(q)
        PROVE  Same \/ request'[r].at = "refused"
               \/ /\ request'[r].at = "posting"
                  /\ set[request'[r].body.set].status # "published"
                  /\ set' = set
    <2>1. PICK s \in Sets, selected \in SUBSET Drafts \ {{}}, at \in Times :
            request' = [request EXCEPT ![q] =
               IF Publishable(s)
               THEN [at |-> "posting", body |-> BodyOf(s, selected, at),
                     claims |-> UNION { set[s].drafts[d].claims : d \in selected }]
               ELSE [at |-> "refused"]]
      BY <1>5 DEF BeginPublish
    <2> DEFINE C == UNION { set[s].drafts[d].claims : d \in selected }
               B == BodyOf(s, selected, at)
               e == IF Publishable(s)
                    THEN [at |-> "posting", body |-> B, claims |-> C]
                    ELSE [at |-> "refused"]
    <2>2. B.set = s
      BY DEF BodyOf
    <2>3. request' = [request EXCEPT ![q] = e]
      BY <2>1
    <2>4. set' = set
      BY <1>5 DEF BeginPublish
    <2>5. \/ e.at = "refused"
          \/ /\ e.at = "posting" /\ e.body = B
             /\ set[s].status # "published"
      <3> HIDE DEF B, C
      <3> QED BY DEF Publishable
    <2> HIDE DEF e, B
    <2>6. Same \/ (q = r /\ request'[r] = e)
      BY <1>e, <2>3
    <2> QED
      BY <2>2, <2>4, <2>5, <2>6
  <1>6. ASSUME NEW q \in Requests, Post(q) \/ Replay(q)
        PROVE  Same \/ (q = r /\ request'[r].at = "moving")
    <2>1. PICK id : Moved(q, id)
      BY <1>6 DEF Post, Replay
    <2> DEFINE e == [at |-> "moving", body |-> request[q].body, post |-> id]
    <2>2. request' = [request EXCEPT ![q] = e]
      BY <2>1 DEF Moved
    <2>3. e.at = "moving"
      OBVIOUS
    <2> HIDE DEF e
    <2>4. Same \/ (q = r /\ request'[r] = e)
      BY <1>e, <2>2
    <2> QED
      BY <2>3, <2>4
  <1>7. ASSUME NEW q \in Requests, PostRefused(q) \/ Lose(q)
        PROVE  Same \/ request'[r].at \in { "refused", "lost" }
    BY <1>7, <1>t DEF PostRefused, Lose
  <1>8. ASSUME NEW q \in Requests, MarkPublished(q)
        PROVE  Same \/ request'[r].at = "refused"
               \/ (q = r /\ request'[r].at = "accepted")
    <2> DEFINE e == [request[q] EXCEPT !.at = "accepted"]
    <2>1. request[q] \in Moving
      BY <1>8, <1>t, RequestShapes DEF MarkPublished
    <2>2. e.at = "accepted"
      BY <2>1 DEF Moving
    <2>3. CASE request' = [request EXCEPT ![q].at = "accepted"]
      <3>1. request' = [request EXCEPT ![q] = e]
        BY <2>3, <1>t
      <3> HIDE DEF e
      <3>2. Same \/ (q = r /\ request'[r] = e)
        BY <1>e, <3>1
      <3> QED
        BY <2>2, <3>2
    <2>4. CASE request' = [request EXCEPT ![q] = [at |-> "refused"]]
      BY <2>4, <1>t
    <2> QED
      BY <1>8, <2>3, <2>4 DEF MarkPublished
  <1>9. ASSUME request' = request PROVE Same
    BY <1>9
  <1> QED
    BY <1>1, <1>2, <1>3, <1>4, <1>5, <1>6, <1>7, <1>8, <1>9
    DEF Next, vars, Ingest, Repurpose, ModelFails, CreateDraftSet, Purge

LEMMA EditedStep ==
    TypeOK /\ EditedIsStored /\ [Next]_vars => EditedIsStored'
  <1> SUFFICES ASSUME TypeOK, EditedIsStored, [Next]_vars,
                      NEW r \in Requests, request'[r].at = "editing"
               PROVE  set'[request'[r].set].status \in DraftSetStatus
    BY DEF EditedIsStored, Stored
  <1>1. /\ request' \in [Requests -> RequestRow]
        /\ request'[r].at = "editing" => request'[r] \in Editing
    <2>1. TypeOK'
      BY TypeStep
    <2>2. request' \in [Requests -> RequestRow]
      BY <2>1 DEF TypeOK, RequestRow
    <2> QED
      BY <2>2, RequestShapes
  <1>2. request'[r].set \in Sets
    BY <1>1 DEF Editing
  <1>3. PICK s \in Sets : s = request'[r].set
    BY <1>2
  <1>4. set[s].status \in DraftSetStatus
    BY <1>3, BeganThisStep DEF EditedIsStored, Stored
  <1>5. set'[s].status \in DraftSetStatus
    BY <1>4, SetsMoveOn DEF Stored
  <1> QED
    BY <1>3, <1>5

(* The rows of the keys and of the posts change in Post and Purge only. *)
LEMMA RowsChange ==
    ASSUME [Next]_vars
    PROVE  \/ keys' \subseteq keys /\ posts' = posts
           \/ \E r \in Requests : Post(r)
  BY DEF Next, vars, Ingest, Repurpose, ModelFails, CreateDraftSet, BeginEdit,
         BeginDecision, UpdateDraft, Decide, BeginPublish, Replay,
         PostRefused, MarkPublished, Lose, Purge

(* What Post adds. *)
LEMMA PostAdds ==
    ASSUME TypeOK, NEW r \in Requests, Post(r)
    PROVE  /\ Len(posts) \in Nat
           /\ DOMAIN posts = 1 .. Len(posts)
           /\ DOMAIN posts' = 1 .. (Len(posts) + 1)
           /\ \A i \in DOMAIN posts : posts'[i] = posts[i]
           /\ posts'[Len(posts) + 1].body = request[r].body
           /\ keys' = keys \cup { [key |-> KeyOf(request[r].body),
                                  body |-> request[r].body,
                                  post |-> Len(posts) + 1] }
           /\ request' = [request EXCEPT ![r] =
                             [at |-> "moving", body |-> request[r].body,
                              post |-> Len(posts) + 1]]
           /\ \A k \in keys : k.key # KeyOf(request[r].body)
           /\ set' = set
  <1>t. /\ posts \in Seq(PostRow)
        /\ request \in [Requests -> RequestRow]
    BY TypeAsRows
  <1>1. request[r] \in Posting
    BY <1>t, RequestShapes DEF Post
  <1> DEFINE row == [body |-> request[r].body, claims |-> request[r].claims]
  <1>2. row \in PostRow /\ row.body = request[r].body
    BY <1>1 DEF Posting, PostRow
  <1>3. posts' = Append(posts, row)
    BY DEF Post
  <1> HIDE DEF row
  <1>4. /\ Len(posts) \in Nat
        /\ DOMAIN posts = 1 .. Len(posts)
        /\ DOMAIN posts' = 1 .. (Len(posts) + 1)
        /\ \A i \in DOMAIN posts : posts'[i] = posts[i]
        /\ posts'[Len(posts) + 1] = row
    BY <1>t, <1>2, <1>3
  <1>5. \A k \in keys : k.key # KeyOf(request[r].body)
    <2>1. Reserve(request[r].body) = "reserved"
      BY DEF Post
    <2> QED
      BY <2>1 DEF Reserve
  <1> QED
    BY <1>2, <1>4, <1>5 DEF Post, Moved

LEMMA KeysStep ==
    TypeOK /\ KeysName /\ KeysAreUnique /\ [Next]_vars
      => KeysName' /\ KeysAreUnique'
  <1> SUFFICES ASSUME TypeOK, KeysName, KeysAreUnique, [Next]_vars
               PROVE  KeysName' /\ KeysAreUnique'
    OBVIOUS
  <1>1. CASE keys' \subseteq keys /\ posts' = posts
    BY <1>1 DEF KeysName, KeysAreUnique, KeyOf
  <1>2. ASSUME NEW r \in Requests, Post(r) PROVE KeysName' /\ KeysAreUnique'
    <2> DEFINE new == [key |-> KeyOf(request[r].body), body |-> request[r].body,
                       post |-> Len(posts) + 1]
    <2>1. keys' = keys \cup {new}
      BY <1>2, PostAdds
    <2>2. /\ new.post \in DOMAIN posts'
          /\ posts'[new.post].body = new.body
          /\ new.key = KeyOf(new.body)
      BY <1>2, PostAdds
    <2>3. \A k \in keys : k.key # new.key
      BY <1>2, PostAdds
    <2>4. \A k \in keys : /\ k.post \in DOMAIN posts'
                          /\ posts'[k.post].body = k.body
                          /\ k.key = KeyOf(k.body)
      BY <1>2, PostAdds DEF KeysName
    <2> HIDE DEF new
    <2>5. KeysName'
      BY <2>1, <2>2, <2>4 DEF KeysName, KeyOf
    <2>6. KeysAreUnique'
      BY <2>1, <2>3 DEF KeysAreUnique
    <2> QED
      BY <2>5, <2>6
  <1> QED
    BY <1>1, <1>2, RowsChange

(* A replay answers with the post of the one key that is held, and that    *)
(* key holds the same body.                                                *)
LEMMA ReplayFinds ==
    ASSUME TypeOK, KeysName, KeysAreUnique, NEW r \in Requests, Replay(r)
    PROVE  \E k \in keys :
             /\ k.body = request[r].body
             /\ request' = [request EXCEPT ![r] =
                  [at |-> "moving", body |-> request[r].body, post |-> k.post]]
             /\ keys' = keys /\ posts' = posts /\ set' = set
  <1>1. Reserve(request[r].body) = "replay"
    BY DEF Replay
  <1>2. PICK k \in keys : k.key = KeyOf(request[r].body) /\ k.body = request[r].body
    BY <1>1 DEF Reserve
  <1>3. Holder(request[r].body) = k
    BY <1>2 DEF Holder, KeysAreUnique
  <1> QED
    BY <1>2, <1>3 DEF Replay, Moved

LEMMA HoldersStep ==
    IInv /\ [Next]_vars => HoldersRead'
  <1> SUFFICES ASSUME IInv, [Next]_vars, NEW r \in Requests,
                      request'[r].at \in { "moving", "accepted" }
               PROVE  /\ request'[r].post \in DOMAIN posts'
                      /\ posts'[request'[r].post].body = request'[r].body
    BY DEF HoldersRead
  <1>t. TypeOK /\ request \in [Requests -> RequestRow]
    BY TypeAsRows DEF IInv
  <1>1. CASE Post(r)
    <2>1. /\ request'[r].post = Len(posts) + 1
          /\ request'[r].body = request[r].body
      BY <1>1, <1>t, PostAdds
    <2>2. /\ Len(posts) + 1 \in DOMAIN posts'
          /\ posts'[Len(posts) + 1].body = request[r].body
      BY <1>1, <1>t, PostAdds
    <2> QED
      BY <2>1, <2>2
  <1>2. CASE Replay(r)
    <2>1. PICK k \in keys :
             /\ k.body = request[r].body
             /\ request' = [request EXCEPT ![r] =
                  [at |-> "moving", body |-> request[r].body, post |-> k.post]]
             /\ keys' = keys /\ posts' = posts
      BY <1>2, ReplayFinds DEF IInv
    <2>2. request'[r].post = k.post /\ request'[r].body = k.body
      BY <2>1, <1>t
    <2> QED
      BY <2>1, <2>2 DEF IInv, KeysName
  <1>3. CASE MarkPublished(r) /\ request'[r].at = "accepted"
    <2>1. request[r] \in Moving /\ request[r].at = "moving"
      BY <1>3, <1>t, RequestShapes DEF MarkPublished
    <2>2. request' = [request EXCEPT ![r] = [request[r] EXCEPT !.at = "accepted"]]
      BY <1>3, <1>t DEF MarkPublished
    <2>3. /\ request'[r].post = request[r].post
          /\ request'[r].body = request[r].body
      BY <2>1, <2>2, <1>t DEF Moving
    <2>4. posts' = posts
      BY <1>3 DEF MarkPublished
    <2> QED
      BY <1>3, <2>1, <2>3, <2>4 DEF IInv, HoldersRead
  <1>4. CASE request'[r] = request[r]
    <2>1. /\ request[r].post \in DOMAIN posts
          /\ posts[request[r].post].body = request[r].body
      BY <1>4 DEF IInv, HoldersRead
    <2>2. ASSUME NEW q \in Requests, Post(q)
          PROVE  \A x \in DOMAIN posts : /\ x \in DOMAIN posts'
                                         /\ posts'[x] = posts[x]
      BY <2>2, <1>t, PostAdds
    <2> QED
      BY <1>4, <2>1, <2>2, RowsChange
  <1> QED
    BY <1>1, <1>2, <1>3, <1>4, <1>t, BeganThisStep

(* The only step to `accepted'. *)
LEMMA AcceptsOne ==
    ASSUME IInv, NEW r \in Requests, MarkPublished(r), request'[r].at = "accepted"
    PROVE  /\ request[r] \in Moving
           /\ request[r].at = "moving"
           /\ request'[r].post = request[r].post
           /\ request'[r].body = request[r].body
           /\ keys' = keys /\ posts' = posts
           /\ set'[request[r].body.set].status = "published"
  <1>t. request \in [Requests -> RequestRow] /\ set \in [Sets -> SetRow]
    BY TypeAsRows DEF IInv
  <1>1. request[r] \in Moving /\ request[r].at = "moving"
    BY <1>t, RequestShapes DEF MarkPublished
  <1>2. PICK s \in Sets : s = request[r].body.set
    BY <1>1 DEF Moving, PostBody
  <1>3. /\ set[s].status \in AllowedFrom("published")
        /\ set' = [set EXCEPT ![s].status = "published"]
        /\ request' = [request EXCEPT ![r] = [request[r] EXCEPT !.at = "accepted"]]
    BY <1>2, <1>t DEF MarkPublished
  <1>4. set[s] \in StoredSet
    BY <1>3, <1>t, AllowedAreStored, SetShapes DEF DraftSetStatus
  <1>5. set'[s].status = "published"
    BY <1>3, <1>4, <1>t DEF StoredSet
  <1>6. request'[r].post = request[r].post /\ request'[r].body = request[r].body
    BY <1>1, <1>3, <1>t DEF Moving
  <1> QED
    BY <1>1, <1>2, <1>5, <1>6 DEF MarkPublished

LEMMA AcceptedStep ==
    IInv /\ [Next]_vars => AcceptedIsPublished'
  <1> SUFFICES ASSUME IInv, [Next]_vars, NEW r \in Requests,
                      request'[r].at = "accepted"
               PROVE  set'[request'[r].body.set].status = "published"
    BY DEF AcceptedIsPublished
  <1>t. TypeOK /\ EditedIsStored /\ request \in [Requests -> RequestRow]
    BY TypeAsRows DEF IInv
  <1>1. CASE MarkPublished(r)
    BY <1>1, AcceptsOne
  <1>2. CASE request'[r] = request[r]
    <2>1. request[r] \in Moving
      BY <1>2, <1>t, RequestShapes
    <2>2. PICK s \in Sets : s = request[r].body.set
      BY <2>1 DEF Moving, PostBody
    <2>3. set[s].status = "published"
      BY <1>2, <2>2 DEF IInv, AcceptedIsPublished
    <2>4. set'[s].status = "published"
      BY <1>t, <2>3, SetsMoveOn
    <2> QED
      BY <1>2, <2>2, <2>4
  <1> QED
    BY <1>1, <1>2, <1>t, BeganThisStep

(* A second post needs the key of the first to be gone. *)
LEMMA PostedOnceStep ==
    IInv /\ [Next]_vars => PostedOnce'
  <1> SUFFICES ASSUME IInv, [Next]_vars,
                      NEW i \in DOMAIN posts', NEW j \in DOMAIN posts', i < j,
                      posts'[i].body.set = posts'[j].body.set,
                      DOMAIN posts'[i].body.targets = DOMAIN posts'[j].body.targets
               PROVE  \A k \in keys' : k.post # i
    BY DEF PostedOnce, Twins
  <1>t. TypeOK
    BY DEF IInv
  <1>1. CASE keys' \subseteq keys /\ posts' = posts
    BY <1>1 DEF IInv, PostedOnce, Twins
  <1>2. ASSUME NEW p \in Requests, Post(p) PROVE \A k \in keys' : k.post # i
    <2> DEFINE n == Len(posts) + 1
               new == [key |-> KeyOf(request[p].body), body |-> request[p].body,
                       post |-> n]
    <2>1. /\ Len(posts) \in Nat
          /\ DOMAIN posts = 1 .. Len(posts)
          /\ DOMAIN posts' = 1 .. n
          /\ \A x \in DOMAIN posts : posts'[x] = posts[x]
          /\ posts'[n].body = request[p].body
      BY <1>2, <1>t, PostAdds
    <2>2. i \in DOMAIN posts /\ i # n /\ posts'[i] = posts[i]
      BY <2>1
    <2>3. keys' = keys \cup {new} /\ new.post = n
      BY <1>2, <1>t, PostAdds
    <2> HIDE DEF new
    <2>4. CASE j \in DOMAIN posts
      <3>1. \A k \in keys : k.post # i
        <4>1. posts'[j] = posts[j]
          BY <2>1, <2>4
        <4> QED
          BY <2>2, <2>4, <4>1 DEF IInv, PostedOnce, Twins
      <3> QED
        BY <2>2, <2>3, <3>1
    <2>5. CASE j = n
      <3>1. KeyOf(posts[i].body) = KeyOf(request[p].body)
        BY <2>1, <2>2, <2>5, TwinsShareTheirKey
      <3>2. \A k \in keys : k.key # KeyOf(request[p].body)
        BY <1>2, <1>t, PostAdds
      <3>3. \A k \in keys : k.post # i
        BY <3>1, <3>2 DEF IInv, KeysName
      <3> QED
        BY <2>2, <2>3, <3>3
    <2> QED
      BY <2>1, <2>4, <2>5
  <1> QED
    BY <1>1, <1>2, RowsChange

LEMMA IInit == Init => IInv
  <1> SUFFICES ASSUME Init PROVE IInv
    OBVIOUS
  <1>1. keys = {} /\ DOMAIN posts = {}
    BY DEF Init
  <1>2. \A r \in Requests : request[r].at = "idle"
    BY DEF Init, Idle
  <1>3. PostedOnce
    BY <1>1 DEF PostedOnce
  <1> QED
    BY <1>1, <1>2, <1>3, TypeInit
    DEF IInv, EditedIsStored, KeysName, KeysAreUnique, HoldersRead,
        AcceptedIsPublished

LEMMA IStep == IInv /\ [Next]_vars => IInv'
  <1> SUFFICES ASSUME IInv, [Next]_vars PROVE IInv'
    OBVIOUS
  <1>1. TypeOK' /\ EditedIsStored'
    BY TypeStep, EditedStep DEF IInv
  <1>2. KeysName' /\ KeysAreUnique'
    BY KeysStep DEF IInv
  <1>3. HoldersRead'
    BY HoldersStep
  <1>4. AcceptedIsPublished' /\ PostedOnce'
    BY AcceptedStep, PostedOnceStep
  <1> QED
    BY <1>1, <1>2, <1>3, <1>4 DEF IInv

LEMMA Invariance == Spec => []IInv
  BY IInit, IStep, PTL DEF Spec

-----------------------------------------------------------------------------
(* The theorems.                                                           *)

(* The rows and requests are as the schema and the handlers make them.     *)
THEOREM TypeCorrect == Spec => []TypeOK
  <1>1. IInv => TypeOK
    BY DEF IInv
  <1> QED
    BY <1>1, Invariance, PTL

(* No selection of drafts is posted twice while the key of the first post  *)
(* stands, however many requests edit, publish, retry or die and whenever  *)
(* a key is purged.                                                        *)
THEOREM PostedOnceHolds == Spec => []PostedOnce
  <1>1. IInv => PostedOnce
    BY DEF IInv
  <1> QED
    BY <1>1, Invariance, PTL

(* Whoever is told `accepted' is told about a post that says what it read, *)
(* of a set that reads published.                                          *)
THEOREM AcceptedIsTrueHolds == Spec => []AcceptedIsTrue
  <1>1. IInv => AcceptedIsTrue
    BY DEF IInv, HoldersRead, AcceptedIsPublished, AcceptedIsTrue
  <1> QED
    BY <1>1, Invariance, PTL

=============================================================================
