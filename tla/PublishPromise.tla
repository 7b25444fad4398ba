---------------------------- MODULE PublishPromise ----------------------------
(***************************************************************************)
(* What the publish engine promises about the targets of a post, and all   *)
(* that it promises ("effectively once"): for each target at most one post *)
(* appears at the provider, and only while the target is open; published,  *)
(* simulated, accepted by the provider and cancelled are the truth about   *)
(* that post; where the truth is not known the row says so, and is opened  *)
(* again only when it has turned out that nothing was posted.              *)
(*                                                                         *)
(* `failed' is the truth only of an open target.  A doubt that no search   *)
(* can settle ends as failed too, and then the post may exist.  ADR-006    *)
(* promises more: there such a target stays in doubt.                      *)
(***************************************************************************)
EXTENDS Naturals

CONSTANT Targets

VARIABLES
    claim,          \* what the row says, per target
    posts           \* the posts that exist at the provider, per target

vars == << claim, posts >>

Claim ==
    { "open", "accepted", "in_doubt", "published", "simulated", "failed",
      "cancelled" }

Init ==
    /\ claim = [ t \in Targets |-> "open" ]
    /\ posts = [ t \in Targets |-> 0 ]

Post(t) ==
    /\ claim[t] = "open"
    /\ posts[t] = 0
    /\ posts' = [posts EXCEPT ![t] = 1]
    /\ UNCHANGED claim

Says(t, what) ==
    /\ claim' = [claim EXCEPT ![t] = what]
    /\ UNCHANGED posts

(* The provider took the post, and publishes it now or in its own time.    *)
Succeed(t) ==
    /\ claim[t] = "open"
    /\ posts[t] = 1
    /\ Says(t, "published") \/ Says(t, "accepted")

Simulate(t) == claim[t] = "open" /\ posts[t] = 0 /\ Says(t, "simulated")

Fail(t) == claim[t] = "open" /\ posts[t] = 0 /\ Says(t, "failed")

(* Nobody knows whether the post exists, and the row admits it ...         *)
Doubt(t) == claim[t] = "open" /\ Says(t, "in_doubt")

(* ... until the provider has been searched ...                            *)
Resolve(t) ==
    /\ claim[t] = "in_doubt"
    /\ \/ posts[t] = 1 /\ Says(t, "published")
       \/ posts[t] = 0 /\ Says(t, "open")

(* ... or the search settled nothing.  From then on `failed' says that no  *)
(* attempt will follow, and nothing about the post.                        *)
GiveUp(t) == claim[t] = "in_doubt" /\ Says(t, "failed")

(* The customer calls off what is still open: none of it is out.           *)
Cancel(S) ==
    /\ \A t \in S : claim[t] = "open" /\ posts[t] = 0
    /\ claim' = [ t \in Targets |-> IF t \in S THEN "cancelled" ELSE claim[t] ]
    /\ UNCHANGED posts

Next ==
    \/ \E t \in Targets : \/ Post(t) \/ Succeed(t) \/ Simulate(t) \/ Fail(t)
                          \/ Doubt(t) \/ Resolve(t) \/ GiveUp(t)
    \/ \E S \in SUBSET Targets : Cancel(S)

Spec == Init /\ [][Next]_vars

=============================================================================
