------------------------------ MODULE MCAdapters ------------------------------
(***************************************************************************)
(* Adapters for TLC.                                                       *)
(***************************************************************************)
EXTENDS Adapters

(* The surprises under which the adapters are checked.  A post may hide    *)
(* behind an error at every provider; the rest are those each adapter      *)
(* withstands.  The search of tiktok and youtube never concludes that a    *)
(* post is absent, telegram has none, the mock searches by key, and        *)
(* discord and tiktok refuse to look for a post without words.             *)
ToleratedFaults ==
    (ProviderName \X {"masked_accept"})
        \cup ({"tiktok", "youtube"} \X {"late", "unseen"})
        \cup {"telegram"} \X {"late", "unseen", "twin", "silent_twin"}
        \cup {"mock"} \X {"twin", "silent_twin", "stale_url"}
        \cup {"discord", "tiktok"} \X {"silent_twin"}
        \cup {"x", "pinterest", "youtube"} \X {"stale_url"}
=============================================================================
