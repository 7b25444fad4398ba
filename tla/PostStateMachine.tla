-------------------------- MODULE PostStateMachine --------------------------
(***************************************************************************)
(* The pure rules of packages/domain/src/posts/post-state-machine.ts: the  *)
(* statuses of a post and of a publish target, the sets the engine         *)
(* branches on, the legal target transitions and the aggregate reducer.    *)
(*                                                                         *)
(* A post is reduced from the statuses of its targets.  The code counts    *)
(* over an array, but every count is only compared with zero or with the   *)
(* number of live targets, so the SET of statuses decides the result.      *)
(***************************************************************************)

PostStatus ==
    { "draft", "validating", "awaiting_approval", "scheduled", "queued",
      "publishing", "published", "partially_published", "failed",
      "cancelled" }

TargetStatus ==
    { "pending", "blocked_validation", "awaiting_approval", "scheduled",
      "queued", "preparing_media", "publishing", "provider_processing",
      "published", "retryable_failed", "permanent_failed", "cancelled",
      "unknown_reconciliation_required" }

(* No further work without an explicit customer action. *)
TerminalTargetStatus ==
    { "published", "permanent_failed", "cancelled", "blocked_validation" }

(* What the lease statement accepts (ADR-006 layer 2). *)
LeasableTargetStatus == { "queued", "retryable_failed", "scheduled" }

(* Work in flight at, or on its way to, the provider. *)
ActiveTargetStatus ==
    { "queued", "preparing_media", "publishing", "provider_processing",
      "retryable_failed", "unknown_reconciliation_required" }

TerminalPostStatus ==
    { "published", "partially_published", "failed", "cancelled" }

(* TARGET_TRANSITIONS: the moves the domain calls legal. *)
TargetTransitions ==
    [ s \in TargetStatus |->
        CASE s = "pending" ->
                { "blocked_validation", "awaiting_approval", "scheduled",
                  "queued", "cancelled" }
          [] s = "blocked_validation" -> { "pending", "queued", "cancelled" }
          [] s = "awaiting_approval" ->
                { "scheduled", "queued", "cancelled", "blocked_validation" }
          [] s = "scheduled" ->
                { "queued", "publishing", "cancelled", "blocked_validation" }
          [] s = "queued" ->
                { "preparing_media", "publishing", "cancelled",
                  "retryable_failed", "permanent_failed",
                  "blocked_validation" }
          [] s = "preparing_media" ->
                { "publishing", "retryable_failed", "permanent_failed",
                  "cancelled" }
          [] s = "publishing" ->
                { "published", "provider_processing", "retryable_failed",
                  "permanent_failed", "unknown_reconciliation_required" }
          [] s = "provider_processing" ->
                { "published", "retryable_failed", "permanent_failed",
                  "unknown_reconciliation_required" }
          [] s = "retryable_failed" ->
                { "queued", "publishing", "permanent_failed", "cancelled" }
          [] s = "unknown_reconciliation_required" ->
                { "published", "permanent_failed", "retryable_failed",
                  "queued" }
          [] OTHER -> {} ]

CanTransitionTarget(from, to) == from = to \/ to \in TargetTransitions[from]

(* Seeded bug: a target that waits for its next attempt counts as failed.  *)
ReduceLiveOverRetries(live) ==
    IF live \cap (ActiveTargetStatus \ {"retryable_failed"}) # {}
    THEN "publishing"
    ELSE IF "published" \in live THEN "partially_published"
    ELSE "failed"

(* Which branch of the reducer speaks for a non-empty set of live (not     *)
(* cancelled) statuses: the code tests them in this order.                 *)
ReduceLive(live) ==
    IF live \cap ActiveTargetStatus # {} THEN "publishing"
    ELSE IF "awaiting_approval" \in live THEN "awaiting_approval"
    ELSE IF "scheduled" \in live THEN "scheduled"
    ELSE IF live = {"published"} THEN "published"
    ELSE IF /\ "published" \in live
            /\ live \subseteq {"published", "permanent_failed",
                               "blocked_validation"}
         THEN "partially_published"
    ELSE IF live \subseteq {"permanent_failed", "blocked_validation"}
         THEN "failed"
    ELSE "queued"

ReducePostStatus(statuses) ==
    IF statuses = {} THEN "failed"
    ELSE IF statuses = {"cancelled"} THEN "cancelled"
    ELSE ReduceLive(statuses \ {"cancelled"})

=============================================================================
