---------------------------- MODULE ProviderErrors ----------------------------
(***************************************************************************)
(* What a failed provider call means to the publisher.                     *)
(*                                                                         *)
(*   packages/errors/src/provider-taxonomy.ts   codes and dispositions     *)
(*   packages/providers/*/src/adapter.ts        normalizeError             *)
(*   packages/providers/meta-core/src/graph.ts  normalizeGraphError        *)
(*                                                                         *)
(* A failure is an HTTP status, or the lack of an answer, and a reason:    *)
(* the class of the provider's own codes, or the code an adapter gives an  *)
(* error it raises itself.  An adapter looks at the reason first.          *)
(***************************************************************************)

ProviderName ==
    { "mock", "bluesky", "telegram", "linkedin", "facebook", "instagram",
      "threads", "tiktok", "youtube", "pinterest", "x", "discord",
      "google_business_profile" }

ProviderErrorCode ==
    { "AUTH_EXPIRED", "AUTH_REVOKED", "AUTH_SCOPE_MISSING",
      "ACCOUNT_NOT_ELIGIBLE", "DESTINATION_NOT_FOUND", "VALIDATION_FAILED",
      "TEXT_TOO_LONG", "MEDIA_UNSUPPORTED", "MEDIA_TOO_LARGE",
      "MEDIA_PROCESSING_FAILED", "PRIVACY_SELECTION_REQUIRED",
      "CONTENT_REJECTED", "RATE_LIMITED", "DAILY_QUOTA_EXCEEDED",
      "PROVIDER_UNAVAILABLE", "PROVIDER_TIMEOUT", "PROVIDER_CONFLICT",
      "POSSIBLE_DUPLICATE", "UNKNOWN_PROVIDER_ERROR" }

Blocking == { "AUTH_EXPIRED", "AUTH_REVOKED", "AUTH_SCOPE_MISSING" }
Retryable == { "MEDIA_PROCESSING_FAILED", "RATE_LIMITED",
               "DAILY_QUOTA_EXCEEDED", "PROVIDER_UNAVAILABLE" }
Ambiguous == { "PROVIDER_TIMEOUT", "PROVIDER_CONFLICT",
               "POSSIBLE_DUPLICATE", "UNKNOWN_PROVIDER_ERROR" }

Disposition(code) ==
    CASE code \in Blocking -> "blocked_on_connection"
      [] code \in Retryable -> "retryable_failed"
      [] code \in Ambiguous -> "unknown_reconciliation_required"
      [] OTHER -> "permanent_failed"

(* `thrown' is a raw fetch() that rejects.                                 *)
Silences == { "timeout", "transport", "thrown" }
Statuses == Silences \cup { "s400", "s401", "s403", "s404", "s409", "s413",
                            "s422", "s429", "s5xx" }

(* What a provider says, and what an adapter says of its own: the media    *)
(* was not processed, our media store refused, the upload was refused.     *)
ProviderReasons ==
    { "auth", "revoked", "scope", "missing", "ineligible", "duplicate",
      "invalid", "too_long", "format", "quota", "rate", "policy", "privacy" }
OwnReasons == { "media", "store", "upload" }

Failure == [ status: Statuses,
             reason: {"none"} \cup ProviderReasons \cup OwnReasons ]

(* The statuses nearly all adapters read alike.                            *)
Usual == 
    [ timeout |-> "PROVIDER_TIMEOUT", transport |-> "PROVIDER_UNAVAILABLE",
      s5xx |-> "PROVIDER_UNAVAILABLE", s429 |-> "RATE_LIMITED",
      s401 |-> "AUTH_EXPIRED", s403 |-> "AUTH_SCOPE_MISSING",
      s404 |-> "DESTINATION_NOT_FOUND", s400 |-> "VALIDATION_FAILED" ]

ByStatus(special, e) ==
    IF e.status \in DOMAIN special THEN special[e.status]
    ELSE IF e.status \in DOMAIN Usual THEN Usual[e.status]
    ELSE "UNKNOWN_PROVIDER_ERROR"

ByReason(table, e, otherwise) ==
    IF e.reason \in DOMAIN table THEN table[e.reason] ELSE otherwise

BlueskyError(e) ==
    ByReason([ auth |-> "AUTH_EXPIRED", revoked |-> "AUTH_REVOKED",
               rate |-> "RATE_LIMITED", format |-> "MEDIA_UNSUPPORTED",
               invalid |-> "VALIDATION_FAILED" ], e,
        ByStatus([ s403 |-> "AUTH_EXPIRED", s422 |-> "VALIDATION_FAILED",
                   s404 |-> "UNKNOWN_PROVIDER_ERROR" ], e))

DiscordError(e) ==
    ByReason([ auth |-> "AUTH_EXPIRED", scope |-> "AUTH_SCOPE_MISSING",
               missing |-> "DESTINATION_NOT_FOUND" ], e,
        ByStatus([ s413 |-> "MEDIA_TOO_LARGE" ], e))

(* facebook, instagram and threads.  A status the shared table does not    *)
(* know falls to the adapter's own check for 401 and 403.                  *)
GraphError(e) ==
    ByReason([ duplicate |-> "POSSIBLE_DUPLICATE", auth |-> "AUTH_EXPIRED",
               revoked |-> "AUTH_REVOKED", scope |-> "AUTH_SCOPE_MISSING",
               rate |-> "RATE_LIMITED", missing |-> "DESTINATION_NOT_FOUND",
               invalid |-> "VALIDATION_FAILED" ], e,
        ByStatus([ s403 |-> "AUTH_EXPIRED" ], e))

(* ContainerNotReadyError.                                                 *)
ContainerError(e) ==
    IF e.reason = "media" THEN "MEDIA_PROCESSING_FAILED" ELSE GraphError(e)

GoogleBusinessError(e) ==
    ByReason([ auth |-> "AUTH_EXPIRED", scope |-> "AUTH_SCOPE_MISSING",
               quota |-> "DAILY_QUOTA_EXCEEDED",
               ineligible |-> "ACCOUNT_NOT_ELIGIBLE",
               missing |-> "DESTINATION_NOT_FOUND",
               invalid |-> "VALIDATION_FAILED",
               policy |-> "CONTENT_REJECTED" ], e,
        ByStatus([ s409 |-> "PROVIDER_CONFLICT" ], e))

LinkedInError(e) ==
    ByReason([ too_long |-> "TEXT_TOO_LONG", scope |-> "AUTH_SCOPE_MISSING",
               auth |-> "AUTH_EXPIRED", invalid |-> "VALIDATION_FAILED" ], e,
        ByStatus([ s409 |-> "PROVIDER_CONFLICT",
                   s422 |-> "CONTENT_REJECTED" ], e))

MockError(e) ==
    ByStatus([ s403 |-> "AUTH_REVOKED", s422 |-> "CONTENT_REJECTED",
               s404 |-> "UNKNOWN_PROVIDER_ERROR",
               s400 |-> "UNKNOWN_PROVIDER_ERROR" ], e)

PinterestError(e) ==
    ByReason([ auth |-> "AUTH_EXPIRED", media |-> "MEDIA_PROCESSING_FAILED",
               store |-> "MEDIA_PROCESSING_FAILED",
               upload |-> "MEDIA_PROCESSING_FAILED",
               scope |-> "AUTH_SCOPE_MISSING", rate |-> "RATE_LIMITED" ], e,
        ByStatus([ s409 |-> "PROVIDER_CONFLICT",
                   s422 |-> "CONTENT_REJECTED" ], e))

(* `missing' is a 400 whose description says so.                           *)
TelegramError(e) ==
    IF e.status = "s400" /\ e.reason = "missing" THEN "DESTINATION_NOT_FOUND"
    ELSE ByStatus([ s401 |-> "AUTH_REVOKED", s403 |-> "AUTH_REVOKED",
                    s404 |-> "UNKNOWN_PROVIDER_ERROR" ], e)

(* `rate' covers the caps on spam, pending shares and active users.        *)
TikTokError(e) ==
    ByReason([ auth |-> "AUTH_EXPIRED", scope |-> "AUTH_SCOPE_MISSING",
               privacy |-> "PRIVACY_SELECTION_REQUIRED",
               rate |-> "RATE_LIMITED", invalid |-> "VALIDATION_FAILED",
               format |-> "MEDIA_UNSUPPORTED",
               media |-> "MEDIA_PROCESSING_FAILED",
               policy |-> "CONTENT_REJECTED" ], e,
        ByStatus(Usual, e))

(* Mutant: our media store's refusal is read like one of X.                *)
XErrorByStatus(e) ==
    ByReason([ auth |-> "AUTH_EXPIRED", duplicate |-> "POSSIBLE_DUPLICATE",
               scope |-> "AUTH_SCOPE_MISSING",
               media |-> "MEDIA_PROCESSING_FAILED" ], e,
        ByStatus([ s409 |-> "PROVIDER_CONFLICT",
                   s422 |-> "CONTENT_REJECTED" ], e))

XError(e) ==
    ByReason([ auth |-> "AUTH_EXPIRED", duplicate |-> "POSSIBLE_DUPLICATE",
               scope |-> "AUTH_SCOPE_MISSING",
               media |-> "MEDIA_PROCESSING_FAILED",
               store |-> "MEDIA_PROCESSING_FAILED" ], e,
        ByStatus([ s409 |-> "PROVIDER_CONFLICT",
                   s422 |-> "CONTENT_REJECTED" ], e))

YouTubeError(e) ==
    ByReason([ quota |-> "DAILY_QUOTA_EXCEEDED", rate |-> "RATE_LIMITED",
               auth |-> "AUTH_EXPIRED", scope |-> "AUTH_SCOPE_MISSING",
               missing |-> "DESTINATION_NOT_FOUND",
               invalid |-> "VALIDATION_FAILED",
               format |-> "MEDIA_UNSUPPORTED",
               media |-> "MEDIA_PROCESSING_FAILED",
               store |-> "MEDIA_PROCESSING_FAILED",
               policy |-> "CONTENT_REJECTED" ], e,
        ByStatus([ s409 |-> "PROVIDER_CONFLICT" ], e))

NormalizeError(p, e) ==
    CASE p = "bluesky" -> BlueskyError(e)
      [] p = "discord" -> DiscordError(e)
      [] p = "facebook" -> GraphError(e)
      [] p \in {"instagram", "threads"} -> ContainerError(e)
      [] p = "google_business_profile" -> GoogleBusinessError(e)
      [] p = "linkedin" -> LinkedInError(e)
      [] p = "pinterest" -> PinterestError(e)
      [] p = "telegram" -> TelegramError(e)
      [] p = "tiktok" -> TikTokError(e)
      [] p = "x" -> XError(e)
      [] p = "youtube" -> YouTubeError(e)
      [] OTHER -> MockError(e)
=============================================================================
