---------------------------- MODULE MCRateLimiter ----------------------------
(***************************************************************************)
(* RateLimiter for TLC.  One unit of time is about twenty seconds.         *)
(***************************************************************************)
EXTENDS RateLimiter

Delays == {1, 3}
=============================================================================
