----------------------------- MODULE MCRateLimit ----------------------------
(***************************************************************************)
(* Constants for model checking RateLimiter: one user on a small plan, a   *)
(* minute of two ticks, an hour of four, a day of eight.                   *)
(***************************************************************************)
EXTENDS RateLimiter, TLC

CONSTANTS u1, r1, r2, r3

Owners == (r1 :> u1) @@ (r2 :> u1) @@ (r3 :> u1)
SmallPlan == u1 :> <<2, 3, 4>>
TwoAtOnce == u1 :> 2
OneATick == u1 :> 1
Calendar == <<2, 4, 8>>
Slots == Permutations({r1, r2, r3})
=============================================================================
