--------------------------- MODULE MCRateLimiter ---------------------------
(***************************************************************************)
(* Interchangeable goroutines at one limiter.                               *)
(***************************************************************************)
EXTENDS RateLimiter, TLC

WaiterSymmetry == Permutations(Waiters)
=============================================================================
