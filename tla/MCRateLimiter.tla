----------------------------- MODULE MCRateLimiter -----------------------------
(* RateLimiter on a clock with a few ticks a minute, and with three calls   *)
(* that may be under way to Redis.                                          *)
EXTENDS RateLimiter, TLC

CONSTANTS c1, c2, c3

MCCalls == {c1, c2, c3}
MCSymmetry == Permutations(MCCalls)
===============================================================================
