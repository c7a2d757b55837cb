-------------------------------- MODULE Bucket --------------------------------
(***************************************************************************)
(* The arithmetic of a token bucket that allows l requests a minute        *)
(* (app/core/ratelimit.py: bucket_params, and the refill both backends     *)
(* compute).  The code refills l/60 tokens a second and charges 1 for a    *)
(* request; here everything is multiplied by Minute, the number of clock   *)
(* ticks in a minute, so that tokens stay whole numbers.  The code computes *)
(* in floating point: its rounding is not modelled.                        *)
(***************************************************************************)
EXTENDS Integers

CONSTANT Minute

ASSUME MinuteAssumption == Minute \in Nat \ {0}

\* bucket_params, and acquire's default cost of one request.
RefillRate(l) == l
Capacity(l) == l * Minute
Cost == Minute

Least(m, n) == IF m <= n THEN m ELSE n

\* Mutant: the capacity does not bound what accumulates while idle.
Refilled_Uncapped(tokens, elapsed, l) == tokens + elapsed * RefillRate(l)

\* What a bucket holds once the time since its last use has been credited.
Refilled(tokens, elapsed, l) ==
    Least(Capacity(l), tokens + elapsed * RefillRate(l))

\* The Retry-After header, in ticks: (cost - tokens) / rate rounded up (which
\* is at least one already).
RetryAfter(tokens, l) ==
    (Cost - tokens + RefillRate(l) - 1) \div RefillRate(l)
===============================================================================
