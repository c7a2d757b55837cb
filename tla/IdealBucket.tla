------------------------------ MODULE IdealBucket ------------------------------
(***************************************************************************)
(* What a rate limiter promises: a bucket that is topped up at every tick  *)
(* of the clock and refuses a request only when it does not hold the cost  *)
(* of one.  A higher limit takes nothing away, a lower one adds nothing.   *)
(* A window of observation may begin at any moment.                        *)
(***************************************************************************)
EXTENDS Bucket

CONSTANTS Limits, MaxElapsed

VARIABLES
    limit,     \* the limit in force
    level,     \* tokens available right now
    elapsed,   \* ticks since the window began
    granted    \* requests granted in the window

vars == <<limit, level, elapsed, granted>>

NewWindow == elapsed' = 0 /\ granted' = 0

Init ==
    /\ limit \in Limits
    /\ level = Capacity(limit)
    /\ elapsed = 0 /\ granted = 0

Grant ==
    /\ level >= Cost
    /\ level' = level - Cost
    /\ granted' = granted + 1
    /\ UNCHANGED <<limit, elapsed>>

Tick ==
    /\ elapsed < MaxElapsed
    /\ level' = Refilled(level, 1, limit)
    /\ elapsed' = elapsed + 1
    /\ UNCHANGED <<limit, granted>>

Patch(l) ==
    /\ limit' = l
    /\ level' \in 0 .. Capacity(l)
    /\ l >= limit => level' >= level
    /\ l <= limit => level' <= level
    /\ UNCHANGED <<elapsed, granted>>

Mark == NewWindow /\ UNCHANGED <<limit, level>>

\* The process restarts with a full bucket.
Restart == NewWindow /\ level' = Capacity(limit) /\ UNCHANGED limit

Next == Grant \/ Tick \/ Mark \/ Restart \/ \E l \in Limits : Patch(l)

Spec == Init /\ [][Next]_vars
===============================================================================
