------------------------------ MODULE TokenBucket ------------------------------
(***************************************************************************)
(* InMemoryTokenBucket (app/core/ratelimit.py): one bucket, that of a      *)
(* virtual key and a model.  The bucket is touched only when a request     *)
(* comes; the time since then is credited at that moment, at the limit the *)
(* key has by then.  acquire contains no await: it is one step.            *)
(*                                                                         *)
(* The code stores the time of the last use; the specification stores the  *)
(* ticks since, saturated at Minute, when any bucket is full.  A bucket    *)
(* that does not exist yet reads like one left alone for a minute.         *)
(***************************************************************************)
EXTENDS Bucket

CONSTANTS
    Limits,        \* the per-minute limits the key may be given
    MaxElapsed     \* bound: the longest window observed

ASSUME LimitsAssumption ==
    /\ Limits \subseteq Nat \ {0} /\ Limits # {}
    /\ MaxElapsed \in Nat
    /\ \E l \in Limits : \A m \in Limits : m <= l

VARIABLES
    tokens, age,       \* _buckets[bucket] = (tokens, now)
    limit,             \* the limit in force for the key
    elapsed, granted,  \* history: the window of observation
    promise            \* history: ticks until the Retry-After given out ends

vars == <<tokens, age, limit, elapsed, granted, promise>>

NoPromise == -1
MaxLimit == CHOOSE l \in Limits : \A m \in Limits : m <= l

TypeOK ==
    /\ tokens \in 0 .. Capacity(MaxLimit)
    /\ age \in 0 .. Minute
    /\ limit \in Limits
    /\ elapsed \in 0 .. MaxElapsed
    /\ granted \in Nat
    /\ promise \in NoPromise .. Minute

Absent == tokens = 0 /\ age = Minute

Init ==
    /\ Absent
    /\ limit \in Limits
    /\ elapsed = 0 /\ granted = 0
    /\ promise = NoPromise

Available == Refilled(tokens, age, limit)

Promised(t) == IF promise = NoPromise THEN RetryAfter(t, limit) ELSE promise

\* Enough tokens: pay.
AcquireAllowed ==
    /\ Available >= Cost
    /\ tokens' = Available - Cost
    /\ age' = 0
    /\ granted' = granted + 1
    /\ promise' = NoPromise
    /\ UNCHANGED <<limit, elapsed>>

\* Mutant: a refusal stamps the bucket without keeping what was refilled.
AcquireRefused_LosesRefill ==
    /\ Available < Cost
    /\ age' = 0
    /\ promise' = Promised(Available)
    /\ UNCHANGED <<tokens, limit, elapsed, granted>>

\* Mutant: a refusal keeps what was refilled and the old stamp.
AcquireRefused_OldStamp ==
    /\ Available < Cost
    /\ tokens' = Available
    /\ promise' = Promised(Available)
    /\ UNCHANGED <<age, limit, elapsed, granted>>

\* Too few: the refill is kept, and the client told how long to wait.
AcquireRefused ==
    /\ Available < Cost
    /\ tokens' = Available
    /\ age' = 0
    /\ promise' = Promised(Available)
    /\ UNCHANGED <<limit, elapsed, granted>>

\* An admin gives the key another limit; the bucket learns of it when it is
\* used next.  A Retry-After given out under the old limit is void.
Patch(l) ==
    /\ l # limit
    /\ limit' = l
    /\ promise' = NoPromise
    /\ UNCHANGED <<tokens, age, elapsed, granted>>

Tick ==
    /\ elapsed < MaxElapsed
    /\ age' = Least(Minute, age + 1)
    /\ elapsed' = elapsed + 1
    /\ promise' = IF promise > 0 THEN promise - 1 ELSE promise
    /\ UNCHANGED <<tokens, limit, granted>>

\* A window of observation begins.
Mark ==
    /\ elapsed' = 0 /\ granted' = 0
    /\ UNCHANGED <<tokens, age, limit, promise>>

\* The process restarts: the buckets are gone, and a new window begins.
Restart ==
    /\ tokens' = 0 /\ age' = Minute
    /\ elapsed' = 0 /\ granted' = 0
    /\ promise' = NoPromise
    /\ UNCHANGED limit

Next ==
    \/ AcquireAllowed
    \/ AcquireRefused
    \/ \E l \in Limits : Patch(l)
    \/ Tick
    \/ Mark
    \/ Restart

Spec == Init /\ [][Next]_vars

-------------------------------------------------------------------------------
\* In no window of the process's life are more requests granted than the
\* largest limit allows: a full bucket and what is refilled meanwhile.
WindowBound ==
    granted * Cost <= Capacity(MaxLimit) + elapsed * RefillRate(MaxLimit)

\* A refused client that waits as long as it was told is served, provided no
\* one else of the key was and the limit stayed; requests refused meanwhile do
\* not push it back.
RetryAfterHonest == promise = 0 => Available >= Cost

\* The inductive invariants behind them.  What was granted is bounded together
\* with what the bucket could still be credited, at the largest limit; and what
\* is missing comes in while a refused client waits.
GrantInv ==
    granted * Cost + Refilled(tokens, age, MaxLimit)
        <= Capacity(MaxLimit) + elapsed * RefillRate(MaxLimit)

PromiseInv == promise # NoPromise => Available + promise * RefillRate(limit) >= Cost

\* Crediting the time at the next use, at the limit of that moment, cannot be
\* told from topping the bucket up at every tick.
Ideal == INSTANCE IdealBucket WITH level <- Available

ImplementsIdeal == Ideal!Spec
===============================================================================
