------------------------------ MODULE RedisBucket ------------------------------
(***************************************************************************)
(* RedisTokenBucket (app/core/ratelimit.py): one bucket shared by all      *)
(* replicas.  A replica reads its clock, then sends the script with that   *)
(* reading; the script runs atomically on the server when it gets there.   *)
(* In between, time passes and other calls may overtake it.                *)
(*                                                                         *)
(* All times are kept relative to the present: a call carries the ticks    *)
(* since its clock reading, the bucket the ticks since the reading it was  *)
(* stamped with (saturated, see MaxLag).  The replicas' clocks agree.      *)
(* Names are not those of TokenBucket: the theorems about both share their *)
(* arithmetic and are in one module.                                       *)
(***************************************************************************)
EXTENDS Bucket

CONSTANTS
    Calls,        \* script calls that may be under way at the same time
    Limit,        \* requests per minute
    MaxDelay,     \* bound: ticks a call may take to reach the server
    MaxWindow     \* bound: the longest window observed

ASSUME RedisAssumption ==
    /\ Limit \in Nat \ {0}
    /\ MaxDelay \in Nat /\ MaxWindow \in Nat

VARIABLES
    shared, lag,       \* the hash: tokens, and the ticks since ts
    unused,            \* ticks since the key's last PEXPIRE
    delay,             \* the calls under way: ticks since their reading
    window, grants,    \* history: the window of observation
    renewed,           \* history: how often a call of it found the key expired
    rewound            \* history: ticks overtaken calls of it put the stamp back

redisVars == <<shared, lag, unused, delay, window, grants, renewed, rewound>>

NotSent == -1
MaxLag == Minute + MaxDelay

Pending == {c \in Calls : delay[c] # NotSent}

RedisTypeOK ==
    /\ shared \in 0 .. Capacity(Limit)
    /\ lag \in 0 .. MaxLag
    /\ unused \in 0 .. Minute
    /\ delay \in [Calls -> NotSent .. MaxDelay]
    /\ window \in 0 .. MaxWindow
    /\ grants \in Nat
    /\ renewed \in Nat
    /\ rewound \in Nat

\* PEXPIRE ceil(capacity / rate * 1000): the key goes a minute after its last
\* use.  It does not exist before its first.
Expired == unused = Minute

RedisInit ==
    /\ shared = 0 /\ lag = MaxLag /\ unused = Minute
    /\ delay = [c \in Calls |-> NotSent]
    /\ window = 0 /\ grants = 0 /\ renewed = 0 /\ rewound = 0

\* acquire: read the clock and send the script.
Send(c) ==
    /\ delay[c] = NotSent
    /\ delay' = [delay EXCEPT ![c] = 0]
    /\ UNCHANGED <<shared, lag, unused, window, grants, renewed, rewound>>

\* Mutant: the time between the two readings, whichever is the later.
Elapsed_Absolute(d) == IF lag > d THEN lag - d ELSE d - lag

\* math.max(0, now - ts), for a call whose now is d ticks old.
Elapsed(d) == IF lag > d THEN lag - d ELSE 0

\* Mutant: the capacity does not bound what accumulates while idle.
Filled_NoCapacity(d) ==
    IF Expired THEN Capacity(Limit)
               ELSE shared + Elapsed(d) * RefillRate(Limit)

\* The refill the script computes.
Filled(d) ==
    IF Expired THEN Capacity(Limit) ELSE Refilled(shared, Elapsed(d), Limit)

\* The ticks between the reading a call carries and a later one the bucket has
\* been stamped with already.
Overtaken(d) == IF d > lag THEN d - lag ELSE 0

\* The script runs: refill, consume if possible, stamp, set the expiry.  The
\* stamp is the call's reading, be it older than the one it replaces.
Execute(c) ==
    LET d == delay[c]
    IN  /\ d # NotSent
        /\ lag' = d
        /\ unused' = 0
        /\ renewed' = IF Expired THEN renewed + 1 ELSE renewed
        /\ rewound' = rewound + Overtaken(d)
        /\ delay' = [delay EXCEPT ![c] = NotSent]
        /\ \/ /\ Filled(d) >= Cost
              /\ shared' = Filled(d) - Cost
              /\ grants' = grants + 1
           \/ /\ Filled(d) < Cost
              /\ shared' = Filled(d)
              /\ UNCHANGED grants
        /\ UNCHANGED window

RedisTick ==
    /\ window < MaxWindow
    /\ \A c \in Pending : delay[c] < MaxDelay
    /\ delay' = [c \in Calls |-> IF c \in Pending THEN delay[c] + 1 ELSE NotSent]
    /\ lag' = Least(MaxLag, lag + 1)
    /\ unused' = Least(Minute, unused + 1)
    /\ window' = window + 1
    /\ UNCHANGED <<shared, grants, renewed, rewound>>

\* A window of observation begins.
RedisMark ==
    /\ window' = 0 /\ grants' = 0 /\ renewed' = 0 /\ rewound' = 0
    /\ UNCHANGED <<shared, lag, unused, delay>>

RedisNext ==
    \/ \E c \in Calls : Send(c) \/ Execute(c)
    \/ RedisTick
    \/ RedisMark

RedisSpec == RedisInit /\ [][RedisNext]_redisVars

-------------------------------------------------------------------------------
\* However the replicas' calls overtake each other, together they are granted no
\* more than the bucket's capacity and what is refilled during the window, each
\* tick credited once, but for the ticks overtaken calls have put the stamp back
\* by: those are credited again.  The time a call is under way counts too, and
\* once more whenever the key had expired: it comes back full, stamped with a
\* reading from before.
SharedBound ==
    grants * Cost
        <= Capacity(Limit)
             + (window + rewound + MaxDelay * (1 + renewed)) * RefillRate(Limit)

\* What the comment on the script promises: it runs on the server "so concurrent
\* replicas can't race", and no time is credited twice whatever the order the
\* calls arrive in.
NothingCreditedTwice ==
    grants * Cost
        <= Capacity(Limit) + (window + MaxDelay * (1 + renewed)) * RefillRate(Limit)
===============================================================================
