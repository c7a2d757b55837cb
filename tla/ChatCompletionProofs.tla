------------------------ MODULE ChatCompletionProofs ------------------------
(***************************************************************************)
(* Theorems about ConcurrencyLimiter and, from "Slots" on, ChatCompletion, *)
(* for every number of requests, keys, tenants, models and aliases, every  *)
(* cap and every TTL: the endpoint drives the limiter as                   *)
(* ConcurrencyLimiter says, so that what is proved of it holds there, and  *)
(* the cache answers for the right tenant and model, in time.  From        *)
(* "Streams" on, about Stream: how the streams of its other branch end,    *)
(* and what is captured of them.                                           *)
(***************************************************************************)
EXTENDS ChatCompletion, Stream, FiniteSetTheorems, WellFoundedInduction, TLAPS

(***************************************************************************)
(* The caps, and the finite sets of requests that are counted.             *)
(***************************************************************************)
LEMMA CapsFacts ==
    /\ Limits \subseteq Nat
    /\ \A k \in Keys : LimitsOf[k] \subseteq Limits
    /\ \A k \in Keys : LimitsOf[k] \subseteq Nat
BY LimiterAssumption DEF Limits

LEMMA RequestSets ==
    ASSUME NEW S \in SUBSET Requests
    PROVE  /\ IsFiniteSet(S)
           /\ Cardinality(S) \in Nat
           /\ \A r \in S : Cardinality(S \ {r}) = Cardinality(S) - 1
           /\ \A r \in Requests \ S : Cardinality(S \cup {r}) = Cardinality(S) + 1
<1>1. IsFiniteSet(S)
  BY FS_Subset, LimiterAssumption
<1> QED
  BY <1>1, FS_CardinalityType, FS_RemoveElement, FS_AddElement

(***************************************************************************)
(* The type invariant.                                                     *)
(***************************************************************************)
LEMMA InitTypeOK == Init => TypeOK
<1> SUFFICES ASSUME Init PROVE TypeOK
  OBVIOUS
<1>1. cap \in Caps
  BY DEF Init, Caps
<1>2. Idle \in Request
  BY DEF Idle, Request
<1> QED
  BY <1>1, <1>2 DEF Init, TypeOK

LEMMA NextTypeOK == TypeOK /\ [Next]_vars => TypeOK'
<1> SUFFICES ASSUME TypeOK, [Next]_vars PROVE TypeOK'
  OBVIOUS
<1>1. Idle \in Request
  BY DEF Idle, Request
<1>3. \A r \in Requests : req[r] \in Request
  BY DEF TypeOK
<1>4. ASSUME NEW r \in Requests, NEW k \in Keys, Resolve(r, k)
      PROVE  TypeOK'
  <2>1. cap[k] \in Limits
    BY DEF TypeOK, Caps
  <2>2. [pc |-> "resolved", key |-> k, limit |-> cap[k]] \in Request
    BY <2>1 DEF Request
  <2> QED
    BY <1>4, <2>2 DEF Resolve, TypeOK
<1>5. ASSUME NEW r \in Requests, Reject(r)
      PROVE  TypeOK'
  BY <1>1, <1>5 DEF Reject, TypeOK
<1>6. ASSUME NEW r \in Requests, Acquire(r)
      PROVE  TypeOK'
  <2>1. [req[r] EXCEPT !.pc = "running"] \in Request
    BY <1>3 DEF Request
  <2>2. req' \in [Requests -> Request]
    BY <1>6, <2>1 DEF Acquire, TypeOK
  <2>3. \/ inflight' = inflight
        \/ inflight' = [inflight EXCEPT ![req[r].key] = @ + 1]
    BY <1>6 DEF Acquire
  <2>4. inflight' \in [Keys -> Nat]
    BY <2>3 DEF TypeOK
  <2> QED
    BY <1>6, <2>2, <2>4 DEF Acquire, TypeOK
<1>7. ASSUME NEW r \in Requests, Finish(r) \/ StreamDone(r)
      PROVE  TypeOK'
  <2>1. inflight' \in [Keys -> Nat]
    BY <1>7 DEF Finish, StreamDone, Release, TypeOK
  <2> QED
    BY <1>1, <1>7, <2>1 DEF Finish, StreamDone, TypeOK
<1>8. ASSUME NEW r \in Requests, HandOff(r)
      PROVE  TypeOK'
  <2>1. [req[r] EXCEPT !.pc = "streaming"] \in Request
    BY <1>3 DEF Request
  <2> QED
    BY <1>8, <2>1 DEF HandOff, TypeOK
<1>9. ASSUME NEW k \in Keys, NEW limit \in LimitsOf[k], Patch(k, limit)
      PROVE  TypeOK'
  <2>1. cap' \in Caps
    BY <1>9, CapsFacts DEF Patch, TypeOK, Caps
  <2> QED
    BY <1>9, <2>1 DEF Patch, TypeOK
<1>10. CASE UNCHANGED vars
  BY <1>10 DEF vars, TypeOK, Caps
<1> QED
  BY <1>4, <1>5, <1>6, <1>7, <1>8, <1>9, <1>10 DEF Next

\* The caps, the counts and the requests keep their types.
THEOREM TypeCorrect == Spec => []TypeOK
BY InitTypeOK, NextTypeOK, PTL DEF Spec

(***************************************************************************)
(* The inductive invariant.                                                *)
(***************************************************************************)
LEMMA InitIInv == Init => IInv
<1> SUFFICES ASSUME Init PROVE IInv
  OBVIOUS
<1>1. \A k \in Keys : Active(k) = {} /\ CountedActive(k) = {}
  BY DEF Init, Idle, Active, CountedActive
<1>2. Cardinality({}) = 0
  BY FS_EmptySet
<1> QED
  BY <1>1, <1>2, InitTypeOK
     DEF Init, Idle, IInv, Snapshots, NoGhostSlots, CounterExact

LEMMA NextSnapshots == TypeOK /\ Snapshots /\ [Next]_vars => Snapshots'
<1> SUFFICES ASSUME TypeOK, Snapshots, [Next]_vars,
                    NEW q \in Requests, req'[q].pc # "idle"
             PROVE  req'[q].key \in Keys /\ req'[q].limit \in LimitsOf[req'[q].key]
  BY DEF Snapshots
<1>1. ASSUME NEW r \in Requests, NEW k \in Keys, Resolve(r, k)
      PROVE  req'[q].key \in Keys /\ req'[q].limit \in LimitsOf[req'[q].key]
  <2>1. cap[k] \in LimitsOf[k]
    BY DEF TypeOK, Caps
  <2> QED
    BY <1>1, <2>1 DEF Resolve, TypeOK, Snapshots
<1>2. ASSUME req'[q].key = req[q].key, req'[q].limit = req[q].limit, req[q].pc # "idle"
      PROVE  req'[q].key \in Keys /\ req'[q].limit \in LimitsOf[req'[q].key]
  BY <1>2 DEF Snapshots
<1>3. ASSUME NEW r \in Requests, Reject(r) \/ Finish(r) \/ StreamDone(r)
      PROVE  req'[q] = req[q]
  BY <1>3 DEF Reject, Finish, StreamDone, Idle, TypeOK
<1>4. ASSUME NEW r \in Requests, Acquire(r) \/ HandOff(r)
      PROVE  /\ req'[q].key = req[q].key /\ req'[q].limit = req[q].limit
             /\ req[q].pc # "idle"
  BY <1>4 DEF Acquire, HandOff, TypeOK, Request
<1>5. ASSUME NEW k \in Keys, NEW limit \in LimitsOf[k], Patch(k, limit)
      PROVE  req'[q] = req[q]
  BY <1>5 DEF Patch
<1>6. CASE UNCHANGED vars
  BY <1>2, <1>6 DEF vars
<1> QED
  BY <1>1, <1>2, <1>3, <1>4, <1>5, <1>6 DEF Next

\* How the active requests of a key change when a slot is taken ...
LEMMA Joining ==
    ASSUME TypeOK, Snapshots, NEW r \in Requests, Acquire(r), NEW x \in Keys
    PROVE  /\ r \notin Active(x)
           /\ Active(x)' = IF x = req[r].key THEN Active(x) \cup {r} ELSE Active(x)
           /\ CountedActive(x)' =
                IF x = req[r].key /\ Counted(req[r].limit)
                  THEN CountedActive(x) \cup {r} ELSE CountedActive(x)
<1>1. /\ req[r].pc = "resolved" /\ req'[r].pc = "running"
      /\ req'[r].key = req[r].key /\ req'[r].limit = req[r].limit
      /\ \A q \in Requests \ {r} : req'[q] = req[q]
  BY DEF Acquire, TypeOK, Request
<1> QED
  BY <1>1 DEF Active, CountedActive

\* ... and when it is given back.
LEMMA Leaving ==
    ASSUME TypeOK, NEW r \in Requests, Finish(r) \/ StreamDone(r), NEW x \in Keys
    PROVE  /\ x = req[r].key => r \in Active(x)
           /\ Active(x)' = IF x = req[r].key THEN Active(x) \ {r} ELSE Active(x)
           /\ CountedActive(x)' =
                IF x = req[r].key THEN CountedActive(x) \ {r} ELSE CountedActive(x)
           /\ r \in CountedActive(x) <=> x = req[r].key /\ Counted(req[r].limit)
<1>1. /\ req[r].pc \in {"running", "streaming"} /\ req'[r].pc = "idle"
      /\ \A q \in Requests \ {r} : req'[q] = req[q]
  BY DEF Finish, StreamDone, TypeOK, Idle
<1> QED
  BY <1>1 DEF Active, CountedActive

\* The other steps of a request leave the active ones alone.
LEMMA Staying ==
    ASSUME TypeOK, NEW x \in Keys,
           \/ \E r \in Requests : \/ \E k \in Keys : Resolve(r, k)
                                  \/ Reject(r) \/ HandOff(r)
           \/ \E k \in Keys : \E limit \in LimitsOf[k] : Patch(k, limit)
           \/ UNCHANGED vars
    PROVE  /\ Active(x)' = Active(x)
           /\ CountedActive(x)' = CountedActive(x)
           /\ inflight' = inflight
<1>1. ASSUME NEW r \in Requests, NEW k \in Keys, Resolve(r, k)
      PROVE  Active(x)' = Active(x) /\ CountedActive(x)' = CountedActive(x)
  BY <1>1 DEF Resolve, Active, CountedActive, TypeOK
<1>2. ASSUME NEW r \in Requests, Reject(r)
      PROVE  Active(x)' = Active(x) /\ CountedActive(x)' = CountedActive(x)
  BY <1>2 DEF Reject, Idle, Active, CountedActive, TypeOK
<1>3. ASSUME NEW r \in Requests, HandOff(r)
      PROVE  Active(x)' = Active(x) /\ CountedActive(x)' = CountedActive(x)
  BY <1>3 DEF HandOff, Active, CountedActive, TypeOK, Request
<1>4. ASSUME req' = req
      PROVE  Active(x)' = Active(x) /\ CountedActive(x)' = CountedActive(x)
  BY <1>4 DEF Active, CountedActive
<1> QED
  BY <1>1, <1>2, <1>3, <1>4 DEF Resolve, Reject, HandOff, Patch, vars

LEMMA NextCounts == IInv /\ [Next]_vars => NoGhostSlots' /\ CounterExact'
<1> SUFFICES ASSUME IInv, [Next]_vars, NEW x \in Keys
             PROVE  /\ inflight'[x] <= Cardinality(CountedActive(x)')
                    /\ AlwaysCapped(x) => inflight'[x] = Cardinality(Active(x)')
  BY DEF NoGhostSlots, CounterExact
<1>1. TypeOK /\ Snapshots
  BY DEF IInv
<1>2. /\ inflight[x] \in Nat
      /\ inflight[x] <= Cardinality(CountedActive(x))
      /\ AlwaysCapped(x) => inflight[x] = Cardinality(Active(x))
  BY DEF IInv, TypeOK, NoGhostSlots, CounterExact
<1>3. Active(x) \in SUBSET Requests /\ CountedActive(x) \in SUBSET Active(x)
  BY DEF Active, CountedActive
<1>4. ASSUME NEW r \in Requests, Acquire(r)
      PROVE  /\ inflight'[x] <= Cardinality(CountedActive(x)')
             /\ AlwaysCapped(x) => inflight'[x] = Cardinality(Active(x)')
  <2>1. CASE x = req[r].key /\ Counted(req[r].limit)
    <3>1. inflight'[x] = inflight[x] + 1
      BY <1>4, <2>1, <1>1 DEF Acquire, TypeOK
    <3>2. /\ Cardinality(Active(x)') = Cardinality(Active(x)) + 1
          /\ Cardinality(CountedActive(x)') = Cardinality(CountedActive(x)) + 1
          /\ Cardinality(CountedActive(x)) \in Nat
      BY <1>1, <1>3, <1>4, <2>1, Joining, RequestSets
    <3> QED
      BY <1>2, <3>1, <3>2
  <2>2. CASE x = req[r].key /\ ~Counted(req[r].limit)
    <3>1. ~AlwaysCapped(x)
      BY <1>1, <1>4, <2>2, CapsFacts
         DEF Snapshots, Acquire, Counted, AlwaysCapped
    <3>2. inflight'[x] = inflight[x]
      BY <1>4, <2>2 DEF Acquire
    <3> QED
      BY <1>1, <1>2, <1>4, <2>2, <3>1, <3>2, Joining
  <2>3. CASE x # req[r].key
    <3>1. inflight'[x] = inflight[x]
      BY <1>1, <1>4, <2>3 DEF Acquire, TypeOK
    <3> QED
      BY <1>1, <1>2, <1>4, <2>3, <3>1, Joining
  <2> QED
    BY <2>1, <2>2, <2>3
<1>5. ASSUME NEW r \in Requests, Finish(r) \/ StreamDone(r)
      PROVE  /\ inflight'[x] <= Cardinality(CountedActive(x)')
             /\ AlwaysCapped(x) => inflight'[x] = Cardinality(Active(x)')
  <2>1. CASE x = req[r].key
    <3>1. inflight'[x] = IF inflight[x] <= 1 THEN 0 ELSE inflight[x] - 1
      BY <1>1, <1>5, <2>1 DEF Finish, StreamDone, Release, TypeOK
    <3>2. /\ Cardinality(Active(x)') = Cardinality(Active(x)) - 1
          /\ Cardinality(Active(x)') \in Nat
      <4>1. r \in Active(x) /\ Active(x)' = Active(x) \ {r}
        BY <1>1, <1>5, <2>1, Leaving
      <4>2. Active(x) \ {r} \in SUBSET Requests
        BY <1>3
      <4> QED
        BY <1>3, <4>1, <4>2, RequestSets
    <3>3. /\ \/ Cardinality(CountedActive(x)') = Cardinality(CountedActive(x)) - 1
             \/ Cardinality(CountedActive(x)') = Cardinality(CountedActive(x))
          /\ Cardinality(CountedActive(x)') \in Nat
          /\ Cardinality(CountedActive(x)) \in Nat
      <4>1. CountedActive(x)' = CountedActive(x) \ {r}
        BY <1>1, <1>5, <2>1, Leaving
      <4>2. CountedActive(x) \ {r} \in SUBSET Requests
        BY <1>3
      <4>3. r \notin CountedActive(x) => CountedActive(x) \ {r} = CountedActive(x)
        OBVIOUS
      <4> QED
        BY <1>3, <4>1, <4>2, <4>3, RequestSets
    <3>4. Cardinality(Active(x)) \in Nat
      BY <1>3, RequestSets
    <3> QED
      BY <1>2, <3>1, <3>2, <3>3, <3>4
  <2>2. CASE x # req[r].key
    <3>1. inflight'[x] = inflight[x]
      BY <1>1, <1>5, <2>2 DEF Finish, StreamDone, Release, TypeOK
    <3> QED
      BY <1>1, <1>2, <1>5, <2>2, <3>1, Leaving
  <2> QED
    BY <2>1, <2>2
<1> QED
  BY <1>1, <1>2, <1>4, <1>5, Staying DEF Next

LEMMA Inductive == Spec => []IInv
<1>1. IInv /\ [Next]_vars => IInv'
  BY NextTypeOK, NextSnapshots, NextCounts DEF IInv
<1> QED
  BY <1>1, InitIInv, PTL DEF Spec

\* However requests end and whatever an admin does to the cap of their key, no
\* slot stays taken by a request that is over.
THEOREM NoSlotLost == Spec => []NoGhostSlots
<1>1. IInv => NoGhostSlots
  BY DEF IInv
<1> QED
  BY <1>1, Inductive, PTL

\* For a key that stays capped, the count is that of its requests under way.
THEOREM CountExact == Spec => []CounterExact
<1>1. IInv => CounterExact
  BY DEF IInv
<1> QED
  BY <1>1, Inductive, PTL

\* Such a key never gets more requests in than the cap allows.
THEOREM CapHolds == Spec => NoOverbooking
<1>1. ASSUME IInv, [Next]_vars, NEW r \in Requests,
             req[r].pc = "resolved", req'[r].pc = "running", AlwaysCapped(req[r].key)
      PROVE  Cardinality(Active(req[r].key)') <= req[r].limit
  <2> DEFINE k == req[r].key
  <2>1. TypeOK /\ Snapshots
    BY <1>1 DEF IInv
  <2>2. k \in Keys /\ req[r].limit \in LimitsOf[k]
    BY <1>1, <2>1 DEF Snapshots
  <2>3. req[r].limit \in Nat \ {0}
    BY <1>1, <2>2, CapsFacts DEF AlwaysCapped
  <2>4. Acquire(r)
    BY <1>1, <2>1
       DEF Next, vars, Resolve, Reject, Acquire, Finish, HandOff, StreamDone,
           Patch, Idle, TypeOK, Request
  <2>5. inflight[k] < req[r].limit
    BY <2>1, <2>2, <2>3, <2>4 DEF Acquire, Full, TypeOK
  <2>6. inflight[k] = Cardinality(Active(k))
    BY <1>1, <2>2 DEF IInv, CounterExact
  <2>7. Active(k) \in SUBSET Requests
    BY DEF Active
  <2>8. Cardinality(Active(k)') = Cardinality(Active(k)) + 1
    <3> SUFFICES ASSUME NEW x \in Keys, x = req[r].key
                 PROVE  Cardinality(Active(k)') = Cardinality(Active(k)) + 1
      BY <2>2
    <3>1. req'[r].key = x
      BY <2>1, <2>4 DEF Acquire, TypeOK, Request
    <3>2. r \notin Active(x) /\ Active(x)' = Active(x) \cup {r}
      BY <2>1, <2>4, Joining
    <3>3. Active(k) = Active(x) /\ Active(k)' = Active(x)'
      BY <3>1 DEF Active
    <3> QED
      BY <2>7, <3>2, <3>3, RequestSets
  <2> QED
    BY <2>3, <2>5, <2>6, <2>7, <2>8, RequestSets
<1>2. IInv /\ [Next]_vars =>
        [\A r \in Requests :
           LET k == req[r].key
           IN  req[r].pc = "resolved" /\ req'[r].pc = "running" /\ AlwaysCapped(k)
                 => Cardinality(Active(k)') <= req[r].limit]_vars
  BY <1>1
<1> QED
  BY <1>2, Inductive, PTL DEF Spec, NoOverbooking

-------------------------------------------------------------------------------
(* Slots *)

\* Every step takes one step of the limiter along, or none.
LEMMA TakesLimiterAlong == [ChatNext]_allVars => [Next]_vars
<1> SUFFICES ASSUME [ChatNext]_allVars PROVE [Next]_vars
  OBVIOUS
<1>1. ASSUME NEW r \in Requests, NEW k \in Keys, NEW name, Arrives(r, k, name)
      PROVE  [Next]_vars
  BY <1>1 DEF Arrives, Next
<1>2. ASSUME NEW r \in Requests,
             Refused(r) \/ Admitted(r) \/ Hit(r) \/ Answered(r) \/ Fails(r)
               \/ StreamStarts(r) \/ StreamEnds(r)
      PROVE  [Next]_vars
  BY <1>2 DEF Refused, Admitted, Hit, Answered, Fails, StreamStarts, StreamEnds, Next
<1>3. ASSUME NEW r \in Requests, Checks(r) \/ Miss(r)
      PROVE  [Next]_vars
  BY <1>3 DEF Checks, Miss
<1>4. ASSUME NEW k \in Keys, NEW limit \in LimitsOf[k], KeyPatched(k, limit)
      PROVE  [Next]_vars
  BY <1>4 DEF KeyPatched, Next
<1>5. CASE Tick \/ \E a \in Aliases, m \in Models : Repoint(a, m)
  BY <1>5 DEF Tick, Repoint
<1>6. CASE UNCHANGED allVars
  BY <1>6 DEF allVars
<1> QED
  BY <1>1, <1>2, <1>3, <1>4, <1>5, <1>6 DEF ChatNext

\* create_chat_completion uses the limiter as its specification says.
THEOREM DrivesLimiter == ChatSpec => Spec
<1>1. ChatInit => Init
  BY DEF ChatInit
<1> QED
  BY <1>1, TakesLimiterAlong, PTL DEF ChatSpec, Spec

\* Whatever way a request takes through the endpoint, no slot is lost.
THEOREM ChatLosesNoSlot == ChatSpec => []NoGhostSlots
BY DrivesLimiter, NoSlotLost, PTL

\* The count of a key that stays capped is exact.
THEOREM ChatCountsExactly == ChatSpec => []CounterExact
BY DrivesLimiter, CountExact, PTL

\* Its cap holds.
THEOREM ChatHoldsCap == ChatSpec => NoOverbooking
BY DrivesLimiter, CapHolds, PTL

-------------------------------------------------------------------------------
(* Types *)

\* What a request carries: a name, and past the checks a model.
Carried ==
    \A r \in Requests :
        /\ chat[r].at = "door" => chat[r].asked \in Models \cup Aliases
        /\ chat[r].at \notin {"idle", "door"} => chat[r].model \in Models

ChatInv == ChatTypeOK /\ Snapshots /\ Carried

LEMMA ChatFields ==
    ASSUME chat \in [Requests -> Chat], NEW r \in Requests
    PROVE  /\ chat[r].at \in Stages
           /\ chat[r].asked \in Models \cup Aliases \cup {NoModel}
           /\ chat[r].model \in Models \cup {NoModel}
BY DEF Chat

LEMMA InitChat == ChatInit => ChatInv
<1> SUFFICES ASSUME ChatInit PROVE ChatInv
  OBVIOUS
<1>1. TypeOK
  BY InitTypeOK DEF ChatInit
<1>2. Snapshots
  BY DEF ChatInit, Init, Idle, Snapshots
<1>3. chat \in [Requests -> Chat] /\ Carried
  BY DEF ChatInit, NoChat, Chat, Stages, Carried
<1>4. DOMAIN cache = {} /\ cache \in [DOMAIN cache -> Entry]
  BY DEF ChatInit
<1> QED
  BY <1>1, <1>2, <1>3, <1>4 DEF ChatInit, ChatTypeOK, ChatInv

\* An alias resolves to a model.
LEMMA TargetTyped ==
    ASSUME aliasOf \in [Aliases -> Models], NEW name \in Models \cup Aliases
    PROVE  Target(name) \in Models
BY DEF Target

\* What the handler stores, it stores for its tenant and its model.
LEMMA KeyTyped ==
    ASSUME ChatInv, NEW r \in Requests, req[r].pc # "idle", chat[r].at \in {"lookup", "calling"}
    PROVE  /\ CacheKey(r) \in CacheKeys
           /\ TenantOf[req[r].key] \in Tenants /\ chat[r].model \in Models
           /\ CacheKey(r) = <<TenantOf[req[r].key], chat[r].model>>
<1>1. req[r].key \in Keys
  BY DEF ChatInv, Snapshots
<1>2. TenantOf[req[r].key] \in Tenants
  BY <1>1, ChatAssumption
<1>3. chat[r].model \in Models
  BY DEF ChatInv, Carried
<1> QED
  BY <1>2, <1>3 DEF CacheKey, CacheKeys

LEMMA ChatMoves ==
    ASSUME ChatInv, [ChatNext]_allVars
    PROVE  chat' \in [Requests -> Chat] /\ Carried' /\ aliasOf' \in [Aliases -> Models]
<1>1. /\ chat \in [Requests -> Chat] /\ aliasOf \in [Aliases -> Models]
      /\ \A r \in Requests :
            /\ chat[r].at = "door" => chat[r].asked \in Models \cup Aliases
            /\ chat[r].at \notin {"idle", "door"} => chat[r].model \in Models
  BY DEF ChatInv, ChatTypeOK, Carried
<1>2. NoChat \in Chat /\ NoChat.at = "idle"
  BY DEF NoChat, Chat, Stages
<1>3. ASSUME NEW r \in Requests, Forget(r), aliasOf' = aliasOf
      PROVE  chat' \in [Requests -> Chat] /\ Carried' /\ aliasOf' \in [Aliases -> Models]
  BY <1>1, <1>2, <1>3 DEF Forget, Carried
<1>4. ASSUME NEW r \in Requests, NEW stage \in {"lookup", "calling", "streaming"},
             Moves(r, stage), chat[r].at \notin {"idle", "door"}, aliasOf' = aliasOf
      PROVE  chat' \in [Requests -> Chat] /\ Carried' /\ aliasOf' \in [Aliases -> Models]
  <2>1. chat' = [chat EXCEPT ![r].at = stage]
    BY <1>4 DEF Moves
  <2>2. chat' \in [Requests -> Chat]
    BY <1>1, <2>1 DEF Chat, Stages
  <2>3. \A q \in Requests : chat'[q].model = chat[q].model /\ (q # r => chat'[q] = chat[q])
    BY <1>1, <2>1 DEF Chat
  <2>4. chat'[r].at = stage
    BY <1>1, <2>1 DEF Chat
  <2> QED
    BY <1>1, <1>4, <2>2, <2>3, <2>4 DEF Carried
<1>5. ASSUME NEW r \in Requests, NEW k \in Keys, NEW name \in Models \cup Aliases, Arrives(r, k, name)
      PROVE  chat' \in [Requests -> Chat] /\ Carried' /\ aliasOf' \in [Aliases -> Models]
  <2>1. [at |-> "door", asked |-> name, model |-> NoModel] \in Chat
    BY DEF Chat, Stages
  <2> QED
    BY <1>1, <1>5, <2>1 DEF Arrives, Carried
<1>6. ASSUME NEW r \in Requests, Checks(r)
      PROVE  chat' \in [Requests -> Chat] /\ Carried' /\ aliasOf' \in [Aliases -> Models]
  <2> DEFINE m == Target(chat[r].asked)
  <2>1. chat[r].asked \in Models \cup Aliases
    BY <1>1, <1>6 DEF Checks
  <2>2. m \in Models
    BY <1>1, <2>1, TargetTyped
  <2> HIDE DEF m
  <2>3. chat' = [chat EXCEPT ![r].at = "checked", ![r].model = m]
    BY <1>6 DEF Checks, m
  <2>4. chat' \in [Requests -> Chat]
    BY <1>1, <2>2, <2>3 DEF Chat, Stages
  <2>5. chat'[r].at = "checked" /\ chat'[r].model = m /\ \A q \in Requests : q # r => chat'[q] = chat[q]
    BY <1>1, <2>3 DEF Chat
  <2>6. aliasOf' = aliasOf
    BY <1>6 DEF Checks
  <2> QED
    BY <1>1, <2>2, <2>4, <2>5, <2>6 DEF Carried
<1>7. ASSUME NEW a \in Aliases, NEW m \in Models, Repoint(a, m)
      PROVE  chat' \in [Requests -> Chat] /\ Carried' /\ aliasOf' \in [Aliases -> Models]
  BY <1>1, <1>7 DEF Repoint, Carried
<1>8. CASE Tick \/ UNCHANGED allVars \/ \E k \in Keys : \E limit \in LimitsOf[k] : KeyPatched(k, limit)
  BY <1>1, <1>8 DEF Tick, allVars, KeyPatched, chatVars, Carried
<1>9. ASSUME NEW r \in Requests,
             Refused(r) \/ Hit(r) \/ Answered(r) \/ Fails(r) \/ StreamEnds(r)
      PROVE  chat' \in [Requests -> Chat] /\ Carried' /\ aliasOf' \in [Aliases -> Models]
  BY <1>3, <1>9 DEF Refused, Hit, Answered, Fails, StreamEnds
<1>10. ASSUME NEW r \in Requests, Admitted(r) \/ Miss(r) \/ StreamStarts(r)
      PROVE  chat' \in [Requests -> Chat] /\ Carried' /\ aliasOf' \in [Aliases -> Models]
  BY <1>4, <1>10 DEF Admitted, Miss, StreamStarts
<1> QED
  BY <1>1, <1>5, <1>6, <1>7, <1>8, <1>9, <1>10 DEF ChatNext

\* What a request does to the cache: it stores an entry, pops one, or reads.
CacheStep(r) ==
    \/ /\ CacheKey(r) \in CacheKeys
       /\ CacheKey(r) = <<TenantOf[req[r].key], chat[r].model>>
       /\ cache' = [x \in DOMAIN cache \cup {CacheKey(r)} |->
                      IF x = CacheKey(r)
                      THEN [left |-> Ttl, age |-> 0, tenant |-> TenantOf[req[r].key], model |-> chat[r].model]
                      ELSE cache[x]]
       /\ TenantOf[req[r].key] \in Tenants /\ chat[r].model \in Models
    \/ \E S \in SUBSET DOMAIN cache : cache' = [x \in S |-> cache[x]]

Aging ==
    cache' = [x \in DOMAIN cache |->
                [cache[x] EXCEPT !.left = IF @ > 0 THEN @ - 1 ELSE 0,
                                 !.age = IF @ < Ttl THEN @ + 1 ELSE Ttl]]

LEMMA CacheMoves ==
    ASSUME ChatInv, [ChatNext]_allVars
    PROVE  cache' = cache \/ Aging \/ \E r \in Requests : CacheStep(r)
<1>1. ASSUME NEW r \in Requests, Answered(r)
      PROVE  CacheStep(r)
  <2>1. req[r].pc # "idle" /\ chat[r].at = "calling"
    BY <1>1 DEF Answered, Finish
  <2> QED
    BY <1>1, <2>1, KeyTyped DEF Answered, CacheStep
<1>2. ASSUME NEW r \in Requests, Miss(r)
      PROVE  CacheStep(r)
  BY <1>2 DEF Miss, CacheStep
<1> QED
  BY <1>1, <1>2
     DEF ChatNext, allVars, chatVars, Arrives, Checks, Refused, Admitted, Hit, Fails,
         StreamStarts, StreamEnds, KeyPatched, Repoint, Tick, Aging

-------------------------------------------------------------------------------
(* The cache *)

\* An entry is what its key says, and has as much time left as it has not used.
EntryGood(x, entry) ==
    /\ entry \in Entry
    /\ entry.tenant = x[1] /\ entry.model = x[2]
    /\ entry.left + entry.age = Ttl

CacheInv ==
    /\ DOMAIN cache \subseteq CacheKeys
    /\ cache \in [DOMAIN cache -> Entry]
    /\ \A x \in DOMAIN cache : EntryGood(x, cache[x])

LEMMA EntryAges ==
    ASSUME NEW x, NEW e, EntryGood(x, e)
    PROVE  EntryGood(x, [e EXCEPT !.left = IF @ > 0 THEN @ - 1 ELSE 0,
                                  !.age = IF @ < Ttl THEN @ + 1 ELSE Ttl])
<1> DEFINE l == IF e.left > 0 THEN e.left - 1 ELSE 0
           a == IF e.age < Ttl THEN e.age + 1 ELSE Ttl
<1>1. e \in Entry /\ e.left \in 0 .. Ttl /\ e.age \in 0 .. Ttl /\ Ttl \in Nat /\ e.left + e.age = Ttl
  BY ChatAssumption DEF EntryGood, Entry
<1>2. l \in 0 .. Ttl /\ a \in 0 .. Ttl /\ l + a = Ttl
  BY <1>1
<1> HIDE DEF l, a
<1> DEFINE f == [e EXCEPT !.left = l, !.age = a]
<1>3. f \in Entry /\ f.left = l /\ f.age = a /\ f.tenant = e.tenant /\ f.model = e.model
  BY <1>1, <1>2 DEF Entry
<1> HIDE DEF f
<1>4. EntryGood(x, f)
  BY <1>2, <1>3 DEF EntryGood
<1> QED
  BY <1>4 DEF f, l, a

LEMMA NextCache == ChatInv /\ CacheInv /\ [ChatNext]_allVars => CacheInv'
<1> SUFFICES ASSUME ChatInv, CacheInv, [ChatNext]_allVars PROVE CacheInv'
  OBVIOUS
<1>1. ASSUME DOMAIN cache' \subseteq CacheKeys, cache' = [x \in DOMAIN cache' |-> cache'[x]],
             \A x \in DOMAIN cache' : EntryGood(x, cache'[x])
      PROVE  CacheInv'
  <2>1. \A x \in DOMAIN cache' : cache'[x] \in Entry
    BY <1>1 DEF EntryGood
  <2> QED
    BY <1>1, <2>1 DEF CacheInv
<1>2. CASE cache' = cache
  BY <1>2 DEF CacheInv
<1>3. CASE Aging
  <2>1. DOMAIN cache' = DOMAIN cache /\ cache' = [x \in DOMAIN cache' |-> cache'[x]]
    BY <1>3 DEF Aging
  <2>2. \A x \in DOMAIN cache' : EntryGood(x, cache'[x])
    BY <1>3, EntryAges DEF Aging, CacheInv
  <2> QED
    BY <1>1, <2>1, <2>2 DEF CacheInv
<1>4. ASSUME NEW S \in SUBSET DOMAIN cache, cache' = [x \in S |-> cache[x]]
      PROVE  CacheInv'
  BY <1>1, <1>4 DEF CacheInv
<1>5. ASSUME NEW r \in Requests, CacheStep(r)
      PROVE  CacheInv'
  <2> DEFINE k == CacheKey(r)
             entry == [left |-> Ttl, age |-> 0, tenant |-> TenantOf[req[r].key], model |-> chat[r].model]
  <2>1. CASE /\ k \in CacheKeys /\ k = <<TenantOf[req[r].key], chat[r].model>>
             /\ cache' = [x \in DOMAIN cache \cup {k} |-> IF x = k THEN entry ELSE cache[x]]
             /\ TenantOf[req[r].key] \in Tenants /\ chat[r].model \in Models
    <3>1. EntryGood(k, entry)
      BY <2>1, ChatAssumption DEF EntryGood, Entry
    <3> HIDE DEF k, entry
    <3>2. DOMAIN cache' = DOMAIN cache \cup {k} /\ cache' = [x \in DOMAIN cache' |-> cache'[x]]
      BY <2>1
    <3>3. \A x \in DOMAIN cache' : EntryGood(x, cache'[x])
      BY <2>1, <3>1 DEF CacheInv
    <3> QED
      BY <1>1, <2>1, <3>2, <3>3 DEF CacheInv
  <2> QED
    BY <1>4, <1>5, <2>1 DEF CacheStep
<1> QED
  BY <1>2, <1>3, <1>5, CacheMoves

LEMMA ChatInductive == ChatSpec => [](ChatInv /\ CacheInv)
<1>1. ChatInit => ChatInv /\ CacheInv
  BY InitChat DEF ChatInit, CacheInv
<1>2. ChatInv /\ CacheInv /\ [ChatNext]_allVars => ChatInv' /\ CacheInv'
  <2> SUFFICES ASSUME ChatInv, CacheInv, [ChatNext]_allVars PROVE ChatInv' /\ CacheInv'
    OBVIOUS
  <2>1. TypeOK' /\ Snapshots'
    BY TakesLimiterAlong, NextTypeOK, NextSnapshots DEF ChatInv, ChatTypeOK
  <2>2. CacheInv'
    BY NextCache
  <2> QED
    BY <2>1, <2>2, ChatMoves DEF ChatInv, ChatTypeOK, CacheInv
<1> QED
  BY <1>1, <1>2, PTL DEF ChatSpec

\* The state of the endpoint, its slots and its cache keeps its types.
THEOREM ChatTypeCorrect == ChatSpec => []ChatTypeOK
<1>1. ChatInv => ChatTypeOK
  BY DEF ChatInv
<1> QED
  BY <1>1, ChatInductive, PTL

\* However often aliases are repointed while requests wait and answers are
\* under way, the cache answers for the tenant and the model it was filled for.
THEOREM CacheIsScoped == ChatSpec => CacheScoped
<1>1. ASSUME CacheInv, NEW r \in Requests, Hit(r)
      PROVE  /\ cache[CacheKey(r)].tenant = TenantOf[req[r].key]
             /\ cache[CacheKey(r)].model = chat[r].model
  <2>1. CacheKey(r) \in DOMAIN cache
    BY <1>1 DEF Hit, Cached
  <2> QED
    BY <1>1, <2>1 DEF CacheInv, EntryGood, CacheKey
<1>2. ChatInv /\ CacheInv =>
        [\A r \in Requests : Hit(r) =>
            /\ cache[CacheKey(r)].tenant = TenantOf[req[r].key]
            /\ cache[CacheKey(r)].model = chat[r].model]_allVars
  BY <1>1
<1> QED
  BY <1>2, ChatInductive, PTL DEF CacheScoped

\* No answer is served from the cache once its time is over.
THEOREM CacheIsFresh == ChatSpec => CacheFresh
<1>1. ASSUME CacheInv, NEW r \in Requests, Hit(r)
      PROVE  cache[CacheKey(r)].age < Ttl
  <2>1. CacheKey(r) \in DOMAIN cache /\ Live(cache[CacheKey(r)])
    BY <1>1 DEF Hit, Cached
  <2> QED
    BY <1>1, <2>1, ChatAssumption DEF CacheInv, EntryGood, Entry, Live
<1>2. ChatInv /\ CacheInv => [\A r \in Requests : Hit(r) => cache[CacheKey(r)].age < Ttl]_allVars
  BY <1>1
<1> QED
  BY <1>2, ChatInductive, PTL DEF CacheFresh

(***************************************************************************)
(* Streams.                                                                *)
(***************************************************************************)
Fields == {"pc", "provider", "script", "pos", "seen", "first", "holder", "dones", "failed", "split"}

IsTranslated(s) == KindOf[s.provider] \in Translated
AtEnd(s) == s.pos = End(KindOf[s.provider], s.script)

\* A stream on its way: of a translated one the terminator has been yielded, and
\* counted or waiting to be, when the script is at its end, and not before.
Flowing(s) ==
    /\ s.provider \in Providers /\ s.script \in Scripts[KindOf[s.provider]]
    /\ s.pos \in Nat /\ s.dones \in Nat
    /\ s.failed \in BOOLEAN /\ (s.pc = "ended" \/ s.failed = FALSE)
    /\ s.pc = "opening" =>
         s.first = <<>> /\ s.dones = 0 /\ (IsTranslated(s) => s.pos < End(KindOf[s.provider], s.script))
    /\ s.pc = "handed" =>
         /\ Terminators(s.first) \in Nat
         /\ IsTranslated(s) => Terminators(s.first) = IF AtEnd(s) THEN 1 ELSE 0
    /\ s.pc = "relaying" => (IsTranslated(s) => s.dones = IF AtEnd(s) THEN 1 ELSE 0)
    /\ s.pc = "ended" => /\ IsTranslated(s) => s.dones = 1
                         /\ s.failed => s.dones >= 1

OnCourse(s) ==
    /\ DOMAIN s = Fields /\ s = [f \in Fields |-> s[f]]
    /\ s.pc \in {"idle", "opening", "handed", "relaying", "ended", "left"}
    /\ s.pc # "idle" => Flowing(s)

StreamInv ==
    /\ stream = [r \in Streams |-> stream[r]]
    /\ \A r \in Streams : OnCourse(stream[r])

LEMMA NoTerminator == Terminators(<<>>) = 0
<1>1. {i \in DOMAIN <<>> : <<>>[i].done} = {}
  OBVIOUS
<1> QED
  BY <1>1, FS_EmptySet DEF Terminators

LEMMA OneLine ==
    ASSUME NEW t, NEW u, NEW b \in BOOLEAN
    PROVE  Terminators(<<Line(t, u, b)>>) = IF b THEN 1 ELSE 0
<1> DEFINE chunk == <<Line(t, u, b)>>
<1>1. DOMAIN chunk = {1} /\ chunk[1].done = b
  BY DEF Line
<1>2. {i \in DOMAIN chunk : chunk[i].done} = IF b THEN {1} ELSE {}
  BY <1>1
<1> HIDE DEF chunk
<1>3. Terminators(chunk) = IF b THEN 1 ELSE 0
  BY <1>2, FS_EmptySet, FS_Singleton DEF Terminators
<1> QED
  BY <1>3 DEF chunk

\* An adapter yields one terminator, after the last event.
LEMMA YieldedOnce ==
    ASSUME NEW kind \in Translated, NEW k, NEW script \in Scripts[k], k \in Kinds,
           NEW i \in 1 .. Len(script) + 2, NEW seen
    PROVE  /\ Terminators(Yielded(kind, script, i, seen)) = IF i = End(kind, script) THEN 1 ELSE 0
           /\ i = End(kind, script) => Yielded(kind, script, i, seen) # <<>>
<1>1. Len(script) \in Nat
  BY StreamAssumption
<1>2. End(kind, script) = Len(script) + 2
  BY DEF End, Translated
<1>3. \A t, u : Terminators(<<Line(t, u, FALSE)>>) = 0
  BY OneLine
<1>4. CASE i = Len(script) + 2
  <2>1. ~(i <= Len(script)) /\ i # Len(script) + 1
    BY <1>1, <1>4
  <2>2. Yielded(kind, script, i, seen) = <<Line(NoText, <<>>, TRUE)>>
    BY <2>1, Zenon DEF Yielded
  <2>3. Terminators(<<Line(NoText, <<>>, TRUE)>>) = 1
    BY OneLine
  <2>4. Terminators(Yielded(kind, script, i, seen)) = 1
    BY <2>2, <2>3, Zenon
  <2>5. Yielded(kind, script, i, seen) # <<>>
    <3>1. Terminators(<<>>) # 1
      BY NoTerminator
    <3> QED
      BY <2>4, <3>1, Zenon
  <2> QED
    BY <1>2, <1>4, <2>4, <2>5
<1>5. CASE i # Len(script) + 2
  <2>1. i <= Len(script) \/ i = Len(script) + 1
    BY <1>1, <1>5
  <2>2. \/ Yielded(kind, script, i, seen) = <<>>
        \/ \E t, u : Yielded(kind, script, i, seen) = <<Line(t, u, FALSE)>>
    BY <2>1, Zenon DEF Yielded
  <2>3. Terminators(Yielded(kind, script, i, seen)) = 0
    BY <1>3, <2>2, NoTerminator, Zenon
  <2> QED
    BY <1>2, <1>5, <2>3
<1> QED
  BY <1>4, <1>5

\* The lines of a chunk are finitely many.
LEMMA WholeLinesFinite ==
    ASSUME NEW k \in Kinds, NEW script \in Scripts[k], NEW from, NEW to
    PROVE  Terminators(WholeLines(script, from, to)) \in Nat
<1> DEFINE whole == {i \in DOMAIN script : from <= 2 * (i - 1) /\ 2 * i <= to}
           n == Cardinality(whole)
           chunk == WholeLines(script, from, to)
<1>1. DOMAIN script = 1 .. Len(script) /\ Len(script) \in Nat
  BY StreamAssumption
<1>2. IsFiniteSet(whole)
  <2>1. IsFiniteSet(1 .. Len(script)) /\ whole \in SUBSET (1 .. Len(script))
    BY <1>1, FS_Interval
  <2> QED
    BY <2>1, FS_Subset
<1>3. n \in Nat
  BY <1>2, FS_CardinalityType
<1>4. DOMAIN chunk = 1 .. n
  BY DEF WholeLines
<1> HIDE DEF n, chunk
<1>5. IsFiniteSet({i \in DOMAIN chunk : chunk[i].done})
  BY <1>3, <1>4, FS_Interval, FS_Subset
<1>6. Terminators(chunk) \in Nat
  BY <1>5, FS_CardinalityType DEF Terminators
<1> QED
  BY <1>6 DEF chunk

LEMMA NoStreamOnCourse ==
    OnCourse(NoStream) /\ NoStream.pc = "idle" /\ NoStream.first = <<>>
      /\ NoStream.dones = 0 /\ NoStream.failed = FALSE /\ NoStream.pos = 0
BY DEF NoStream, OnCourse, Fields

LEMMA StreamMoves ==
    ASSUME StreamInv, NEW r \in Streams, NEW t, OnCourse(t), stream' = [stream EXCEPT ![r] = t]
    PROVE  StreamInv'
<1>1. \A q \in Streams : stream'[q] = IF q = r THEN t ELSE stream[q]
  BY DEF StreamInv
<1>2. stream' = [q \in Streams |-> stream'[q]]
  BY DEF StreamInv
<1> QED
  BY <1>1, <1>2 DEF StreamInv

LEMMA Opens ==
    ASSUME StreamInv, NEW r \in Streams, NEW chain \in Chains, NEW j \in DOMAIN chain,
           NEW script \in Scripts[KindOf[chain[j]]], Open(r, chain, j, script)
    PROVE  StreamInv'
<1> DEFINE t == [NoStream EXCEPT !.pc = "opening", !.provider = chain[j], !.script = script]
<1>1. chain[j] \in Providers /\ KindOf[chain[j]] \in Kinds
  BY StreamAssumption
<1>2. Len(script) \in Nat
  BY <1>1, StreamAssumption
<1>3. /\ DOMAIN t = Fields /\ t = [f \in Fields |-> t[f]]
      /\ t.pc = "opening" /\ t.provider = chain[j] /\ t.script = script
      /\ t.first = <<>> /\ t.dones = 0 /\ t.failed = FALSE /\ t.pos = 0
  BY NoStreamOnCourse DEF OnCourse, Fields
<1>4. stream' = [stream EXCEPT ![r] = t]
  BY DEF Open
<1> HIDE DEF t
<1>5. IsTranslated(t) => t.pos < End(KindOf[t.provider], t.script)
  BY <1>2, <1>3 DEF IsTranslated, End, Translated
<1>6. t.failed \in BOOLEAN
  BY <1>3
<1>7. Flowing(t)
  BY <1>1, <1>3, <1>5, <1>6 DEF Flowing
<1>8. OnCourse(t)
  BY <1>3, <1>7 DEF OnCourse
<1> QED
  BY <1>4, <1>8, StreamMoves

LEMMA OnItsWay ==
    ASSUME StreamInv, NEW r \in Streams, stream[r].pc # "idle"
    PROVE  /\ OnCourse(stream[r]) /\ Flowing(stream[r])
           /\ KindOf[stream[r].provider] \in Kinds
           /\ Len(stream[r].script) \in Nat
           /\ End(KindOf[stream[r].provider], stream[r].script) \in Nat
           /\ IsTranslated(stream[r]) =>
                 End(KindOf[stream[r].provider], stream[r].script) = Len(stream[r].script) + 2
<1>1. OnCourse(stream[r]) /\ Flowing(stream[r])
  BY DEF StreamInv, OnCourse
<1>2. KindOf[stream[r].provider] \in Kinds
  BY <1>1, StreamAssumption DEF Flowing
<1>3. Len(stream[r].script) \in Nat
  BY <1>1, <1>2, StreamAssumption DEF Flowing
<1> QED
  BY <1>1, <1>2, <1>3 DEF End, IsTranslated, Translated

\* What a chunk does to a stream, given the terminators in it.
LEMMA ChunkArrives ==
    ASSUME StreamInv, NEW r \in Streams, stream[r].pc \in {"opening", "relaying"},
           NEW pos \in Nat, NEW seen, NEW chunk, NEW split, Arrive(r, pos, seen, chunk, split),
           Terminators(chunk) \in Nat,
           LET s == stream[r]
               end == End(KindOf[s.provider], s.script)
           IN  IsTranslated(s) => /\ s.pos < end /\ pos = s.pos + 1
                                  /\ Terminators(chunk) = IF pos = end THEN 1 ELSE 0
                                  /\ pos = end => chunk # <<>>
    PROVE  StreamInv'
<1> DEFINE s == stream[r]
           end == End(KindOf[s.provider], s.script)
           moved == [s EXCEPT !.pos = pos, !.seen = seen, !.split = @ \/ split]
           handed == [moved EXCEPT !.pc = "handed", !.first = chunk]
           relayed == [moved EXCEPT !.holder = _sniff_usage(chunk, @),
                                    !.dones = @ + Terminators(chunk)]
<1>1. OnCourse(s) /\ Flowing(s) /\ end \in Nat
  BY OnItsWay
<1>2. /\ DOMAIN moved = Fields /\ moved = [f \in Fields |-> moved[f]]
      /\ moved.pos = pos
      /\ \A f \in {"pc", "provider", "script", "first", "dones", "failed", "holder"} : moved[f] = s[f]
  BY <1>1 DEF OnCourse, Fields
<1>3. CASE s.pc = "opening" /\ chunk = <<>> /\ KindOf[s.provider] \in Translated
  <2>1. stream' = [stream EXCEPT ![r] = moved]
    BY <1>3 DEF Arrive
  <2>2. OnCourse(moved)
    <3> HIDE DEF moved
    <3> QED
      BY <1>1, <1>2, <1>3 DEF OnCourse, Flowing, IsTranslated
  <2> QED
    BY <2>1, <2>2, StreamMoves
<1>4. CASE s.pc = "opening" /\ ~(chunk = <<>> /\ KindOf[s.provider] \in Translated)
  <2>1. stream' = [stream EXCEPT ![r] = handed]
    BY <1>4 DEF Arrive
  <2>2. /\ DOMAIN handed = Fields /\ handed = [f \in Fields |-> handed[f]]
        /\ handed.pc = "handed" /\ handed.first = chunk /\ handed.pos = pos
        /\ \A f \in {"provider", "script", "dones", "failed"} : handed[f] = s[f]
    <3> HIDE DEF moved
    <3> QED
      BY <1>2 DEF Fields
  <2>3. OnCourse(handed)
    <3> HIDE DEF handed
    <3> QED
      BY <1>1, <1>4, <2>2 DEF OnCourse, Flowing, IsTranslated, AtEnd
  <2> QED
    BY <2>1, <2>3, StreamMoves
<1>5. CASE s.pc = "relaying"
  <2>1. stream' = [stream EXCEPT ![r] = relayed]
    BY <1>5 DEF Arrive
  <2>2. /\ DOMAIN relayed = Fields /\ relayed = [f \in Fields |-> relayed[f]]
        /\ relayed.pc = "relaying" /\ relayed.pos = pos
        /\ relayed.dones = s.dones + Terminators(chunk)
        /\ \A f \in {"provider", "script", "failed"} : relayed[f] = s[f]
    <3> HIDE DEF moved
    <3> QED
      BY <1>2, <1>5 DEF Fields
  <2>3. OnCourse(relayed)
    <3> HIDE DEF relayed
    <3>1. IsTranslated(s) => s.dones = 0
      BY <1>1, <1>5 DEF Flowing, AtEnd
    <3>2. relayed.provider = s.provider /\ relayed.script = s.script /\ relayed.failed = s.failed
      BY <2>2
    <3>3. relayed.dones \in Nat
      BY <1>1, <2>2 DEF Flowing
    <3>4. IsTranslated(relayed) => relayed.dones = IF AtEnd(relayed) THEN 1 ELSE 0
      BY <2>2, <3>1, <3>2 DEF IsTranslated, AtEnd
    <3>5. Flowing(relayed)
      BY <1>1, <1>5, <2>2, <3>2, <3>3, <3>4 DEF Flowing
    <3> QED
      BY <2>2, <3>5 DEF OnCourse
  <2> QED
    BY <2>1, <2>3, StreamMoves
<1> QED
  BY <1>3, <1>4, <1>5

LEMMA Translates ==
    ASSUME StreamInv, NEW r \in Streams, Translate(r)
    PROVE  StreamInv'
<1> DEFINE s == stream[r]
           kind == KindOf[s.provider]
           i == s.pos + 1
           seen == IF i <= Len(s.script) THEN Noted(kind, s.seen, s.script[i].usage) ELSE s.seen
           chunk == Yielded(kind, s.script, i, seen)
<1>1. /\ s.pc \in {"opening", "relaying"} /\ kind \in Translated
      /\ s.pos < End(kind, s.script) /\ Arrive(r, i, seen, chunk, FALSE)
  BY DEF Translate
<1>2. /\ s.pos \in Nat /\ s.script \in Scripts[kind] /\ kind \in Kinds
      /\ Len(s.script) \in Nat /\ End(kind, s.script) = Len(s.script) + 2
  BY <1>1, OnItsWay DEF Flowing, IsTranslated
<1>3. i \in 1 .. Len(s.script) + 2 /\ i \in Nat
  BY <1>1, <1>2
<1> HIDE DEF seen, chunk, i
<1>4. /\ Terminators(chunk) = IF i = End(kind, s.script) THEN 1 ELSE 0
      /\ i = End(kind, s.script) => chunk # <<>>
  BY <1>1, <1>2, <1>3, YieldedOnce DEF chunk
<1>5. Terminators(chunk) \in Nat
  BY <1>4
<1> QED
  BY <1>1, <1>2, <1>3, <1>4, <1>5, ChunkArrives DEF i

LEMMA PassesThrough ==
    ASSUME StreamInv, NEW r \in Streams, NEW to, PassThrough(r, to)
    PROVE  StreamInv'
<1> DEFINE s == stream[r]
           chunk == WholeLines(s.script, s.pos, to)
           cut == s.pos % 2 = 1 \/ to % 2 = 1
<1>1. /\ s.pc \in {"opening", "relaying"} /\ KindOf[s.provider] = "openai"
      /\ to \in s.pos + 1 .. 2 * Len(s.script) /\ Arrive(r, to, <<>>, chunk, cut)
  BY DEF PassThrough
<1>2. /\ s.pos \in Nat /\ s.script \in Scripts[KindOf[s.provider]] /\ KindOf[s.provider] \in Kinds
      /\ Len(s.script) \in Nat
  BY <1>1, OnItsWay DEF Flowing
<1>3. to \in Nat
  BY <1>1, <1>2
<1>4. Terminators(chunk) \in Nat
  BY <1>2, WholeLinesFinite
<1>5. ~IsTranslated(s)
  BY <1>1 DEF IsTranslated, Translated
<1> HIDE DEF chunk, cut
<1> QED
  BY <1>1, <1>3, <1>4, <1>5, ChunkArrives

\* Every other step of a stream that is on its way.
LEMMA StreamGoesOn ==
    ASSUME StreamInv, NEW r \in Streams,
           NothingSent(r) \/ Start(r) \/ UpstreamFails(r) \/ UpstreamEnds(r) \/ ClientGone(r)
    PROVE  StreamInv'
<1> DEFINE s == stream[r]
<1>1. OnCourse(s) /\ Flowing(s) /\ Len(s.script) \in Nat
      /\ (IsTranslated(s) => End(KindOf[s.provider], s.script) = Len(s.script) + 2)
  BY OnItsWay DEF NothingSent, Start, UpstreamFails, UpstreamEnds, ClientGone
<1>2. CASE NothingSent(r)
  <2> DEFINE t == [s EXCEPT !.pc = "handed"]
  <2>1. /\ DOMAIN t = Fields /\ t = [f \in Fields |-> t[f]] /\ t.pc = "handed"
        /\ t.provider = s.provider /\ t.script = s.script /\ t.pos = s.pos
        /\ t.first = s.first /\ t.dones = s.dones /\ t.failed = s.failed
    BY <1>1 DEF OnCourse, Fields
  <2>2. stream' = [stream EXCEPT ![r] = t] /\ s.pc = "opening" /\ AtEnd(s)
    BY <1>2 DEF NothingSent, AtEnd
  <2>3. ~IsTranslated(s) /\ s.first = <<>>
    BY <1>1, <2>2 DEF Flowing, AtEnd
  <2> HIDE DEF t
  <2>4. Terminators(t.first) \in Nat
    BY <2>1, <2>3, NoTerminator
  <2>5. OnCourse(t)
    BY <1>1, <2>1, <2>2, <2>3, <2>4 DEF OnCourse, Flowing, IsTranslated
  <2> QED
    BY <2>2, <2>5, StreamMoves
<1>3. CASE Start(r)
  <2> DEFINE t == [s EXCEPT !.pc = "relaying", !.first = <<>>,
                            !.holder = _sniff_usage(s.first, @),
                            !.dones = Terminators(s.first)]
  <2>1. /\ DOMAIN t = Fields /\ t = [f \in Fields |-> t[f]] /\ t.pc = "relaying"
        /\ t.provider = s.provider /\ t.script = s.script /\ t.pos = s.pos
        /\ t.dones = Terminators(s.first) /\ t.failed = s.failed
    BY <1>1 DEF OnCourse, Fields
  <2>2. stream' = [stream EXCEPT ![r] = t] /\ s.pc = "handed"
    BY <1>3 DEF Start
  <2> HIDE DEF t
  <2>3. OnCourse(t)
    BY <1>1, <2>1, <2>2 DEF OnCourse, Flowing, IsTranslated, AtEnd
  <2> QED
    BY <2>2, <2>3, StreamMoves
<1>4. CASE UpstreamFails(r)
  <2> DEFINE t == Interrupted(s)
  <2>1. /\ DOMAIN t = Fields /\ t = [f \in Fields |-> t[f]] /\ t.pc = "ended"
        /\ t.provider = s.provider /\ t.script = s.script /\ t.pos = s.pos
        /\ t.dones = s.dones + 1 /\ t.failed = TRUE
    BY <1>1 DEF OnCourse, Fields, Interrupted
  <2>2. stream' = [stream EXCEPT ![r] = t] /\ s.pc = "relaying"
    BY <1>4 DEF UpstreamFails
  <2>3. IsTranslated(s) => s.pos <= Len(s.script)
    BY <1>4 DEF UpstreamFails, IsTranslated
  <2>4. IsTranslated(s) => s.dones = 0
    BY <1>1, <2>2, <2>3 DEF Flowing, AtEnd
  <2> HIDE DEF t
  <2>5. t.dones \in Nat /\ t.dones >= 1 /\ (IsTranslated(t) => t.dones = 1)
    BY <1>1, <2>1, <2>4 DEF Flowing, IsTranslated
  <2>6. OnCourse(t)
    BY <1>1, <2>1, <2>5 DEF OnCourse, Flowing
  <2> QED
    BY <2>2, <2>6, StreamMoves
<1>5. CASE UpstreamEnds(r)
  <2> DEFINE t == [s EXCEPT !.pc = "ended"]
  <2>1. /\ DOMAIN t = Fields /\ t = [f \in Fields |-> t[f]] /\ t.pc = "ended"
        /\ t.provider = s.provider /\ t.script = s.script /\ t.pos = s.pos
        /\ t.first = s.first /\ t.dones = s.dones /\ t.failed = s.failed
    BY <1>1 DEF OnCourse, Fields
  <2>2. stream' = [stream EXCEPT ![r] = t] /\ s.pc = "relaying" /\ AtEnd(s)
    BY <1>5 DEF UpstreamEnds, AtEnd
  <2> HIDE DEF t
  <2>3. OnCourse(t)
    BY <1>1, <2>1, <2>2 DEF OnCourse, Flowing, IsTranslated
  <2> QED
    BY <2>2, <2>3, StreamMoves
<1>6. CASE ClientGone(r)
  <2> DEFINE t == [s EXCEPT !.pc = "left"]
  <2>1. /\ DOMAIN t = Fields /\ t = [f \in Fields |-> t[f]] /\ t.pc = "left"
        /\ t.provider = s.provider /\ t.script = s.script /\ t.pos = s.pos
        /\ t.first = s.first /\ t.dones = s.dones /\ t.failed = s.failed
    BY <1>1 DEF OnCourse, Fields
  <2>2. stream' = [stream EXCEPT ![r] = t] /\ s.pc = "relaying"
    BY <1>6 DEF ClientGone
  <2> HIDE DEF t
  <2>3. OnCourse(t)
    BY <1>1, <2>1, <2>2 DEF OnCourse, Flowing, IsTranslated
  <2> QED
    BY <2>2, <2>3, StreamMoves
<1> QED
  BY <1>2, <1>3, <1>4, <1>5, <1>6

LEMMA NextStreamInv == StreamInv /\ [StreamNext]_streamVars => StreamInv'
<1> SUFFICES ASSUME StreamInv, [StreamNext]_streamVars PROVE StreamInv'
  OBVIOUS
<1>1. ASSUME NEW r \in Streams, StartRefused(r) \/ StartRaises(r) \/ NeverStarted(r) \/ Recorded(r)
      PROVE  StreamInv'
  <2>1. stream' = [stream EXCEPT ![r] = NoStream]
    BY <1>1 DEF StartRefused, StartRaises, NeverStarted, Recorded
  <2> QED
    BY <2>1, NoStreamOnCourse, StreamMoves
<1>2. CASE StreamTick \/ UNCHANGED streamVars
  BY <1>2 DEF StreamTick, streamVars, StreamInv
<1> QED
  BY <1>1, <1>2, Opens, Translates, PassesThrough, StreamGoesOn DEF StreamNext

\* However chunks are cut and whatever breaks off, every stream of the gateway
\* that ends has told its client so: a translated one exactly once.
THEOREM StreamsEndOnce == StreamSpec => []EndsOnce
<1>1. StreamInit => StreamInv
  BY NoStreamOnCourse DEF StreamInit, StreamInv
<1>2. StreamInv => EndsOnce
  BY DEF StreamInv, OnCourse, Flowing, EndsOnce, IsTranslated
<1> QED
  BY <1>1, <1>2, NextStreamInv, PTL DEF StreamSpec

(***************************************************************************)
(* What is captured of a stream.  Scripts and chunks have any length:      *)
(* what folding a chunk and saying a script come to is shown by induction  *)
(* on it, here by the well-foundedness of the natural numbers.             *)
(***************************************************************************)
\* What holds of 0, and of n + 1 if it does of n, holds of every number.
LEMMA ByInduction ==
    ASSUME NEW S, 0 \in S, \A n \in Nat : n \in S => n + 1 \in S
    PROVE  \A n \in Nat : n \in S
<1> DEFINE T == Nat \ S
<1>1. SUFFICES ASSUME T # {} PROVE FALSE
  OBVIOUS
<1>2. T \subseteq Nat
  OBVIOUS
<1> HIDE DEF T
<1>3. PICK x \in T : \A y \in T : ~ (<<y, x>> \in OpToRel(<, Nat))
  BY <1>1, <1>2, NatLessThanWellFounded, WFMin
<1>4. \A y \in T : ~(y < x)
  BY <1>2, <1>3 DEF OpToRel
<1>5. x # 0
  BY DEF T
<1>6. x - 1 \in Nat /\ x - 1 \notin T
  BY <1>2, <1>4, <1>5
<1> QED
  BY <1>2, <1>6 DEF T

\* The largest of some numbers, if it is known.
LEMMA MaxIs ==
    ASSUME NEW T, T \subseteq Nat, NEW m \in T, \A i \in T : i <= m
    PROVE  Max(T) = m
<1>1. \E j \in T : \A i \in T : j >= i
  <2>1. \A i \in T : m >= i
    OBVIOUS
  <2> QED
    BY <2>1
<1>2. Max(T) \in T /\ \A i \in T : Max(T) >= i
  BY <1>1, Zenon DEF Max
<1> DEFINE x == Max(T)
<1>3. x \in T /\ \A i \in T : x >= i
  BY <1>2
<1> HIDE DEF x
<1>4. x = m
  BY <1>3
<1> QED
  BY <1>4 DEF x

\* What folding the first n lines of a chunk goes through.
FoldEquation(f, n, h, chunk) ==
    f = [t \in SUBSET (1 .. n) |->
           IF t = {} THEN h ELSE SniffLine(f[t \ {Max(t)}], chunk[Max(t)])]

LEMMA FoldExists ==
    ASSUME NEW h, NEW chunk
    PROVE  \A n \in Nat : \E f : FoldEquation(f, n, h, chunk)
<1> DEFINE S == {n \in Nat : \E f : FoldEquation(f, n, h, chunk)}
<1>1. 0 \in S
  <2>1. 1 .. 0 = {} /\ SUBSET (1 .. 0) = {{}}
    OBVIOUS
  <2> DEFINE f == [t \in {{}} |-> h]
  <2>2. f = [t \in {{}} |-> IF t = {} THEN h ELSE SniffLine(f[t \ {Max(t)}], chunk[Max(t)])]
    BY Zenon
  <2>3. FoldEquation(f, 0, h, chunk)
    BY <2>1, <2>2, Zenon DEF FoldEquation
  <2> QED
    BY <2>3
<1>2. ASSUME NEW n \in Nat, n \in S PROVE n + 1 \in S
  <2>1. PICK f : FoldEquation(f, n, h, chunk)
    BY <1>2
  <2> DEFINE g == [t \in SUBSET (1 .. n + 1) |->
                     IF n + 1 \in t THEN SniffLine(f[t \ {n + 1}], chunk[n + 1]) ELSE f[t]]
  <2>2. ASSUME NEW t \in SUBSET (1 .. n + 1)
        PROVE  g[t] = IF t = {} THEN h ELSE SniffLine(g[t \ {Max(t)}], chunk[Max(t)])
    <3>1. CASE n + 1 \in t
      <4>1. Max(t) = n + 1
        <5>1. t \subseteq Nat /\ \A i \in t : i <= n + 1
          OBVIOUS
        <5> QED
          BY <3>1, <5>1, MaxIs
      <4>2. t \ {n + 1} \in SUBSET (1 .. n + 1) /\ n + 1 \notin t \ {n + 1}
        OBVIOUS
      <4>3. g[t \ {n + 1}] = f[t \ {n + 1}]
        BY <4>2
      <4>4. g[t] = SniffLine(f[t \ {n + 1}], chunk[n + 1])
        BY <3>1
      <4> QED
        BY <3>1, <4>1, <4>3, <4>4, Zenon
    <3>2. CASE n + 1 \notin t
      <4>1. t \in SUBSET (1 .. n) /\ t \ {Max(t)} \in SUBSET (1 .. n + 1) /\ n + 1 \notin t \ {Max(t)}
        <5>1. \A i \in t : i \in 1 .. n + 1 /\ i # n + 1
          BY <3>2
        <5>2. \A i \in t : i \in 1 .. n
          BY <5>1
        <5> QED
          BY <5>1, <5>2, Zenon
      <4>2. g[t] = f[t] /\ g[t \ {Max(t)}] = f[t \ {Max(t)}]
        BY <3>2, <4>1
      <4>3. f[t] = IF t = {} THEN h ELSE SniffLine(f[t \ {Max(t)}], chunk[Max(t)])
        BY <2>1, <4>1, Zenon DEF FoldEquation
      <4> QED
        BY <4>2, <4>3, Zenon
    <3> QED
      BY <3>1, <3>2
  <2>3. g = [t \in SUBSET (1 .. n + 1) |-> g[t]]
    BY Zenon
  <2> HIDE DEF g
  <2>4. FoldEquation(g, n + 1, h, chunk)
    BY <2>2, <2>3 DEF FoldEquation
  <2> QED
    BY <2>4
<1> HIDE DEF S
<1>3. \A n \in Nat : n \in S
  BY <1>1, <1>2, ByInduction
<1> QED
  BY <1>3 DEF S

\* What the holder is after each line of a chunk.
Reading(after, chunk, n, h) ==
    /\ after[0] = h
    /\ \A k \in 1 .. n : after[k] = SniffLine(after[k - 1], chunk[k])

\* _sniff_usage goes line by line.
LEMMA LineByLine ==
    ASSUME NEW chunk, NEW n \in Nat, DOMAIN chunk = 1 .. n, NEW h
    PROVE  \E after : Reading(after, chunk, n, h) /\ _sniff_usage(chunk, h) = after[n]
<1> DEFINE f == CHOOSE f : FoldEquation(f, n, h, chunk)
<1>1. _sniff_usage(chunk, h) = f[1 .. n]
  BY DEF _sniff_usage, FoldLeft, MapThenFoldSet, FoldEquation
<1>2. FoldEquation(f, n, h, chunk)
  BY FoldExists
<1> HIDE DEF f
<1> DEFINE after == [k \in 0 .. n |-> f[1 .. k]]
<1>3. after[0] = h
  <2>1. 1 .. 0 = {} /\ {} \in SUBSET (1 .. n) /\ 0 \in 0 .. n
    OBVIOUS
  <2>2. f[{}] = h
    BY <1>2, <2>1, Zenon DEF FoldEquation
  <2> QED
    BY <2>1, <2>2
<1>4. ASSUME NEW k \in 1 .. n PROVE after[k] = SniffLine(after[k - 1], chunk[k])
  <2>1. 1 .. k \in SUBSET (1 .. n) /\ 1 .. k # {} /\ k \in 0 .. n /\ k - 1 \in 0 .. n
    OBVIOUS
  <2>2. Max(1 .. k) = k
    <3>1. 1 .. k \subseteq Nat /\ k \in 1 .. k /\ \A i \in 1 .. k : i <= k
      OBVIOUS
    <3> QED
      BY <3>1, MaxIs
  <2>3. (1 .. k) \ {k} = 1 .. k - 1
    OBVIOUS
  <2>4. f[1 .. k] = SniffLine(f[(1 .. k) \ {Max(1 .. k)}], chunk[Max(1 .. k)])
    BY <1>2, <2>1, Zenon DEF FoldEquation
  <2>5. after[k] = f[1 .. k] /\ after[k - 1] = f[1 .. k - 1]
    BY <2>1
  <2> QED
    BY <2>2, <2>3, <2>4, <2>5
<1>5. after[n] = f[1 .. n]
  OBVIOUS
<1> HIDE DEF after
<1>6. Reading(after, chunk, n, h)
  BY <1>3, <1>4 DEF Reading
<1> QED
  BY <1>1, <1>5, <1>6

LEMMA SniffNone == ASSUME NEW h PROVE _sniff_usage(<<>>, h) = h
<1>1. DOMAIN <<>> = 1 .. 0
  OBVIOUS
<1> QED
  BY <1>1, LineByLine DEF Reading

LEMMA SniffOne ==
    ASSUME NEW h, NEW chunk, DOMAIN chunk = 1 .. 1
    PROVE  _sniff_usage(chunk, h) = SniffLine(h, chunk[1])
<1> DEFINE n == 1
<1>1. n \in Nat /\ DOMAIN chunk = 1 .. n
  OBVIOUS
<1> HIDE DEF n
<1>2. PICK after : Reading(after, chunk, n, h) /\ _sniff_usage(chunk, h) = after[n]
  BY <1>1, LineByLine, Zenon
<1>3. after[0] = h /\ after[1] = SniffLine(after[1 - 1], chunk[1])
  BY <1>2 DEF n, Reading
<1> QED
  BY <1>2, <1>3 DEF n

HolderType == [usage : Usage, content : Seq(Texts)]
LineType == [text : Texts \cup {NoText}, usage : Usage \cup {<<>>}, done : BOOLEAN]

LEMMA LineSniffed ==
    ASSUME NEW h \in HolderType, NEW line \in LineType
    PROVE  SniffLine(h, line) \in HolderType
<1>1. line.text # NoText => Append(h.content, line.text) \in Seq(Texts)
  BY DEF HolderType, LineType
<1>2. line.usage # <<>> => line.usage \in Usage
  BY DEF LineType
<1>3. h.usage \in Usage /\ h.content \in Seq(Texts)
  BY DEF HolderType
<1> QED
  BY <1>1, <1>2, <1>3, Zenon DEF HolderType, SniffLine

\* The holder keeps its type.
LEMMA SniffTyped ==
    ASSUME NEW h \in HolderType, NEW chunk \in Seq(LineType)
    PROVE  _sniff_usage(chunk, h) \in HolderType
<1> DEFINE n == Len(chunk)
<1>1. n \in Nat /\ DOMAIN chunk = 1 .. n /\ \A k \in 1 .. n : chunk[k] \in LineType
  OBVIOUS
<1> HIDE DEF n
<1>2. PICK after : Reading(after, chunk, n, h) /\ _sniff_usage(chunk, h) = after[n]
  BY <1>1, LineByLine, Zenon
<1> DEFINE S == {k \in Nat : k <= n => after[k] \in HolderType}
<1>3. 0 \in S
  BY <1>2 DEF Reading
<1>4. ASSUME NEW k \in Nat, k \in S PROVE k + 1 \in S
  <2>1. SUFFICES ASSUME k + 1 <= n PROVE after[k + 1] \in HolderType
    OBVIOUS
  <2>2. k + 1 \in 1 .. n /\ (k + 1) - 1 = k
    BY <1>1, <2>1
  <2>3. after[k + 1] = SniffLine(after[k], chunk[k + 1])
    BY <1>2, <2>2 DEF Reading
  <2>4. after[k] \in HolderType
    BY <1>1, <1>4, <2>1
  <2> QED
    BY <1>1, <2>2, <2>3, <2>4, LineSniffed
<1> HIDE DEF S
<1>5. n \in S
  BY <1>1, <1>3, <1>4, ByInduction
<1>6. after[n] \in HolderType
  BY <1>1, <1>5 DEF S
<1> QED
  BY <1>2, <1>6

SaidEquation(f, n, script) ==
    f = [i \in 0 .. n |->
          IF i = 0 THEN <<>>
          ELSE IF script[i].text = NoText THEN f[i - 1]
          ELSE Append(f[i - 1], script[i].text)]

LEMMA SaidExists ==
    ASSUME NEW script
    PROVE  \A n \in Nat : \E f : SaidEquation(f, n, script)
<1> DEFINE S == {n \in Nat : \E f : SaidEquation(f, n, script)}
<1>1. 0 \in S
  <2> DEFINE f == [i \in {0} |-> <<>>]
  <2>1. f = [i \in {0} |-> IF i = 0 THEN <<>>
                           ELSE IF script[i].text = NoText THEN f[i - 1]
                           ELSE Append(f[i - 1], script[i].text)]
    BY Zenon
  <2>2. 0 .. 0 = {0}
    OBVIOUS
  <2> HIDE DEF f
  <2>3. SaidEquation(f, 0, script)
    BY <2>1, <2>2, Zenon DEF SaidEquation
  <2> QED
    BY <2>3
<1>2. ASSUME NEW n \in Nat, n \in S PROVE n + 1 \in S
  <2>1. PICK f : SaidEquation(f, n, script)
    BY <1>2
  <2> DEFINE last == IF script[n + 1].text = NoText THEN f[n]
                     ELSE Append(f[n], script[n + 1].text)
             g == [i \in 0 .. n + 1 |-> IF i = n + 1 THEN last ELSE f[i]]
  <2>2. ASSUME NEW i \in 0 .. n + 1
        PROVE  g[i] = IF i = 0 THEN <<>>
                      ELSE IF script[i].text = NoText THEN g[i - 1]
                      ELSE Append(g[i - 1], script[i].text)
    <3>1. CASE i = n + 1
      <4>1. i # 0 /\ i - 1 = n /\ n \in 0 .. n + 1 /\ n # n + 1
        BY <3>1
      <4>2. g[i] = last /\ g[i - 1] = f[n]
        BY <3>1, <4>1
      <4> QED
        BY <3>1, <4>1, <4>2, Zenon
    <3>2. CASE i # n + 1
      <4>1. i \in 0 .. n
        BY <3>2
      <4>2. f[i] = IF i = 0 THEN <<>>
                   ELSE IF script[i].text = NoText THEN f[i - 1]
                   ELSE Append(f[i - 1], script[i].text)
        BY <2>1, <4>1, Zenon DEF SaidEquation
      <4>3. g[i] = f[i] /\ (i # 0 => g[i - 1] = f[i - 1])
        BY <4>1
      <4> QED
        BY <4>2, <4>3, Zenon
    <3> QED
      BY <3>1, <3>2
  <2>3. g = [i \in 0 .. n + 1 |-> g[i]]
    BY Zenon
  <2> HIDE DEF g
  <2>4. SaidEquation(g, n + 1, script)
    BY <2>2, <2>3 DEF SaidEquation
  <2> QED
    BY <2>4
<1> HIDE DEF S
<1>3. \A n \in Nat : n \in S
  BY <1>1, <1>2, ByInduction
<1> QED
  BY <1>3 DEF S

\* What is said grows event by event.
LEMMA SaidSteps ==
    ASSUME NEW script, Len(script) \in Nat
    PROVE  /\ Said(script, 0) = <<>>
           /\ \A n \in 1 .. Len(script) :
                 Said(script, n) = IF script[n].text = NoText THEN Said(script, n - 1)
                                   ELSE Append(Said(script, n - 1), script[n].text)
<1> DEFINE f == CHOOSE f : SaidEquation(f, Len(script), script)
<1>1. \A n : Said(script, n) = f[n]
  BY DEF Said, SaidEquation
<1>2. SaidEquation(f, Len(script), script)
  BY SaidExists
<1> HIDE DEF f
<1>3. 0 \in 0 .. Len(script) /\ \A n \in 1 .. Len(script) : n \in 0 .. Len(script) /\ n # 0
  OBVIOUS
<1>4. f[0] = <<>>
  BY <1>2, <1>3, Zenon DEF SaidEquation
<1>5. ASSUME NEW n \in 1 .. Len(script)
      PROVE  f[n] = IF script[n].text = NoText THEN f[n - 1] ELSE Append(f[n - 1], script[n].text)
  BY <1>2, <1>3, Zenon DEF SaidEquation
<1> QED
  BY <1>1, <1>4, <1>5, Zenon

LEMMA EventFacts ==
    ASSUME NEW k \in Kinds, NEW script \in Scripts[k]
    PROVE  /\ Len(script) \in Nat /\ DOMAIN script = 1 .. Len(script)
           /\ \A i \in 1 .. Len(script) :
                 /\ script[i].text \in Texts \cup {NoText}
                 /\ DOMAIN script[i].usage \subseteq Counts
                 /\ \A c \in DOMAIN script[i].usage : script[i].usage[c] \in Nat
                 /\ script[i].done \in BOOLEAN
<1>1. script \in Seq(ToSet(script)) /\ \A i \in DOMAIN script : IsEvent(script[i])
  BY StreamAssumption
<1>2. Len(script) \in Nat /\ DOMAIN script = 1 .. Len(script)
  BY <1>1
<1> QED
  BY <1>1, <1>2 DEF IsEvent

\* The texts said, and that none is forgotten.
LEMMA SaidFacts ==
    ASSUME NEW k \in Kinds, NEW script \in Scripts[k]
    PROVE  \A n \in 0 .. Len(script) :
              /\ Said(script, n) \in Seq(Texts)
              /\ \A i \in 1 .. n : script[i].text # NoText => script[i].text \in ToSet(Said(script, n))
              /\ \A m \in 0 .. n : ToSet(Said(script, m)) \subseteq ToSet(Said(script, n))
<1> DEFINE len == Len(script)
           Good(n) == /\ Said(script, n) \in Seq(Texts)
                      /\ \A i \in 1 .. n : script[i].text # NoText => script[i].text \in ToSet(Said(script, n))
                      /\ \A m \in 0 .. n : ToSet(Said(script, m)) \subseteq ToSet(Said(script, n))
           S == {n \in Nat : n <= len => Good(n)}
<1>1. len \in Nat /\ \A i \in 1 .. len : script[i].text \in Texts \cup {NoText}
  BY EventFacts
<1>2. /\ Said(script, 0) = <<>>
      /\ \A n \in 1 .. len :
            Said(script, n) = IF script[n].text = NoText THEN Said(script, n - 1)
                              ELSE Append(Said(script, n - 1), script[n].text)
  BY <1>1, SaidSteps
<1>3. 0 \in S
  <2>1. Said(script, 0) \in Seq(Texts)
    <3>1. <<>> \in Seq(Texts)
      OBVIOUS
    <3> QED
      BY <1>2, <3>1, Zenon
  <2>2. \A m \in 0 .. 0 : m = 0
    OBVIOUS
  <2> QED
    BY <2>1, <2>2
<1>4. ASSUME NEW n \in Nat, n \in S PROVE n + 1 \in S
  <2>1. SUFFICES ASSUME n + 1 <= len PROVE Good(n + 1)
    OBVIOUS
  <2>2. n + 1 \in 1 .. len /\ (n + 1) - 1 = n
    BY <1>1, <2>1
  <2>3. Good(n)
    <3>1. n <= len
      BY <1>1, <2>1
    <3> QED
      BY <1>4, <3>1, Zenon
  <2> DEFINE old == Said(script, n)
             new == Said(script, n + 1)
             t == script[n + 1].text
  <2>4. new = IF t = NoText THEN old ELSE Append(old, t)
    BY <1>2, <2>2
  <2>5. t \in Texts \cup {NoText} /\ old \in Seq(Texts)
    BY <1>1, <2>2, <2>3
  <2>6. new \in Seq(Texts) /\ ToSet(old) \subseteq ToSet(new) /\ (t # NoText => t \in ToSet(new))
    <3> HIDE DEF old, new, t
    <3>1. CASE t = NoText
      BY <2>4, <2>5, <3>1
    <3>2. CASE t # NoText
      <4>1. new = Append(old, t) /\ new \in Seq(Texts)
        BY <2>4, <2>5, <3>2
      <4>2. /\ DOMAIN old = 1 .. Len(old) /\ DOMAIN new = 1 .. Len(old) + 1 /\ Len(old) \in Nat
            /\ new[Len(old) + 1] = t /\ \A i \in 1 .. Len(old) : new[i] = old[i]
        BY <2>5, <4>1
      <4> QED
        BY <4>1, <4>2 DEF ToSet
    <3> QED
      BY <3>1, <3>2
  <2>7. ASSUME NEW i \in 1 .. n + 1, script[i].text # NoText
        PROVE  script[i].text \in ToSet(new)
    <3>1. i \in 1 .. n \/ i = n + 1
      OBVIOUS
    <3> QED
      BY <2>3, <2>6, <2>7, <3>1
  <2>8. ASSUME NEW m \in 0 .. n + 1 PROVE ToSet(Said(script, m)) \subseteq ToSet(new)
    <3>1. m \in 0 .. n \/ m = n + 1
      OBVIOUS
    <3> QED
      BY <2>3, <2>6, <3>1
  <2> QED
    BY <2>6, <2>7, <2>8
<1> HIDE DEF S
<1>5. \A n \in Nat : n \in S
  BY <1>3, <1>4, ByInduction
<1>6. \A n \in 0 .. len : Good(n)
  BY <1>1, <1>5 DEF S
<1> QED
  BY <1>6

\* What is reported grows count by count, or is replaced.
Reports(kind, before, usage) ==
    IF usage = <<>> THEN before
    ELSE IF kind = "anthropic"
      THEN [c \in Counts |-> IF c \in DOMAIN usage THEN usage[c] ELSE before[c]]
    ELSE Complete(usage)

LEMMA ReportedSteps ==
    ASSUME NEW kind, NEW script
    PROVE  /\ Reported(kind, script, 0) = ZeroUsage
           /\ \A n \in Nat :
                 Reported(kind, script, n + 1) =
                    Reports(kind, Reported(kind, script, n), script[n + 1].usage)
<1> DEFINE reports(n) == {i \in 1 .. n : script[i].usage # <<>>}
           telling(n, c) == {i \in reports(n) : c \in DOMAIN script[i].usage}
           each(n) == [c \in Counts |-> IF telling(n, c) = {} THEN 0
                                        ELSE script[Max(telling(n, c))].usage[c]]
           all(n) == IF reports(n) = {} THEN ZeroUsage ELSE Complete(script[Max(reports(n))].usage)
<1>1. \A n : Reported(kind, script, n) = IF kind = "anthropic" THEN each(n) ELSE all(n)
  BY Zenon DEF Reported
<1>2. Reported(kind, script, 0) = ZeroUsage
  <2>1. reports(0) = {} /\ \A c : telling(0, c) = {}
    OBVIOUS
  <2>2. each(0) = ZeroUsage /\ all(0) = ZeroUsage
    BY <2>1 DEF ZeroUsage
  <2> QED
    BY <1>1, <2>2, Zenon
<1>3. ASSUME NEW n \in Nat, script[n + 1].usage = <<>>
      PROVE  Reported(kind, script, n + 1) = Reported(kind, script, n)
  <2>1. reports(n + 1) = reports(n)
    BY <1>3
  <2>2. \A c : telling(n + 1, c) = telling(n, c)
    BY <2>1, Zenon
  <2>3. each(n + 1) = each(n) /\ all(n + 1) = all(n)
    BY <2>1, <2>2, Zenon
  <2> QED
    BY <1>1, <2>3, Zenon
<1>4. ASSUME NEW n \in Nat, script[n + 1].usage # <<>>
      PROVE  /\ all(n + 1) = Complete(script[n + 1].usage)
             /\ \A c : telling(n + 1, c) = IF c \in DOMAIN script[n + 1].usage
                                            THEN telling(n, c) \cup {n + 1} ELSE telling(n, c)
  <2>1. reports(n + 1) = reports(n) \cup {n + 1}
    <3>1. \A i : i \in 1 .. n + 1 <=> i \in 1 .. n \/ i = n + 1
      OBVIOUS
    <3> QED
      BY <1>4, <3>1, Zenon
  <2>2. \A i \in reports(n + 1) : i \in Nat /\ i <= n + 1
    OBVIOUS
  <2>3. Max(reports(n + 1)) = n + 1
    <3> HIDE DEF reports
    <3> QED
      BY <2>1, <2>2, MaxIs
  <2> QED
    BY <2>1, <2>3, Zenon
<1>5. ASSUME NEW n \in Nat, script[n + 1].usage # <<>>, NEW c
      PROVE  (IF telling(n + 1, c) = {} THEN 0 ELSE script[Max(telling(n + 1, c))].usage[c])
               = IF c \in DOMAIN script[n + 1].usage THEN script[n + 1].usage[c]
                 ELSE IF telling(n, c) = {} THEN 0 ELSE script[Max(telling(n, c))].usage[c]
  <2>1. CASE c \in DOMAIN script[n + 1].usage
    <3>1. telling(n + 1, c) = telling(n, c) \cup {n + 1}
      BY <1>4, <1>5, <2>1, Zenon
    <3>2. \A i \in telling(n + 1, c) : i \in Nat /\ i <= n + 1
      OBVIOUS
    <3> HIDE DEF telling
    <3>3. Max(telling(n + 1, c)) = n + 1
      BY <3>1, <3>2, MaxIs
    <3> QED
      BY <2>1, <3>1, <3>3, Zenon
  <2>2. CASE c \notin DOMAIN script[n + 1].usage
    BY <1>4, <1>5, <2>2, Zenon
  <2> QED
    BY <2>1, <2>2
<1>6. \A n : \A c \in Counts : each(n)[c] = IF telling(n, c) = {} THEN 0
                                             ELSE script[Max(telling(n, c))].usage[c]
  OBVIOUS
<1> HIDE DEF telling, all
<1>7. ASSUME NEW n \in Nat, script[n + 1].usage # <<>>
      PROVE  each(n + 1) = [c \in Counts |-> IF c \in DOMAIN script[n + 1].usage
                                             THEN script[n + 1].usage[c] ELSE each(n)[c]]
  BY <1>5, <1>6, <1>7
<1> HIDE DEF each
<1> QED
  BY <1>1, <1>2, <1>3, <1>4, <1>7, Zenon DEF Reports

LEMMA CompleteTyped ==
    ASSUME NEW u, DOMAIN u \subseteq Counts, \A c \in DOMAIN u : u[c] \in Nat
    PROVE  Complete(u) \in Usage /\ Complete(u) # <<>>
<1>1. Complete(u) \in Usage
  BY DEF Complete, Usage
<1>2. DOMAIN Complete(u) = Counts
  BY DEF Complete
<1>3. DOMAIN <<>> = {} /\ Counts # {}
  BY DEF Counts
<1> QED
  BY <1>1, <1>2, <1>3

SeenType(seen) == DOMAIN seen \subseteq Counts /\ \A c \in DOMAIN seen : seen[c] \in Nat

\* An adapter remembers what was reported.
LEMMA NotedIsReported ==
    ASSUME NEW kind \in Translated, NEW script \in Scripts[kind], NEW n \in Nat, n + 1 <= Len(script),
           NEW seen, SeenType(seen), Complete(seen) = Reported(kind, script, n)
    PROVE  /\ SeenType(Noted(kind, seen, script[n + 1].usage))
           /\ Complete(Noted(kind, seen, script[n + 1].usage)) = Reported(kind, script, n + 1)
<1> DEFINE u == script[n + 1].usage
           noted == Noted(kind, seen, u)
<1>1. DOMAIN u \subseteq Counts /\ \A c \in DOMAIN u : u[c] \in Nat
  <2>1. kind \in Kinds /\ n + 1 \in 1 .. Len(script)
    BY EventFacts DEF Kinds
  <2> QED
    BY <2>1, EventFacts
<1>2. Reported(kind, script, n + 1) = Reports(kind, Reported(kind, script, n), u)
  BY ReportedSteps
<1> HIDE DEF u
<1>3. CASE u = <<>>
  <2>1. noted = seen
    BY <1>3 DEF Noted
  <2> QED
    BY <1>2, <1>3, <2>1 DEF u, Reports
<1>4. CASE u # <<>> /\ kind = "anthropic"
  <2>1. noted = [c \in DOMAIN u \cup DOMAIN seen |-> IF c \in DOMAIN u THEN u[c] ELSE seen[c]]
    BY <1>4 DEF Noted
  <2>2. /\ DOMAIN noted = DOMAIN u \cup DOMAIN seen
        /\ \A c \in DOMAIN noted : noted[c] = IF c \in DOMAIN u THEN u[c] ELSE seen[c]
    BY <2>1
  <2> HIDE DEF noted
  <2>3. SeenType(noted)
    BY <1>1, <2>2 DEF SeenType
  <2>4. Complete(noted) = [c \in Counts |-> IF c \in DOMAIN u THEN u[c] ELSE Complete(seen)[c]]
    BY <2>2 DEF Complete
  <2> QED
    BY <1>2, <1>4, <2>3, <2>4 DEF u, noted, Reports
<1>5. CASE u # <<>> /\ kind # "anthropic"
  <2>1. noted = Complete(u)
    BY <1>5 DEF Noted
  <2>2. DOMAIN Complete(u) = Counts /\ Complete(u) \in Usage
    BY <1>1, CompleteTyped DEF Complete
  <2>3. SeenType(noted)
    BY <2>1, <2>2 DEF SeenType, Usage
  <2>4. Complete(noted) = noted
    BY <2>1, <2>2 DEF Complete
  <2> QED
    BY <1>2, <1>5, <2>1, <2>3, <2>4 DEF u, Reports
<1> QED
  BY <1>3, <1>4, <1>5

\* What a translating adapter has remembered and the holder captured at position i.
Heard(kind, script, i, seen, h) ==
    /\ SeenType(seen) /\ Complete(seen) = Reported(kind, script, Events(kind, script, i))
    /\ h \in HolderType /\ Captured(kind, script, i, FALSE, h)

\* Each event is heard as it was said.
LEMMA EventHeard ==
    ASSUME NEW kind \in Translated, NEW script \in Scripts[kind],
           NEW i \in Nat, i < Len(script), NEW seen, NEW h, Heard(kind, script, i, seen, h),
           NEW noted, noted = Noted(kind, seen, script[i + 1].usage)
    PROVE  LET chunk == Yielded(kind, script, i + 1, noted)
           IN  chunk \in Chunk /\ Heard(kind, script, i + 1, noted, _sniff_usage(chunk, h))
<1> DEFINE e == script[i + 1]
           chunk == Yielded(kind, script, i + 1, noted)
           line == Line(e.text, <<>>, FALSE)
<1>1. /\ kind \in Kinds /\ kind # "openai" /\ Len(script) \in Nat
      /\ i + 1 \in 1 .. Len(script) /\ i + 1 <= Len(script)
      /\ e.text \in Texts \cup {NoText}
  BY EventFacts DEF Kinds, Translated
<1>2. Events(kind, script, i) = i /\ Events(kind, script, i + 1) = i + 1
  BY <1>1 DEF Events
<1>3. SeenType(noted) /\ Complete(noted) = Reported(kind, script, i + 1)
  BY <1>1, <1>2, NotedIsReported DEF Heard
<1>4. h \in HolderType /\ h.content = Said(script, i) /\ h.usage = ZeroUsage
  BY <1>1, <1>2 DEF Heard, Captured
<1>5. Said(script, i + 1) = IF e.text = NoText THEN Said(script, i) ELSE Append(Said(script, i), e.text)
  <2>1. (i + 1) - 1 = i
    OBVIOUS
  <2> QED
    BY <1>1, <2>1, SaidSteps
<1>6. chunk = IF kind = "gemini" \/ e.text # NoText \/ e.finish THEN <<line>> ELSE <<>>
  BY <1>1, Zenon DEF Yielded
<1>7. line \in LineType /\ line.text = e.text /\ line.usage = <<>>
  BY <1>1 DEF Line, LineType
<1>8. _sniff_usage(chunk, h) = IF chunk = <<line>> THEN SniffLine(h, line) ELSE h
  <2>1. DOMAIN <<line>> = 1 .. 1 /\ <<line>>[1] = line
    OBVIOUS
  <2> HIDE DEF line
  <2>2. _sniff_usage(<<line>>, h) = SniffLine(h, line)
    BY <2>1, SniffOne
  <2> QED
    BY <1>6, <2>2, SniffNone, Zenon
<1>9. chunk \in Chunk
  <2> HIDE DEF line
  <2>1. <<line>> \in Seq(LineType) /\ <<>> \in Seq(LineType)
    BY <1>7
  <2> QED
    BY <1>6, <2>1, Zenon DEF Chunk, LineType
<1> DEFINE g == _sniff_usage(chunk, h)
<1>10. g \in HolderType
  BY <1>4, <1>9, SniffTyped DEF Chunk, LineType
<1>11. g.content = Said(script, i + 1) /\ g.usage = ZeroUsage
  <2>1. SniffLine(h, line).content = Said(script, i + 1) /\ SniffLine(h, line).usage = ZeroUsage
    BY <1>4, <1>5, <1>7 DEF SniffLine
  <2>2. chunk = <<line>> \/ e.text = NoText
    BY <1>6, Zenon
  <2> QED
    BY <1>4, <1>5, <1>8, <2>1, <2>2, Zenon
<1> HIDE DEF g
<1>12. Captured(kind, script, i + 1, FALSE, g)
  BY <1>1, <1>2, <1>11 DEF Captured
<1> QED
  BY <1>2, <1>3, <1>9, <1>10, <1>12 DEF Heard, g

\* After the last event the usage is handed over, and the terminator says nothing.
LEMMA EndHeard ==
    ASSUME NEW kind \in Translated, NEW script \in Scripts[kind],
           NEW i \in Nat, i \in {Len(script), Len(script) + 1},
           NEW seen, NEW h, Heard(kind, script, i, seen, h)
    PROVE  LET chunk == Yielded(kind, script, i + 1, seen)
           IN  chunk \in Chunk /\ Heard(kind, script, i + 1, seen, _sniff_usage(chunk, h))
<1> DEFINE chunk == Yielded(kind, script, i + 1, seen)
           len == Len(script)
           u == IF i = len THEN Complete(seen) ELSE <<>>
           line == Line(NoText, u, i # len)
<1>1. kind \in Kinds /\ kind # "openai" /\ len \in Nat
  BY EventFacts DEF Kinds, Translated
<1>2. Events(kind, script, i) = len /\ Events(kind, script, i + 1) = len
  BY <1>1 DEF Events
<1>3. /\ SeenType(seen) /\ Complete(seen) = Reported(kind, script, len)
      /\ h \in HolderType /\ h.content = Said(script, len)
      /\ h.usage = IF i = len THEN ZeroUsage ELSE Reported(kind, script, len)
  BY <1>1, <1>2 DEF Heard, Captured
<1>4. u \in Usage \cup {<<>>} /\ (u = <<>> <=> i # len)
  BY <1>3, CompleteTyped DEF SeenType
<1>5. \/ chunk = <<line>>
      \/ chunk = <<>> /\ i = len /\ \A c \in DOMAIN seen : kind # "gemini" /\ seen[c] = 0
  <2>1. CASE i = len
    <3>1. ~(i + 1 <= len) /\ i + 1 = len + 1
      BY <1>1, <2>1
    <3>2. chunk = IF \E c \in DOMAIN seen : kind = "gemini" \/ seen[c] # 0
                  THEN <<Line(NoText, Complete(seen), FALSE)>> ELSE <<>>
      BY <3>1, Zenon DEF Yielded
    <3>3. u = Complete(seen) /\ (i # len) = FALSE
      BY <2>1
    <3> QED
      BY <2>1, <3>2, <3>3, Zenon
  <2>2. CASE i # len
    <3>1. ~(i + 1 <= len) /\ i + 1 # len + 1
      BY <1>1, <2>2
    <3>2. chunk = <<Line(NoText, <<>>, TRUE)>>
      BY <3>1, Zenon DEF Yielded
    <3>3. u = <<>> /\ (i # len) = TRUE
      BY <2>2
    <3> QED
      BY <3>2, <3>3, Zenon
  <2> QED
    BY <2>1, <2>2
<1>6. line \in LineType /\ line.text = NoText /\ line.usage = u
  BY <1>4 DEF Line, LineType
<1>7. _sniff_usage(<<line>>, h) = SniffLine(h, line)
  <2>1. DOMAIN <<line>> = 1 .. 1 /\ <<line>>[1] = line
    OBVIOUS
  <2> HIDE DEF line
  <2> QED
    BY <2>1, SniffOne
<1>8. chunk \in Chunk
  <2> HIDE DEF line
  <2>1. <<line>> \in Seq(LineType) /\ <<>> \in Seq(LineType)
    BY <1>6
  <2> QED
    BY <1>5, <2>1, Zenon DEF Chunk, LineType
<1> DEFINE g == _sniff_usage(chunk, h)
<1>9. g \in HolderType
  BY <1>3, <1>8, SniffTyped DEF Chunk, LineType
<1>10. g.content = Said(script, len) /\ g.usage = Reported(kind, script, len)
  <2>1. CASE chunk = <<line>>
    <3>1. g = SniffLine(h, line)
      BY <1>7, <2>1
    <3>2. SniffLine(h, line).content = Said(script, len)
      BY <1>3, <1>6 DEF SniffLine
    <3>3. SniffLine(h, line).usage = IF u = <<>> THEN h.usage ELSE u
      BY <1>6 DEF SniffLine
    <3> QED
      BY <1>3, <1>4, <3>1, <3>2, <3>3
  <2>2. CASE chunk = <<>> /\ i = len /\ \A c \in DOMAIN seen : seen[c] = 0
    <3>1. g = h
      BY <2>2, SniffNone
    <3>2. Complete(seen) = ZeroUsage
      BY <2>2 DEF Complete, ZeroUsage
    <3> QED
      BY <1>3, <2>2, <3>1, <3>2
  <2> QED
    BY <1>5, <2>1, <2>2
<1> HIDE DEF g
<1>11. Captured(kind, script, i + 1, FALSE, g)
  <2>1. ~(i + 1 <= len)
    BY <1>1
  <2> QED
    BY <1>2, <1>10, <2>1 DEF Captured
<1> QED
  BY <1>2, <1>3, <1>8, <1>9, <1>11 DEF Heard, g

\* The lines of a passed-through chunk are the events from one to another.
LEMMA WholeLinesAre ==
    ASSUME NEW script \in Scripts["openai"], NEW from \in Nat, NEW to \in Nat,
           from < to, to <= 2 * Len(script)
    PROVE  LET chunk == WholeLines(script, from, to)
               b == (from + 1) \div 2
               n == (to \div 2) - b
           IN  /\ b \in Nat /\ n \in Nat /\ b + n <= Len(script)
               /\ chunk \in Chunk /\ DOMAIN chunk = 1 .. n
               /\ \A k \in 1 .. n :
                     /\ chunk[k].text = script[b + k].text
                     /\ chunk[k].usage = IF script[b + k].usage = <<>> THEN <<>>
                                         ELSE Complete(script[b + k].usage)
<1> DEFINE chunk == WholeLines(script, from, to)
           b == (from + 1) \div 2
           e == to \div 2
           n == e - b
           whole == {i \in DOMAIN script : from <= 2 * (i - 1) /\ 2 * i <= to}
           line(i) == Line(script[i].text,
                           IF script[i].usage = <<>> THEN <<>> ELSE Complete(script[i].usage),
                           script[i].done)
<1>1. "openai" \in Kinds /\ Len(script) \in Nat /\ DOMAIN script = 1 .. Len(script)
  BY EventFacts DEF Kinds
<1>2. /\ b \in Nat /\ e \in Nat /\ b <= e /\ e <= Len(script)
      /\ \A i \in Nat : (from <= 2 * (i - 1) <=> b + 1 <= i) /\ (2 * i <= to <=> i <= e)
  BY <1>1
<1>3. whole = b + 1 .. e
  <2>1. \A i \in whole : i \in b + 1 .. e
    BY <1>1, <1>2
  <2>2. \A i \in b + 1 .. e : i \in whole
    BY <1>1, <1>2
  <2> QED
    BY <2>1, <2>2, Zenon
<1> HIDE DEF whole, b, e
<1>4. Cardinality(whole) = n /\ n \in Nat
  <2>1. b + 1 \in Int /\ e \in Int
    BY <1>2
  <2>2. Cardinality(b + 1 .. e) = IF b + 1 > e THEN 0 ELSE e - (b + 1) + 1
    BY <2>1, FS_Interval
  <2> QED
    BY <1>2, <1>3, <2>2
<1>5. chunk = [k \in 1 .. n |-> line(b + k)]
  BY <1>4 DEF WholeLines, whole, b
<1>6. \A k \in 1 .. n : b + k \in 1 .. Len(script)
  BY <1>2, <1>4
<1>7. ASSUME NEW i \in 1 .. Len(script) PROVE line(i) \in LineType
  <2>1. /\ script[i].text \in Texts \cup {NoText} /\ script[i].done \in BOOLEAN
        /\ Complete(script[i].usage) \in Usage
    BY <1>1, EventFacts, CompleteTyped
  <2> QED
    BY <2>1 DEF Line, LineType
<1>8. \A k \in 1 .. n : chunk[k] = line(b + k)
  BY <1>5
<1>9. DOMAIN chunk = 1 .. n
  BY <1>5
<1>10. \A k \in 1 .. n : line(b + k) \in LineType
  BY <1>6, <1>7
<1> HIDE DEF n
<1>11. chunk \in Chunk
  <2>1. chunk \in [1 .. n -> LineType]
    BY <1>5, <1>10
  <2> HIDE DEF chunk
  <2>2. chunk \in Seq(LineType)
    BY <1>4, <2>1
  <2> QED
    BY <2>2 DEF Chunk, LineType
<1>12. ASSUME NEW k \in 1 .. n
       PROVE  /\ chunk[k].text = script[b + k].text
              /\ chunk[k].usage = IF script[b + k].usage = <<>> THEN <<>> ELSE Complete(script[b + k].usage)
  <2>1. chunk[k] = line(b + k)
    BY <1>8
  <2> HIDE DEF chunk
  <2> QED
    BY <2>1 DEF Line
<1>13. b + n <= Len(script)
  BY <1>2 DEF n
<1> QED
  BY <1>2, <1>4, <1>9, <1>11, <1>12, <1>13 DEF b, n, e

\* A chunk of whole events is captured as it was said.
LEMMA WholeChunkHeard ==
    ASSUME NEW script \in Scripts["openai"], NEW from \in Nat, NEW to \in Nat,
           from < to, to <= 2 * Len(script), from % 2 = 0, to % 2 = 0,
           NEW h \in HolderType, Captured("openai", script, from, FALSE, h)
    PROVE  Captured("openai", script, to, FALSE, _sniff_usage(WholeLines(script, from, to), h))
<1> DEFINE chunk == WholeLines(script, from, to)
           b == (from + 1) \div 2
           n == (to \div 2) - b
<1>1. /\ b \in Nat /\ n \in Nat /\ b + n <= Len(script) /\ DOMAIN chunk = 1 .. n
      /\ \A k \in 1 .. n :
            /\ chunk[k].text = script[b + k].text
            /\ chunk[k].usage = IF script[b + k].usage = <<>> THEN <<>>
                                ELSE Complete(script[b + k].usage)
  BY WholeLinesAre
<1>2. Len(script) \in Nat
  BY EventFacts DEF Kinds
<1>3. from \div 2 = b /\ to \div 2 = b + n
  OBVIOUS
<1>4. \A pos, holder : Captured("openai", script, pos, FALSE, holder) <=>
        /\ holder.content = Said(script, pos \div 2)
        /\ holder.usage = Reported("openai", script, pos \div 2)
  BY DEF Captured, Events, Translated
<1> HIDE DEF b, n
<1>5. h.content = Said(script, b) /\ h.usage = Reported("openai", script, b)
  BY <1>3, <1>4, Zenon
<1> HIDE DEF chunk
<1>6. PICK after : Reading(after, chunk, n, h) /\ _sniff_usage(chunk, h) = after[n]
  <2>1. n \in Nat /\ DOMAIN chunk = 1 .. n
    BY <1>1
  <2> QED
    BY <2>1, LineByLine, Zenon
<1> DEFINE Good(k) == /\ after[k].content = Said(script, b + k)
                      /\ after[k].usage = Reported("openai", script, b + k)
           S == {k \in Nat : k <= n => Good(k)}
<1>7. 0 \in S
  <2>1. after[0] = h /\ b + 0 = b
    BY <1>1, <1>6 DEF Reading
  <2> QED
    BY <1>5, <2>1
<1>8. ASSUME NEW k \in Nat, k \in S PROVE k + 1 \in S
  <2>1. SUFFICES ASSUME k + 1 <= n PROVE Good(k + 1)
    OBVIOUS
  <2> DEFINE m == b + k
  <2>2. /\ k + 1 \in 1 .. n /\ (k + 1) - 1 = k /\ k <= n
        /\ m \in Nat /\ b + (k + 1) = m + 1 /\ m + 1 \in 1 .. Len(script) /\ (m + 1) - 1 = m
    BY <1>1, <1>2, <2>1
  <2>3. after[k].content = Said(script, m) /\ after[k].usage = Reported("openai", script, m)
    BY <1>8, <2>2
  <2>4. after[k + 1] = SniffLine(after[k], chunk[k + 1])
    BY <1>6, <2>2 DEF Reading
  <2>5. /\ chunk[k + 1].text = script[m + 1].text
        /\ chunk[k + 1].usage = IF script[m + 1].usage = <<>> THEN <<>>
                                ELSE Complete(script[m + 1].usage)
    BY <1>1, <2>2
  <2>6. Said(script, m + 1) = IF script[m + 1].text = NoText THEN Said(script, m)
                              ELSE Append(Said(script, m), script[m + 1].text)
    BY <1>2, <2>2, SaidSteps
  <2>7. Reported("openai", script, m + 1) =
          IF script[m + 1].usage = <<>> THEN Reported("openai", script, m)
          ELSE Complete(script[m + 1].usage)
    <3> HIDE DEF m
    <3>1. Reported("openai", script, m + 1) = Reports("openai", Reported("openai", script, m), script[m + 1].usage)
      BY <2>2, ReportedSteps
    <3> QED
      BY <3>1 DEF Reports
  <2>8. script[m + 1].usage # <<>> => Complete(script[m + 1].usage) # <<>>
    <3>1. SeenType(script[m + 1].usage)
      BY <2>2, EventFacts DEF SeenType, Kinds
    <3> QED
      BY <3>1, CompleteTyped DEF SeenType
  <2> HIDE DEF m
  <2>9. after[k + 1].content = Said(script, m + 1)
    BY <2>3, <2>4, <2>5, <2>6 DEF SniffLine
  <2>10. after[k + 1].usage = Reported("openai", script, m + 1)
    BY <2>3, <2>4, <2>5, <2>7, <2>8 DEF SniffLine
  <2> QED
    BY <2>2, <2>9, <2>10
<1> HIDE DEF S
<1>9. n \in S
  BY <1>1, <1>7, <1>8, ByInduction
<1>10. Good(n)
  BY <1>1, <1>9 DEF S
<1> QED
  BY <1>3, <1>4, <1>6, <1>10 DEF chunk

\* What may be said of a stream with lines cut in two.
LEMMA WeakerWhenSplit ==
    ASSUME NEW script \in Scripts["openai"], NEW pos \in Nat, pos <= 2 * Len(script),
           NEW split \in BOOLEAN, NEW h, Captured("openai", script, pos, split, h)
    PROVE  Captured("openai", script, pos, TRUE, h)
<1>1. pos \div 2 \in Nat /\ pos \div 2 \in 0 .. pos \div 2
  OBVIOUS
<1>2. CASE split = FALSE
  <2>1. h.content = Said(script, pos \div 2) /\ h.usage = Reported("openai", script, pos \div 2)
    BY <1>2 DEF Captured, Events, Translated
  <2> QED
    BY <1>1, <2>1 DEF Captured, Events
<1> QED
  BY <1>2

\* Of any chunk nothing is captured that was not said.
LEMMA AnyChunkHeard ==
    ASSUME NEW script \in Scripts["openai"], NEW from \in Nat, NEW to \in Nat,
           from < to, to <= 2 * Len(script),
           NEW h \in HolderType, Captured("openai", script, from, TRUE, h)
    PROVE  Captured("openai", script, to, TRUE, _sniff_usage(WholeLines(script, from, to), h))
<1> DEFINE chunk == WholeLines(script, from, to)
           b == (from + 1) \div 2
           n == (to \div 2) - b
           e == to \div 2
           Partial(g) == /\ ToSet(g.content) \subseteq ToSet(Said(script, e))
                         /\ g.usage \in {Reported("openai", script, m) : m \in 0 .. e}
<1>1. /\ b \in Nat /\ n \in Nat /\ b + n <= Len(script) /\ DOMAIN chunk = 1 .. n
      /\ chunk \in Seq(LineType)
      /\ \A k \in 1 .. n :
            /\ chunk[k].text = script[b + k].text
            /\ chunk[k].usage = IF script[b + k].usage = <<>> THEN <<>>
                                ELSE Complete(script[b + k].usage)
  BY WholeLinesAre DEF Chunk, LineType
<1>2. Len(script) \in Nat /\ "openai" \in Kinds
  BY EventFacts DEF Kinds
<1>3. from \div 2 \in 0 .. e /\ e = b + n /\ e \in 0 .. Len(script)
  OBVIOUS
<1>4. Partial(h)
  <2>1. ToSet(Said(script, from \div 2)) \subseteq ToSet(Said(script, e))
    BY <1>2, <1>3, SaidFacts
  <2>2. ToSet(h.content) \subseteq ToSet(Said(script, from \div 2))
    BY DEF Captured, Events
  <2>3. h.usage \in {Reported("openai", script, m) : m \in 0 .. from \div 2}
    BY DEF Captured, Events
  <2>4. \A m \in 0 .. from \div 2 : m \in 0 .. e
    BY <1>3
  <2> QED
    BY <2>1, <2>2, <2>3, <2>4
<1> HIDE DEF b, n, e, chunk
<1>5. PICK after : Reading(after, chunk, n, h) /\ _sniff_usage(chunk, h) = after[n]
  <2>1. n \in Nat /\ DOMAIN chunk = 1 .. n
    BY <1>1
  <2> QED
    BY <2>1, LineByLine, Zenon
<1> DEFINE S == {k \in Nat : k <= n => after[k] \in HolderType /\ Partial(after[k])}
<1>6. 0 \in S
  BY <1>4, <1>5 DEF Reading
<1>7. ASSUME NEW k \in Nat, k \in S PROVE k + 1 \in S
  <2>1. SUFFICES ASSUME k + 1 <= n PROVE after[k + 1] \in HolderType /\ Partial(after[k + 1])
    OBVIOUS
  <2> DEFINE i == b + (k + 1)
             line == chunk[k + 1]
             g == after[k]
  <2>2. /\ k + 1 \in 1 .. n /\ (k + 1) - 1 = k /\ k <= n
        /\ i \in 1 .. Len(script) /\ i \in 1 .. e /\ i - 1 \in Nat /\ i \in 0 .. e
    BY <1>1, <1>2, <1>3, <2>1
  <2>3. g \in HolderType /\ Partial(g)
    BY <1>7, <2>2
  <2>4. after[k + 1] = SniffLine(g, line)
    BY <1>5, <2>2 DEF Reading
  <2>5. line \in LineType
    BY <1>1, <2>2
  <2>6. line.text = script[i].text
        /\ line.usage = IF script[i].usage = <<>> THEN <<>> ELSE Complete(script[i].usage)
    BY <1>1, <2>2
  <2>7. line.text # NoText => line.text \in ToSet(Said(script, e))
    BY <1>2, <1>3, <2>2, <2>6, SaidFacts
  <2>8. line.usage # <<>> => line.usage = Reported("openai", script, i)
    <3>1. (i - 1) + 1 = i
      BY <2>2
    <3>2. Reported("openai", script, i) = Reports("openai", Reported("openai", script, i - 1), script[i].usage)
      BY <2>2, <3>1, ReportedSteps
    <3> HIDE DEF i, line
    <3> QED
      BY <2>6, <3>2 DEF Reports
  <2> HIDE DEF i, line, g
  <2>9. SniffLine(g, line) \in HolderType
    BY <2>3, <2>5, LineSniffed
  <2>10. ToSet(SniffLine(g, line).content) \subseteq ToSet(Said(script, e))
    <3>1. CASE line.text = NoText
      BY <2>3, <3>1 DEF SniffLine
    <3>2. CASE line.text # NoText
      <4> DEFINE old == g.content
                 new == SniffLine(g, line).content
      <4>1. old \in Seq(Texts) /\ line.text \in Texts
        BY <2>3, <2>5, <3>2 DEF HolderType, LineType
      <4>2. new = Append(old, line.text)
        BY <3>2 DEF SniffLine
      <4>3. ToSet(old) \subseteq ToSet(Said(script, e))
        BY <2>3
      <4> HIDE DEF old, new
      <4>4. /\ DOMAIN old = 1 .. Len(old) /\ DOMAIN new = 1 .. Len(old) + 1 /\ Len(old) \in Nat
            /\ new[Len(old) + 1] = line.text /\ \A j \in 1 .. Len(old) : new[j] = old[j]
        BY <4>1, <4>2
      <4>5. ToSet(new) \subseteq ToSet(old) \cup {line.text}
        BY <4>4 DEF ToSet
      <4>6. ToSet(new) \subseteq ToSet(Said(script, e))
        BY <2>7, <3>2, <4>3, <4>5
      <4> QED
        BY <4>6 DEF new
    <3> QED
      BY <3>1, <3>2
  <2>11. SniffLine(g, line).usage \in {Reported("openai", script, m) : m \in 0 .. e}
    <3>1. SniffLine(g, line).usage = IF line.usage = <<>> THEN g.usage ELSE line.usage
      BY DEF SniffLine
    <3> QED
      BY <2>2, <2>3, <2>8, <3>1
  <2> QED
    BY <2>4, <2>9, <2>10, <2>11
<1> HIDE DEF S
<1>8. n \in S
  BY <1>1, <1>6, <1>7, ByInduction
<1>9. Partial(after[n])
  BY <1>1, <1>8 DEF S
<1> QED
  BY <1>5, <1>9 DEF Captured, Events, chunk, e

\* Of all that a translated stream brings, events or what follows them.
LEMMA YieldHeard ==
    ASSUME NEW kind \in Translated, NEW script \in Scripts[kind],
           NEW i \in Nat, i < Len(script) + 2, NEW seen, NEW h, Heard(kind, script, i, seen, h),
           NEW noted,
           noted = IF i + 1 <= Len(script) THEN Noted(kind, seen, script[i + 1].usage) ELSE seen
    PROVE  LET chunk == Yielded(kind, script, i + 1, noted)
           IN  chunk \in Chunk /\ Heard(kind, script, i + 1, noted, _sniff_usage(chunk, h))
<1>1. Len(script) \in Nat
  BY EventFacts DEF Kinds
<1>2. CASE i < Len(script)
  <2>1. noted = Noted(kind, seen, script[i + 1].usage)
    BY <1>1, <1>2
  <2> QED
    BY <1>2, <2>1, EventHeard
<1>3. CASE i \in {Len(script), Len(script) + 1}
  <2>1. noted = seen
    BY <1>1, <1>3
  <2> QED
    BY <1>3, <2>1, EndHeard
<1> QED
  BY <1>1, <1>2, <1>3

\* What has been captured once the chunk pulled ahead, if it still waits, has
\* been looked at.
Caught(s) == IF s.pc = "handed" THEN _sniff_usage(s.first, s.holder) ELSE s.holder

\* It is what was said so far, at every point of the stream.
Capturing(s) ==
    LET kind == KindOf[s.provider]
    IN  /\ s.pos <= End(kind, s.script) /\ s.split \in BOOLEAN
        /\ s.first \in Chunk /\ s.holder \in HolderType /\ SeenType(s.seen)
        /\ IF kind \in Translated
             THEN ~s.split /\ Heard(kind, s.script, s.pos, s.seen, Caught(s))
             ELSE Captured(kind, s.script, s.pos, s.split, Caught(s))

StreamsCaptured ==
    /\ breaker \in [Providers -> ProviderState]
    /\ \A r \in Streams :
          IF stream[r].pc = "idle" THEN stream[r] = NoStream ELSE Capturing(stream[r])

LEMMA CapturingMoves ==
    ASSUME StreamInv, StreamsCaptured, NEW r \in Streams, NEW t,
           t = NoStream \/ (t.pc # "idle" /\ Capturing(t)),
           stream' = [stream EXCEPT ![r] = t], breaker' \in [Providers -> ProviderState]
    PROVE  StreamsCaptured'
<1>1. \A q \in Streams : stream'[q] = IF q = r THEN t ELSE stream[q]
  BY DEF StreamInv
<1>2. ASSUME NEW q \in Streams
      PROVE  IF stream'[q].pc = "idle" THEN stream'[q] = NoStream ELSE Capturing(stream'[q])
  <2>1. CASE q = r
    BY <1>1, <2>1, NoStreamOnCourse
  <2>2. CASE q # r
    BY <1>1, <2>2 DEF StreamsCaptured
  <2> QED
    BY <2>1, <2>2
<1> QED
  BY <1>2 DEF StreamsCaptured

\* The breaker keeps to its type.
LEMMA CircuitsTyped ==
    ASSUME NEW b \in ProviderState
    PROVE  /\ Checked(b) \in ProviderState /\ Aged(b) \in ProviderState
           /\ Capped(Failed(b)) \in ProviderState
<1>1. Checked(b) \in ProviderState
  BY BreakerAssumption DEF Checked, Closed, ProviderState, NotOpened
<1>2. Aged(b) \in ProviderState
  BY BreakerAssumption DEF Aged, Opened, Expired, ProviderState, NotOpened
<1>3. Failed(b) \in ProviderState
  BY BreakerAssumption DEF Failed, ProviderState, NotOpened
<1>4. Capped(Failed(b)) \in ProviderState
  BY <1>3, StreamAssumption DEF Capped, ProviderState
<1> QED
  BY <1>1, <1>2, <1>4

\* Nothing has been said, and nothing captured, before a stream begins.
LEMMA OpensCapturing ==
    ASSUME StreamInv, StreamsCaptured, NEW r \in Streams, NEW chain \in Chains,
           NEW j \in DOMAIN chain, NEW script \in Scripts[KindOf[chain[j]]],
           Open(r, chain, j, script)
    PROVE  StreamsCaptured'
<1> DEFINE t == [NoStream EXCEPT !.pc = "opening", !.provider = chain[j], !.script = script]
           kind == KindOf[chain[j]]
<1>1. chain[j] \in Providers /\ kind \in Kinds
  BY StreamAssumption
<1>2. /\ t.pc = "opening" /\ t.provider = chain[j] /\ t.script = script /\ t.pos = 0
      /\ t.seen = <<>> /\ t.first = <<>> /\ t.split = FALSE
      /\ t.holder = [usage |-> ZeroUsage, content |-> <<>>]
  BY DEF NoStream
<1>3. stream' = [stream EXCEPT ![r] = t] /\ breaker' = [breaker EXCEPT ![chain[j]] = Checked(@)]
  BY DEF Open
<1>4. Len(script) \in Nat
  BY <1>1, EventFacts
<1> HIDE DEF t
<1>5. breaker' \in [Providers -> ProviderState]
  BY <1>1, <1>3, CircuitsTyped DEF StreamsCaptured
<1>6. t.holder \in HolderType /\ t.first \in Chunk /\ SeenType(t.seen)
  <2>1. ZeroUsage \in Usage
    BY DEF ZeroUsage, Usage
  <2>2. <<>> \in Seq(Texts) /\ <<>> \in Seq(LineType)
    OBVIOUS
  <2>3. DOMAIN <<>> = {}
    OBVIOUS
  <2> QED
    BY <1>2, <2>1, <2>2, <2>3 DEF HolderType, Chunk, LineType, SeenType
<1>7. Events(kind, script, 0) = 0
  BY <1>4 DEF Events
<1>8. Said(script, 0) = <<>>
  BY <1>1, SaidSteps
<1>9. Reported(kind, script, 0) = ZeroUsage
  BY <1>1, ReportedSteps
<1>10. Captured(kind, script, 0, FALSE, t.holder)
  BY <1>2, <1>7, <1>8, <1>9 DEF Captured
<1>11. Complete(<<>>) = ZeroUsage
  BY DEF Complete, ZeroUsage
<1>12. Heard(kind, script, 0, t.seen, t.holder)
  BY <1>2, <1>6, <1>7, <1>9, <1>10, <1>11 DEF Heard
<1>13. 0 <= End(kind, script)
  BY <1>4 DEF End
<1>14. Caught(t) = t.holder
  BY <1>2 DEF Caught
<1>15. Capturing(t)
  BY <1>2, <1>6, <1>10, <1>12, <1>13, <1>14 DEF Capturing
<1> QED
  BY <1>2, <1>3, <1>5, <1>15, CapturingMoves

\* A chunk that arrives is captured now, or with the start of the body.
LEMMA ChunkIsCaptured ==
    ASSUME StreamInv, StreamsCaptured, NEW r \in Streams,
           stream[r].pc \in {"opening", "relaying"},
           NEW pos \in Nat, NEW seen, NEW chunk, NEW split \in BOOLEAN,
           Arrive(r, pos, seen, chunk, split), UNCHANGED breaker,
           LET s == stream[r]
               kind == KindOf[s.provider]
               h == _sniff_usage(chunk, s.holder)
           IN  /\ pos <= End(kind, s.script) /\ chunk \in Chunk /\ SeenType(seen)
               /\ h \in HolderType
               /\ IF kind \in Translated
                    THEN split = FALSE /\ Heard(kind, s.script, pos, seen, h)
                    ELSE Captured(kind, s.script, pos, s.split \/ split, h)
    PROVE  StreamsCaptured'
<1> DEFINE s == stream[r]
           kind == KindOf[s.provider]
           h == _sniff_usage(chunk, s.holder)
           cut == s.split \/ split
           moved == [s EXCEPT !.pos = pos, !.seen = seen, !.split = @ \/ split]
           handed == [moved EXCEPT !.pc = "handed", !.first = chunk]
           relayed == [moved EXCEPT !.holder = _sniff_usage(chunk, @),
                                    !.dones = @ + Terminators(chunk)]
           Brought(t) == /\ t.provider = s.provider /\ t.script = s.script /\ t.pos = pos
                         /\ t.seen = seen /\ t.split = cut
                         /\ t.first \in Chunk /\ t.holder \in HolderType /\ Caught(t) = h
                         /\ t.pc # "idle"
<1>1. OnCourse(s) /\ Flowing(s) /\ Capturing(s)
  BY OnItsWay DEF StreamsCaptured
<1>2. s.split \in BOOLEAN /\ s.first \in Chunk /\ s.holder \in HolderType
      /\ (kind \in Translated => ~s.split)
  BY <1>1 DEF Capturing
<1>3. /\ DOMAIN moved = Fields
      /\ moved.pos = pos /\ moved.seen = seen /\ moved.split = cut
      /\ \A f \in {"pc", "provider", "script", "first", "holder"} : moved[f] = s[f]
  <2> HIDE DEF cut
  <2>1. DOMAIN s = Fields
    BY <1>1 DEF OnCourse
  <2>2. moved = [s EXCEPT !.pos = pos, !.seen = seen, !.split = cut]
    BY Zenon DEF cut
  <2> HIDE DEF moved, s
  <2> QED
    BY <2>1, <2>2 DEF Fields
<1>4. ASSUME NEW t, Brought(t) PROVE Capturing(t)
  <2>1. cut \in BOOLEAN /\ (kind \in Translated => ~cut)
    BY <1>2
  <2>2. /\ pos <= End(kind, s.script) /\ SeenType(seen)
        /\ IF kind \in Translated THEN Heard(kind, s.script, pos, seen, h)
                                 ELSE Captured(kind, s.script, pos, cut, h)
    OBVIOUS
  <2> HIDE DEF cut, h, kind
  <2>3. KindOf[t.provider] = kind
    BY <1>4 DEF kind
  <2> HIDE DEF s
  <2>4. /\ t.script = s.script /\ t.pos = pos /\ t.seen = seen /\ t.split = cut
        /\ t.first \in Chunk /\ t.holder \in HolderType /\ Caught(t) = h
    BY <1>4
  <2> QED
    BY <2>1, <2>2, <2>3, <2>4, Zenon DEF Capturing
<1>5. breaker' \in [Providers -> ProviderState]
  BY DEF StreamsCaptured
<1>6. CASE s.pc = "opening" /\ chunk = <<>> /\ kind \in Translated
  <2>1. stream' = [stream EXCEPT ![r] = moved]
    BY <1>6 DEF Arrive
  <2> HIDE DEF moved
  <2>2. h = s.holder
    BY <1>6, SniffNone
  <2>3. Caught(moved) = h
    BY <1>3, <1>6, <2>2 DEF Caught
  <2>4. Brought(moved)
    <3> HIDE DEF cut
    <3> QED
      BY <1>2, <1>3, <1>6, <2>3
  <2> QED
    BY <1>4, <1>5, <2>1, <2>4, CapturingMoves
<1>7. CASE s.pc = "opening" /\ ~(chunk = <<>> /\ kind \in Translated)
  <2>1. stream' = [stream EXCEPT ![r] = handed]
    BY <1>7 DEF Arrive
  <2> HIDE DEF moved, cut
  <2>2. /\ handed.pc = "handed" /\ handed.first = chunk
        /\ \A f \in {"pos", "seen", "split", "provider", "script", "holder"} : handed[f] = moved[f]
    BY <1>3 DEF Fields
  <2> HIDE DEF handed
  <2>3. Caught(handed) = h
    BY <1>3, <2>2 DEF Caught
  <2>4. Brought(handed)
    BY <1>2, <1>3, <2>2, <2>3
  <2> QED
    BY <1>4, <1>5, <2>1, <2>4, CapturingMoves
<1>8. CASE s.pc = "relaying"
  <2>1. stream' = [stream EXCEPT ![r] = relayed]
    BY <1>8 DEF Arrive
  <2> HIDE DEF moved, cut
  <2>2. /\ relayed.holder = _sniff_usage(chunk, moved.holder)
        /\ \A f \in {"pc", "pos", "seen", "split", "provider", "script", "first"} :
              relayed[f] = moved[f]
    BY <1>3 DEF Fields
  <2> HIDE DEF relayed
  <2>3. Caught(relayed) = h /\ relayed.holder = h
    BY <1>3, <1>8, <2>2 DEF Caught
  <2>4. Brought(relayed)
    BY <1>2, <1>3, <1>8, <2>2, <2>3
  <2> QED
    BY <1>4, <1>5, <2>1, <2>4, CapturingMoves
<1> QED
  BY <1>6, <1>7, <1>8

LEMMA TranslatesCapturing ==
    ASSUME StreamInv, StreamsCaptured, NEW r \in Streams, Translate(r)
    PROVE  StreamsCaptured'
<1> DEFINE s == stream[r]
           kind == KindOf[s.provider]
           i == s.pos + 1
           seen == IF i <= Len(s.script) THEN Noted(kind, s.seen, s.script[i].usage) ELSE s.seen
           chunk == Yielded(kind, s.script, i, seen)
<1>1. /\ s.pc \in {"opening", "relaying"} /\ kind \in Translated
      /\ s.pos < End(kind, s.script) /\ Arrive(r, i, seen, chunk, FALSE) /\ UNCHANGED breaker
  BY DEF Translate
<1>2. /\ s.pos \in Nat /\ s.script \in Scripts[kind] /\ kind \in Kinds
      /\ Len(s.script) \in Nat /\ End(kind, s.script) = Len(s.script) + 2
  BY <1>1, OnItsWay DEF Flowing, IsTranslated
<1>3. s.holder = Caught(s) /\ Heard(kind, s.script, s.pos, s.seen, Caught(s))
  BY <1>1 DEF StreamsCaptured, Capturing, Caught
<1>4. i \in Nat /\ i <= End(kind, s.script)
  BY <1>1, <1>2
<1>5. chunk \in Chunk /\ Heard(kind, s.script, i, seen, _sniff_usage(chunk, s.holder))
  <2>1. Heard(kind, s.script, s.pos, s.seen, s.holder) /\ s.pos < Len(s.script) + 2
    BY <1>1, <1>2, <1>3
  <2>2. seen = IF i <= Len(s.script) THEN Noted(kind, s.seen, s.script[i].usage) ELSE s.seen
    OBVIOUS
  <2> HIDE DEF seen
  <2> QED
    BY <1>1, <1>2, <2>1, <2>2, YieldHeard
<1> HIDE DEF seen, chunk, i
<1>6. SeenType(seen) /\ _sniff_usage(chunk, s.holder) \in HolderType
  BY <1>5 DEF Heard
<1>7. s.pc \in {"opening", "relaying"} /\ kind \in Translated /\ Arrive(r, i, seen, chunk, FALSE)
      /\ UNCHANGED breaker
  BY <1>1
<1> QED
  BY <1>4, <1>5, <1>6, <1>7, ChunkIsCaptured

LEMMA PassesThroughCapturing ==
    ASSUME StreamInv, StreamsCaptured, NEW r \in Streams, NEW to, PassThrough(r, to)
    PROVE  StreamsCaptured'
<1> DEFINE s == stream[r]
           kind == KindOf[s.provider]
           chunk == WholeLines(s.script, s.pos, to)
           cut == s.pos % 2 = 1 \/ to % 2 = 1
           h == _sniff_usage(chunk, s.holder)
<1>1. /\ s.pc \in {"opening", "relaying"} /\ kind = "openai"
      /\ to \in s.pos + 1 .. 2 * Len(s.script) /\ Arrive(r, to, <<>>, chunk, cut)
      /\ UNCHANGED breaker
  BY DEF PassThrough
<1>2. /\ s.pos \in Nat /\ s.script \in Scripts["openai"] /\ Len(s.script) \in Nat
      /\ "openai" \notin Translated
  BY <1>1, OnItsWay DEF Flowing, Translated
<1>3. to \in Nat /\ s.pos < to /\ to <= 2 * Len(s.script) /\ s.pos <= 2 * Len(s.script)
  BY <1>1, <1>2
<1>4. /\ s.holder \in HolderType /\ s.split \in BOOLEAN
      /\ Captured("openai", s.script, s.pos, s.split, s.holder)
  BY <1>1, <1>2 DEF StreamsCaptured, Capturing, Caught
<1>5. chunk \in Chunk
  BY <1>2, <1>3, WholeLinesAre
<1>6. h \in HolderType
  BY <1>4, <1>5, SniffTyped DEF Chunk, LineType
<1>7. to <= End(kind, s.script)
  BY <1>1, <1>3 DEF End
<1>8. cut \in BOOLEAN
  OBVIOUS
<1>9. Captured("openai", s.script, to, s.split \/ cut, h)
  <2>1. CASE s.split = FALSE /\ cut = FALSE
    <3>1. s.pos % 2 = 0 /\ to % 2 = 0
      BY <1>2, <1>3, <2>1
    <3>2. Captured("openai", s.script, s.pos, FALSE, s.holder)
      BY <1>4, <2>1
    <3>3. Captured("openai", s.script, to, FALSE, h)
      BY <1>2, <1>3, <1>4, <3>1, <3>2, WholeChunkHeard
    <3>4. (s.split \/ cut) = FALSE
      BY <2>1
    <3> QED
      BY <3>3, <3>4, Zenon
  <2>2. CASE ~(s.split = FALSE /\ cut = FALSE)
    <3>1. Captured("openai", s.script, s.pos, TRUE, s.holder)
      BY <1>2, <1>3, <1>4, WeakerWhenSplit
    <3>2. Captured("openai", s.script, to, TRUE, h)
      BY <1>2, <1>3, <1>4, <3>1, AnyChunkHeard
    <3>3. (s.split \/ cut) = TRUE
      BY <1>4, <1>8, <2>2
    <3> QED
      BY <3>2, <3>3, Zenon
  <2> QED
    BY <2>1, <2>2
<1>10. SeenType(<<>>)
  <2>1. DOMAIN <<>> = {}
    OBVIOUS
  <2> QED
    BY <2>1 DEF SeenType
<1> HIDE DEF chunk, cut
<1>11. kind \notin Translated /\ Captured(kind, s.script, to, s.split \/ cut, h)
  BY <1>1, <1>2, <1>9, Zenon
<1> QED
  BY <1>1, <1>3, <1>5, <1>6, <1>7, <1>8, <1>10, <1>11, ChunkIsCaptured

\* Every other step of a stream leaves what is captured as it is.
LEMMA GoesOnCapturing ==
    ASSUME StreamInv, StreamsCaptured, NEW r \in Streams,
           NothingSent(r) \/ Start(r) \/ UpstreamFails(r) \/ UpstreamEnds(r) \/ ClientGone(r)
    PROVE  StreamsCaptured'
<1> DEFINE s == stream[r]
           kind == KindOf[s.provider]
           Same(t) == /\ t.provider = s.provider /\ t.script = s.script /\ t.pos = s.pos
                      /\ t.seen = s.seen /\ t.split = s.split
                      /\ t.first \in Chunk /\ t.holder \in HolderType /\ Caught(t) = Caught(s)
                      /\ t.pc # "idle"
<1>1. OnCourse(s) /\ Flowing(s) /\ Capturing(s)
  BY OnItsWay DEF StreamsCaptured, NothingSent, Start, UpstreamFails, UpstreamEnds, ClientGone
<1>2. s.first \in Chunk /\ s.holder \in HolderType /\ DOMAIN s = Fields
  BY <1>1 DEF Capturing, OnCourse
<1>3. ASSUME NEW t, Same(t), stream' = [stream EXCEPT ![r] = t] PROVE StreamsCaptured'
  <2>1. breaker' \in [Providers -> ProviderState]
    BY DEF StreamsCaptured, NothingSent, Start, UpstreamFails, UpstreamEnds, ClientGone
  <2>2. Capturing(t)
    <3>1. /\ s.pos <= End(kind, s.script) /\ s.split \in BOOLEAN /\ SeenType(s.seen)
          /\ IF kind \in Translated
               THEN ~s.split /\ Heard(kind, s.script, s.pos, s.seen, Caught(s))
               ELSE Captured(kind, s.script, s.pos, s.split, Caught(s))
      BY <1>1 DEF Capturing
    <3> HIDE DEF kind
    <3>2. KindOf[t.provider] = kind
      BY <1>3 DEF kind
    <3> QED
      BY <1>3, <3>1, <3>2, Zenon DEF Capturing
  <2> QED
    BY <1>3, <2>1, <2>2, CapturingMoves
<1>4. CASE NothingSent(r)
  <2> DEFINE t == [s EXCEPT !.pc = "handed"]
  <2>1. stream' = [stream EXCEPT ![r] = t] /\ s.pc = "opening"
    BY <1>4 DEF NothingSent
  <2>2. t.pc = "handed" /\ \A f \in Fields \ {"pc"} : t[f] = s[f]
    BY <1>2 DEF Fields
  <2> HIDE DEF t
  <2>3. s.first = <<>>
    BY <1>1, <2>1 DEF Flowing
  <2>4. Caught(t) = Caught(s)
    BY <2>1, <2>2, <2>3, SniffNone DEF Caught, Fields
  <2>5. Same(t)
    BY <1>2, <2>2, <2>4 DEF Fields
  <2> QED
    BY <1>3, <2>1, <2>5
<1>5. CASE Start(r)
  <2> DEFINE t == [s EXCEPT !.pc = "relaying", !.first = <<>>,
                            !.holder = _sniff_usage(s.first, @),
                            !.dones = Terminators(s.first)]
  <2>1. stream' = [stream EXCEPT ![r] = t] /\ s.pc = "handed"
    BY <1>5 DEF Start
  <2>2. /\ t.pc = "relaying" /\ t.first = <<>> /\ t.holder = _sniff_usage(s.first, s.holder)
        /\ \A f \in Fields \ {"pc", "first", "holder", "dones"} : t[f] = s[f]
    BY <1>2 DEF Fields
  <2> HIDE DEF t
  <2>3. Caught(t) = Caught(s)
    BY <2>1, <2>2 DEF Caught
  <2>4. t.first \in Chunk
    <3>1. <<>> \in Seq(LineType)
      OBVIOUS
    <3> QED
      BY <2>2, <3>1 DEF Chunk, LineType
  <2>5. t.holder \in HolderType
    BY <1>2, <2>2, SniffTyped DEF Chunk, LineType
  <2>6. Same(t)
    BY <2>2, <2>3, <2>4, <2>5 DEF Fields
  <2> QED
    BY <1>3, <2>1, <2>6
<1>6. CASE UpstreamFails(r) \/ UpstreamEnds(r) \/ ClientGone(r)
  <2> DEFINE t == IF UpstreamFails(r) THEN Interrupted(s)
                  ELSE IF UpstreamEnds(r) THEN [s EXCEPT !.pc = "ended"]
                  ELSE [s EXCEPT !.pc = "left"]
  <2>1. stream' = [stream EXCEPT ![r] = t] /\ s.pc = "relaying"
    BY <1>6 DEF UpstreamFails, UpstreamEnds, ClientGone
  <2>2. t.pc \in {"ended", "left"} /\ \A f \in Fields \ {"pc", "failed", "dones"} : t[f] = s[f]
    BY <1>2 DEF Fields, Interrupted
  <2> HIDE DEF t
  <2>3. Caught(t) = Caught(s)
    BY <2>1, <2>2 DEF Caught, Fields
  <2>4. Same(t)
    BY <1>2, <2>2, <2>3 DEF Fields
  <2> QED
    BY <1>3, <2>1, <2>4
<1> QED
  BY <1>4, <1>5, <1>6

\* Whatever upstreams send, wherever the network cuts it and whenever it breaks
\* off: what is recorded of a stream that ends is the text that was relayed,
\* and the usage the upstream reported - of a stream cut within a line nothing
\* that was not said.
THEOREM CapturedAsSaid == StreamSpec => []CaptureInv
<1> DEFINE Inv == StreamInv /\ StreamsCaptured
<1>1. StreamInit => Inv
  <2>1. Closed \in ProviderState
    BY BreakerAssumption DEF Closed, ProviderState, NotOpened
  <2> QED
    BY <2>1, NoStreamOnCourse DEF StreamInit, StreamInv, StreamsCaptured
<1>2. Inv /\ [StreamNext]_streamVars => StreamsCaptured'
  <2> SUFFICES ASSUME StreamInv, StreamsCaptured, [StreamNext]_streamVars PROVE StreamsCaptured'
    OBVIOUS
  <2>1. ASSUME NEW r \in Streams, StartRefused(r) \/ StartRaises(r) \/ NeverStarted(r) \/ Recorded(r)
        PROVE  StreamsCaptured'
    <3>1. stream' = [stream EXCEPT ![r] = NoStream]
      BY <2>1 DEF StartRefused, StartRaises, NeverStarted, Recorded
    <3>2. breaker' \in [Providers -> ProviderState]
      <4>1. CASE StartRefused(r)
        <5>1. stream[r].provider \in Providers
          BY <4>1, OnItsWay DEF StartRefused, Flowing
        <5> QED
          BY <4>1, <5>1, CircuitsTyped DEF StartRefused, StreamsCaptured
      <4>2. CASE UNCHANGED breaker
        BY <4>2 DEF StreamsCaptured
      <4> QED
        BY <2>1, <4>1, <4>2 DEF StartRaises, NeverStarted, Recorded
    <3> QED
      BY <3>1, <3>2, CapturingMoves
  <2>2. CASE StreamTick
    <3>1. breaker' \in [Providers -> ProviderState]
      BY <2>2, CircuitsTyped DEF StreamTick, StreamsCaptured
    <3> QED
      BY <2>2, <3>1 DEF StreamTick, StreamsCaptured
  <2>3. CASE UNCHANGED streamVars
    BY <2>3 DEF streamVars, StreamsCaptured
  <2> QED
    BY <2>1, <2>2, <2>3, OpensCapturing, TranslatesCapturing, PassesThroughCapturing,
       GoesOnCapturing DEF StreamNext
<1>3. Inv => CaptureInv
  <2> SUFFICES ASSUME StreamInv, StreamsCaptured, NEW r \in Streams
               PROVE  LET s == stream[r]
                      IN  /\ s.pc \in {"idle", "opening", "handed", "relaying", "ended", "left"}
                          /\ s.pc # "idle" => s.provider \in Providers /\ s.script \in Scripts[KindOf[s.provider]]
                          /\ s.pos \in 0 .. 2 * Len(s.script) + 2
                          /\ DOMAIN s.seen \subseteq Counts
                          /\ s.first \in Chunk
                          /\ s.holder \in HolderType
                          /\ s.dones \in Nat /\ s.failed \in BOOLEAN /\ s.split \in BOOLEAN
                          /\ s.pc \in {"ended", "left"} =>
                               Captured(KindOf[s.provider], s.script, s.pos, s.split, s.holder)
    BY DEF CaptureInv, StreamTypeOK, CaptureExact, StreamsCaptured, HolderType
  <2> DEFINE s == stream[r]
             kind == KindOf[s.provider]
  <2>1. CASE s.pc = "idle"
    <3>1. s = NoStream
      BY <2>1 DEF StreamsCaptured
    <3>2. /\ s.pos = 0 /\ s.script = <<>> /\ s.seen = <<>> /\ s.first = <<>> /\ s.dones = 0
          /\ s.failed = FALSE /\ s.split = FALSE
          /\ s.holder = [usage |-> ZeroUsage, content |-> <<>>]
      BY <3>1 DEF NoStream
    <3>3. ZeroUsage \in Usage /\ <<>> \in Seq(Texts) /\ <<>> \in Seq(LineType)
          /\ DOMAIN <<>> = {} /\ Len(<<>>) = 0
      BY DEF ZeroUsage, Usage
    <3>4. s.first \in Chunk /\ s.holder \in HolderType
      BY <3>2, <3>3 DEF HolderType, Chunk, LineType
    <3>5. s.pos \in 0 .. 2 * Len(s.script) + 2
      BY <3>2, <3>3
    <3>6. DOMAIN s.seen \subseteq Counts
      BY <3>2, <3>3
    <3>7. s.dones \in Nat /\ s.failed \in BOOLEAN /\ s.split \in BOOLEAN
      <4>1. s.dones \in Nat
        BY <3>2
      <4>2. s.failed \in BOOLEAN /\ s.split \in BOOLEAN
        BY <3>2, Zenon
      <4> QED
        BY <4>1, <4>2, Zenon
    <3> HIDE DEF s
    <3> QED
      BY <2>1, <3>4, <3>5, <3>6, <3>7 DEF s
  <2>2. CASE s.pc # "idle"
    <3>1. OnCourse(s) /\ Flowing(s) /\ Capturing(s) /\ Len(s.script) \in Nat
      BY <2>2, OnItsWay DEF StreamsCaptured
    <3>2. s.pos \in Nat /\ s.pos <= End(kind, s.script)
      BY <3>1 DEF Flowing, Capturing
    <3>3. End(kind, s.script) <= 2 * Len(s.script) + 2
      BY <3>1 DEF End
    <3>4. s.pos \in 0 .. 2 * Len(s.script) + 2
      BY <3>1, <3>2, <3>3 DEF End
    <3>5. DOMAIN s.seen \subseteq Counts /\ s.first \in Chunk /\ s.holder \in HolderType
          /\ s.split \in BOOLEAN
      BY <3>1 DEF Capturing, SeenType
    <3>6. s.failed \in BOOLEAN
      BY <3>1 DEF OnCourse, Flowing
    <3>7. s.pc \in {"ended", "left"} => Captured(kind, s.script, s.pos, s.split, s.holder)
      <4> SUFFICES ASSUME s.pc \in {"ended", "left"} PROVE Captured(kind, s.script, s.pos, s.split, s.holder)
        OBVIOUS
      <4>1. Caught(s) = s.holder
        BY DEF Caught
      <4>2. CASE kind \in Translated
        <5>1. s.split = FALSE /\ Captured(kind, s.script, s.pos, FALSE, s.holder)
          BY <3>1, <4>1, <4>2 DEF Capturing, Heard
        <5> QED
          BY <5>1
      <4>3. CASE kind \notin Translated
        BY <3>1, <4>1, <4>3 DEF Capturing
      <4> QED
        BY <4>2, <4>3
    <3> HIDE DEF s
    <3> QED
      BY <3>1, <3>4, <3>5, <3>6, <3>7 DEF OnCourse, Flowing, s, kind
  <2> QED
    BY <2>1, <2>2
<1> QED
  BY <1>1, <1>2, <1>3, NextStreamInv, PTL DEF StreamSpec

=============================================================================
