--------------------------- MODULE TokenBucketProofs ---------------------------
(***************************************************************************)
(* Proofs about TokenBucket and, from "The shared bucket" on, RedisBucket,  *)
(* for every length of a minute, every limit, any number of calls and any  *)
(* delay.                                                                  *)
(***************************************************************************)
EXTENDS TokenBucket, RedisBucket, TLAPS

(***************************************************************************)
(* Arithmetic of the refill: products the provers do not see by themselves.*)
(***************************************************************************)
LEMMA ProductMonotone ==
    ASSUME NEW a \in Nat, NEW m \in Nat, NEW n \in Nat, m <= n
    PROVE  /\ a * m \in Nat /\ a * n \in Nat
           /\ a * m <= a * n /\ m * a <= n * a
           /\ a * m = m * a
<1>1. PICK d \in Nat : n = m + d
  <2>1. n - m \in Nat /\ n = m + (n - m)
    OBVIOUS
  <2> QED
    BY <2>1
<1>2. a * n = a * m + a * d /\ a * d \in Nat
  BY <1>1
<1> QED
  BY <1>2

LEMMA RefillFacts ==
    ASSUME NEW t \in Nat, NEW a \in Nat, NEW l \in Nat
    PROVE  /\ Capacity(l) \in Nat
           /\ Refilled(t, a, l) \in 0 .. Capacity(l)
           /\ Refilled(t, 0, l) = Least(Capacity(l), t)
           /\ Refilled(t, a, l) <= t + a * l
<1>1. l * Minute \in Nat /\ a * l \in Nat
  BY MinuteAssumption
<1> QED
  BY <1>1 DEF Refilled, Capacity, RefillRate, Least

\* A minute fills any bucket.
LEMMA MinuteFills ==
    ASSUME NEW t \in Nat, NEW l \in Nat
    PROVE  Refilled(t, Minute, l) = Capacity(l)
<1>1. Minute * l = l * Minute /\ l * Minute \in Nat
  BY MinuteAssumption
<1> QED
  BY <1>1 DEF Refilled, Capacity, RefillRate, Least

\* Refilling for a tick more is refilling, then topping up for a tick; after a
\* minute one need not count any longer.
LEMMA RefillByTicks ==
    ASSUME NEW t \in Nat, NEW a \in 0 .. Minute, NEW l \in Nat
    PROVE  Refilled(t, Least(Minute, a + 1), l) = Refilled(Refilled(t, a, l), 1, l)
<1>1. /\ a \in Nat /\ l * Minute \in Nat /\ a * l \in Nat
      /\ (a + 1) * l = a * l + l /\ 1 * l = l
  BY MinuteAssumption
<1>2. CASE a < Minute
  <2>1. Least(Minute, a + 1) = a + 1
    BY <1>2, MinuteAssumption DEF Least
  <2> QED
    BY <1>1, <2>1 DEF Refilled, Capacity, RefillRate, Least
<1>3. CASE a = Minute
  <2>1. Least(Minute, a + 1) = Minute
    BY <1>3, MinuteAssumption DEF Least
  <2>2. Refilled(t, Minute, l) = Capacity(l)
    BY MinuteFills
  <2> QED
    BY <1>1, <1>3, <2>1, <2>2 DEF Refilled, Capacity, RefillRate, Least
<1> QED
  BY <1>2, <1>3, MinuteAssumption

\* A higher limit credits more.
LEMMA RefillMonotone ==
    ASSUME NEW t \in Nat, NEW a \in Nat, NEW l \in Nat, NEW m \in Nat, l <= m
    PROVE  /\ Capacity(l) <= Capacity(m)
           /\ Refilled(t, a, l) <= Refilled(t, a, m)
<1>1. /\ l * Minute \in Nat /\ m * Minute \in Nat /\ l * Minute <= m * Minute
      /\ a * l \in Nat /\ a * m \in Nat /\ a * l <= a * m
  BY ProductMonotone, MinuteAssumption
<1> QED
  BY <1>1 DEF Refilled, Capacity, RefillRate, Least

\* A bucket with fewer tokens holds fewer after a refill, by no more.
LEMMA RefillTokens ==
    ASSUME NEW t \in Nat, NEW u \in Nat, NEW a \in Nat, NEW l \in Nat, t <= u
    PROVE  /\ Refilled(t, a, l) <= Refilled(u, a, l)
           /\ Refilled(u, a, l) - Refilled(t, a, l) <= u - t
<1>1. l * Minute \in Nat /\ a * l \in Nat
  BY MinuteAssumption
<1> QED
  BY <1>1 DEF Refilled, Capacity, RefillRate, Least

\* Retry-After covers what is missing, and no more than a minute.
LEMMA RetryAfterFacts ==
    ASSUME NEW l \in Nat \ {0}, NEW t \in Nat, t < Cost
    PROVE  /\ RetryAfter(t, l) \in 1 .. Minute
           /\ t + RetryAfter(t, l) * l >= Cost
<1> DEFINE d == Minute - t + l - 1
           q == d \div l
<1>1. d \in Nat /\ d >= l /\ d <= Minute + l - 1
  BY MinuteAssumption DEF Cost
<1>2. q \in Int /\ q * l <= d /\ d < (q + 1) * l
  BY <1>1
<1>3. q >= 1
  BY <1>1, <1>2
<1>4. q <= Minute
  BY <1>1, <1>2, MinuteAssumption
<1> QED
  BY <1>1, <1>2, <1>3, <1>4, MinuteAssumption DEF RetryAfter, Cost, RefillRate

LEMMA LimitFacts ==
    /\ MaxLimit \in Limits
    /\ \A l \in Limits : l \in Nat \ {0} /\ l <= MaxLimit
BY LimitsAssumption DEF MaxLimit

(***************************************************************************)
(* The type invariant.                                                     *)
(***************************************************************************)
LEMMA Numbers ==
    ASSUME TypeOK
    PROVE  /\ tokens \in Nat /\ age \in Nat /\ limit \in Nat \ {0}
           /\ elapsed \in Nat /\ granted \in Nat
           /\ MaxLimit \in Nat \ {0} /\ limit <= MaxLimit
           /\ Available \in 0 .. Capacity(MaxLimit)
           /\ Capacity(MaxLimit) \in Nat
<1>1. /\ limit \in Nat \ {0} /\ MaxLimit \in Nat \ {0} /\ limit <= MaxLimit
  BY LimitFacts DEF TypeOK
<1>2. Capacity(MaxLimit) \in Nat /\ tokens \in Nat /\ age \in Nat
  BY <1>1, MinuteAssumption DEF TypeOK, Capacity
<1>3. Available \in 0 .. Capacity(limit) /\ Capacity(limit) <= Capacity(MaxLimit)
  BY <1>1, <1>2, RefillFacts, RefillMonotone DEF Available
<1>4. Capacity(limit) \in Nat
  BY <1>1, <1>2, RefillFacts
<1> QED
  BY <1>1, <1>2, <1>3, <1>4 DEF TypeOK

LEMMA InitTypeOK == Init => TypeOK
<1> SUFFICES ASSUME Init PROVE TypeOK
  OBVIOUS
<1>1. Capacity(MaxLimit) \in Nat
  BY LimitFacts, MinuteAssumption DEF Capacity
<1> QED
  BY <1>1, MinuteAssumption, LimitsAssumption DEF Init, Absent, TypeOK, NoPromise

LEMMA NextTypeOK == TypeOK /\ [Next]_vars => TypeOK'
<1> SUFFICES ASSUME TypeOK, [Next]_vars PROVE TypeOK'
  OBVIOUS
<1>1. /\ Available \in 0 .. Capacity(MaxLimit) /\ Capacity(MaxLimit) \in Nat
      /\ limit \in Nat \ {0} /\ Minute \in Nat \ {0} /\ MaxElapsed \in Nat
  BY Numbers, MinuteAssumption, LimitsAssumption
<1>2. CASE AcquireAllowed
  BY <1>1, <1>2 DEF AcquireAllowed, TypeOK, Cost, NoPromise
<1>3. CASE AcquireRefused
  <2>1. RetryAfter(Available, limit) \in 1 .. Minute
    BY <1>1, <1>3, RetryAfterFacts DEF AcquireRefused
  <2>2. promise' \in NoPromise .. Minute
    BY <1>1, <1>3, <2>1 DEF AcquireRefused, Promised, TypeOK, NoPromise
  <2> QED
    BY <1>1, <1>3, <2>2 DEF AcquireRefused, TypeOK
<1>4. ASSUME NEW l \in Limits, Patch(l) PROVE TypeOK'
  BY <1>1, <1>4 DEF Patch, TypeOK, NoPromise
<1>5. CASE Tick
  BY <1>1, <1>5 DEF Tick, TypeOK, Least, NoPromise
<1>6. CASE Mark
  BY <1>1, <1>6 DEF Mark, TypeOK
<1>7. CASE Restart
  BY <1>1, <1>7 DEF Restart, TypeOK, NoPromise
<1>8. CASE UNCHANGED vars
  BY <1>8 DEF vars, TypeOK
<1> QED
  BY <1>2, <1>3, <1>4, <1>5, <1>6, <1>7, <1>8 DEF Next

\* The bucket never holds more than the largest limit's capacity, and no
\* promise is longer than a minute.
THEOREM TypeCorrect == Spec => []TypeOK
BY InitTypeOK, NextTypeOK, PTL DEF Spec

(***************************************************************************)
(* What a window grants.                                                   *)
(***************************************************************************)
LEMMA NextGrantInv == TypeOK /\ GrantInv /\ [Next]_vars => GrantInv'
<1> SUFFICES ASSUME TypeOK, GrantInv, [Next]_vars PROVE GrantInv'
  OBVIOUS
<1> DEFINE M == MaxLimit
           credit == Refilled(tokens, age, M)
<1>1. /\ M \in Nat \ {0} /\ Capacity(M) \in Nat /\ limit \in Nat \ {0}
      /\ tokens \in Nat /\ age \in Nat /\ granted \in Nat /\ elapsed \in Nat
      /\ Available \in Nat /\ age \in 0 .. Minute /\ Minute \in Nat \ {0}
  BY Numbers, MinuteAssumption DEF TypeOK
<1>2. credit \in 0 .. Capacity(M) /\ Available <= credit
  BY <1>1, Numbers, RefillFacts, RefillMonotone DEF Available
<1>3. granted * Cost + credit <= Capacity(M) + elapsed * M
  BY DEF GrantInv, RefillRate
<1>4. elapsed * M \in Nat /\ granted * Cost \in Nat
  BY <1>1 DEF Cost
<1> HIDE DEF M, credit
<1>5. GrantInv' <=> granted' * Cost + Refilled(tokens', age', M)
                      <= Capacity(M) + elapsed' * M
  BY DEF GrantInv, RefillRate, M, MaxLimit, Refilled, Capacity, Cost
<1>6. CASE AcquireAllowed
  <2>1. tokens' = Available - Cost /\ age' = 0 /\ elapsed' = elapsed
    BY <1>6 DEF AcquireAllowed
  <2>2. Available - Cost \in Nat
    BY <1>1, <1>6 DEF AcquireAllowed, Cost
  <2>3. Refilled(tokens', age', M) <= Available - Cost
    BY <1>1, <2>1, <2>2, RefillFacts DEF Least
  <2>4. granted' * Cost = granted * Cost + Cost
    BY <1>1, <1>6 DEF AcquireAllowed, Cost
  <2>5. Refilled(tokens', age', M) \in Nat /\ Cost \in Nat
    <3>1. tokens' \in Nat /\ age' \in Nat /\ Cost \in Nat
      BY <1>1, <2>1, <2>2 DEF Cost
    <3>2. Refilled(tokens', age', M) \in 0 .. Capacity(M)
      BY <1>1, <3>1, RefillFacts
    <3> QED
      BY <1>1, <3>1, <3>2
  <2> QED
    BY <1>1, <1>2, <1>3, <1>4, <1>5, <2>1, <2>3, <2>4, <2>5
<1>7. CASE AcquireRefused
  <2>1. /\ tokens' = Available /\ age' = 0
        /\ elapsed' = elapsed /\ granted' = granted
    BY <1>7 DEF AcquireRefused
  <2>2. Refilled(tokens', age', M) <= Available /\ Refilled(tokens', age', M) \in Nat
    <3>1. Refilled(tokens', 0, M) = Least(Capacity(M), tokens')
      BY <1>1, <2>1, RefillFacts
    <3> QED
      BY <1>1, <2>1, <3>1 DEF Least
  <2> QED
    BY <1>1, <1>2, <1>3, <1>4, <1>5, <2>1, <2>2
<1>8. ASSUME NEW l \in Limits, Patch(l) PROVE GrantInv'
  BY <1>3, <1>5, <1>8 DEF Patch, credit
<1>9. CASE Tick
  <2>1. /\ tokens' = tokens /\ granted' = granted
        /\ age' = Least(Minute, age + 1) /\ elapsed' = elapsed + 1
    BY <1>9 DEF Tick
  <2>2. Refilled(tokens', age', M) = Refilled(credit, 1, M)
    BY <1>1, <2>1, RefillByTicks DEF credit
  <2>3. Refilled(credit, 1, M) <= credit + M /\ Refilled(credit, 1, M) \in Nat
    <3>1. credit \in Nat /\ M \in Nat /\ 1 * M = M
      BY <1>1, <1>2
    <3>2. Refilled(credit, 1, M) \in 0 .. Capacity(M)
      BY <3>1, RefillFacts
    <3>3. Refilled(credit, 1, M) <= credit + 1 * M
      BY <3>1, RefillFacts
    <3> QED
      BY <1>1, <3>1, <3>2, <3>3
  <2>4. elapsed' * M = elapsed * M + M
    BY <1>1, <2>1
  <2> QED
    BY <1>1, <1>2, <1>3, <1>4, <1>5, <2>1, <2>2, <2>3, <2>4
<1>10. CASE Mark \/ Restart
  <2>1. elapsed' = 0 /\ granted' = 0 /\ tokens' \in Nat /\ age' \in Nat
    BY <1>1, <1>10 DEF Mark, Restart
  <2>2. Refilled(tokens', age', M) \in 0 .. Capacity(M)
    BY <1>1, <2>1, RefillFacts
  <2> QED
    BY <1>1, <1>5, <2>1, <2>2 DEF Cost
<1>11. CASE UNCHANGED vars
  BY <1>3, <1>5, <1>11 DEF vars, credit
<1> QED
  BY <1>6, <1>7, <1>8, <1>9, <1>10, <1>11 DEF Next

\* No window grants more than a full bucket and what is refilled meanwhile.
THEOREM WindowsBounded == Spec => []WindowBound
<1>1. Init => GrantInv
  <2> SUFFICES ASSUME Init PROVE GrantInv
    OBVIOUS
  <2>1. MaxLimit \in Nat /\ 0 * Cost = 0 /\ 0 * RefillRate(MaxLimit) = 0
    BY LimitFacts, MinuteAssumption DEF Cost, RefillRate
  <2>2. tokens = 0 /\ age = Minute /\ elapsed = 0 /\ granted = 0
    BY DEF Init, Absent
  <2>3. Refilled(tokens, age, MaxLimit) = Capacity(MaxLimit) /\ Capacity(MaxLimit) \in Nat
    BY <2>1, <2>2, MinuteFills, RefillFacts, MinuteAssumption
  <2> QED
    BY <2>1, <2>2, <2>3 DEF GrantInv
<1>2. TypeOK /\ GrantInv => WindowBound
  <2> SUFFICES ASSUME TypeOK, GrantInv PROVE WindowBound
    OBVIOUS
  <2>1. Refilled(tokens, age, MaxLimit) \in Nat
    <3>1. tokens \in Nat /\ age \in Nat /\ MaxLimit \in Nat /\ Capacity(MaxLimit) \in Nat
      BY Numbers
    <3>2. Refilled(tokens, age, MaxLimit) \in 0 .. Capacity(MaxLimit)
      BY <3>1, RefillFacts
    <3> QED
      BY <3>1, <3>2
  <2>2. granted * Cost \in Nat /\ elapsed * RefillRate(MaxLimit) \in Nat
    BY Numbers, MinuteAssumption DEF Cost, RefillRate
  <2> QED
    BY <2>1, <2>2, Numbers DEF GrantInv, WindowBound
<1>3. TypeOK /\ GrantInv /\ [Next]_vars => TypeOK' /\ GrantInv'
  BY NextTypeOK, NextGrantInv
<1> QED
  BY <1>1, <1>2, <1>3, InitTypeOK, PTL DEF Spec

(***************************************************************************)
(* Retry-After.                                                            *)
(***************************************************************************)
LEMMA NextPromiseInv == TypeOK /\ PromiseInv /\ [Next]_vars => PromiseInv'
<1> SUFFICES ASSUME TypeOK, PromiseInv, [Next]_vars, promise' # NoPromise
             PROVE  Available' + promise' * limit' >= Cost
  BY DEF PromiseInv, RefillRate, Cost
<1>1. /\ limit \in Nat \ {0} /\ Minute \in Nat \ {0} /\ Cost = Minute
      /\ tokens \in Nat /\ age \in Nat /\ age \in 0 .. Minute
      /\ Available \in Nat /\ promise \in NoPromise .. Minute
      /\ Available' = Refilled(tokens', age', limit')
  BY Numbers, MinuteAssumption DEF TypeOK, Available, Cost
<1>2. promise # NoPromise =>
        promise \in Nat /\ promise * limit \in Nat
          /\ Available + promise * limit >= Cost
  BY <1>1 DEF PromiseInv, RefillRate, NoPromise
<1>3. Capacity(limit) \in Nat /\ Capacity(limit) >= Cost
  BY <1>1 DEF Capacity
<1>4. CASE AcquireRefused
  <2>1. tokens' = Available /\ age' = 0 /\ limit' = limit /\ Available < Cost
    BY <1>4 DEF AcquireRefused
  <2>2. Available' = Available
    <3>1. Refilled(Available, 0, limit) = Least(Capacity(limit), Available)
      BY <1>1, RefillFacts
    <3> QED
      BY <1>1, <1>3, <2>1, <3>1 DEF Least
  <2>3. CASE promise = NoPromise
    <3>1. promise' = RetryAfter(Available, limit)
      BY <1>4, <2>3 DEF AcquireRefused, Promised
    <3> QED
      BY <1>1, <2>1, <2>2, <3>1, RetryAfterFacts
  <2>4. CASE promise # NoPromise
    <3>1. promise' = promise
      BY <1>4, <2>4 DEF AcquireRefused, Promised
    <3> QED
      BY <1>2, <2>1, <2>2, <2>4, <3>1
  <2> QED
    BY <2>3, <2>4
<1>5. CASE Tick
  <2>1. /\ tokens' = tokens /\ limit' = limit /\ age' = Least(Minute, age + 1)
        /\ promise' = IF promise > 0 THEN promise - 1 ELSE promise
    BY <1>5 DEF Tick
  <2>2. Available' = Refilled(Available, 1, limit)
    BY <1>1, <2>1, RefillByTicks DEF Available
  <2>3. Available' = Least(Capacity(limit), Available + limit)
    BY <1>1, <2>2 DEF Refilled, RefillRate
  <2>4. promise \in Nat
    BY <1>1, <2>1 DEF NoPromise
  <2>5. CASE promise = 0
    BY <1>1, <1>2, <1>3, <2>1, <2>3, <2>5 DEF Least, NoPromise
  <2>6. CASE promise > 0
    <3>1. promise' * limit = promise * limit - limit /\ promise' * limit \in Nat
      BY <1>1, <2>1, <2>4, <2>6
    <3> QED
      BY <1>1, <1>2, <1>3, <2>1, <2>3, <2>4, <2>6, <3>1 DEF Least, NoPromise
  <2> QED
    BY <2>4, <2>5, <2>6
<1>6. CASE Mark \/ UNCHANGED vars
  BY <1>1, <1>2, <1>6 DEF Mark, vars, Available
<1>7. CASE AcquireAllowed \/ Restart \/ \E l \in Limits : Patch(l)
  BY <1>7 DEF AcquireAllowed, Restart, Patch
<1> QED
  BY <1>4, <1>5, <1>6, <1>7 DEF Next

\* A client that waits for the Retry-After it was given finds enough tokens.
THEOREM RetryAfterIsHonest == Spec => []RetryAfterHonest
<1>1. Init => PromiseInv
  BY DEF Init, PromiseInv
<1>2. TypeOK /\ PromiseInv => RetryAfterHonest
  <2> SUFFICES ASSUME TypeOK, PromiseInv, promise = 0 PROVE Available >= Cost
    BY DEF RetryAfterHonest
  <2>1. limit \in Nat /\ 0 * limit = 0 /\ Available \in Nat
    BY Numbers
  <2> QED
    BY <2>1 DEF PromiseInv, RefillRate, NoPromise
<1>3. TypeOK /\ PromiseInv /\ [Next]_vars => TypeOK' /\ PromiseInv'
  BY NextTypeOK, NextPromiseInv
<1> QED
  BY <1>1, <1>2, <1>3, InitTypeOK, PTL DEF Spec

(***************************************************************************)
(* Refinement: the bucket that is credited when it is used implements the  *)
(* one that is topped up all the time.                                     *)
(***************************************************************************)
LEMMA SameArithmetic ==
    /\ Ideal!Cost = Cost
    /\ \A l : Ideal!Capacity(l) = Capacity(l)
    /\ \A t, a, l : Ideal!Refilled(t, a, l) = Refilled(t, a, l)
BY DEF Ideal!Cost, Cost, Ideal!Capacity, Capacity, Ideal!Refilled, Refilled,
       Ideal!Least, Least, Ideal!RefillRate, RefillRate

LEMMA IdealInit == Init => Ideal!Init
<1> SUFFICES ASSUME Init PROVE Ideal!Init
  OBVIOUS
<1>1. tokens = 0 /\ age = Minute /\ limit \in Limits /\ elapsed = 0 /\ granted = 0
  BY DEF Init, Absent
<1>2. Available = Capacity(limit)
  BY <1>1, LimitFacts, MinuteFills DEF Available
<1> QED
  BY <1>1, <1>2, SameArithmetic DEF Ideal!Init

LEMMA IdealNext == TypeOK /\ [Next]_vars => [Ideal!Next]_(Ideal!vars)
<1> SUFFICES ASSUME TypeOK, [Next]_vars PROVE Ideal!Next \/ UNCHANGED Ideal!vars
  OBVIOUS
<1>1. /\ limit \in Limits /\ limit \in Nat \ {0} /\ Minute \in Nat \ {0}
      /\ tokens \in Nat /\ age \in Nat /\ age \in 0 .. Minute
      /\ Available = Refilled(tokens, age, limit)
      /\ Available' = Refilled(tokens', age', limit')
  BY Numbers, MinuteAssumption DEF TypeOK, Available
<1>2. Available \in 0 .. Capacity(limit) /\ Capacity(limit) \in Nat
  BY <1>1, RefillFacts
<1>3. ASSUME NEW t \in 0 .. Capacity(limit)
      PROVE  Refilled(t, 0, limit) = t
  <2>1. Refilled(t, 0, limit) = Least(Capacity(limit), t)
    BY <1>1, <1>2, <1>3, RefillFacts
  <2> QED
    BY <1>2, <2>1 DEF Least
<1>4. CASE AcquireAllowed
  <2>1. Available - Cost \in 0 .. Capacity(limit)
    BY <1>1, <1>2, <1>4 DEF AcquireAllowed, Cost
  <2>2. Available' = Available - Cost
    BY <1>1, <1>3, <1>4, <2>1 DEF AcquireAllowed
  <2>3. Ideal!Grant
    BY <1>4, <2>2, SameArithmetic DEF AcquireAllowed, Ideal!Grant
  <2> QED
    BY <2>3 DEF Ideal!Next
<1>5. CASE AcquireRefused
  <2>1. Available' = Available
    BY <1>1, <1>2, <1>3, <1>5 DEF AcquireRefused
  <2> QED
    BY <1>5, <2>1 DEF AcquireRefused, Ideal!vars
<1>6. ASSUME NEW l \in Limits, Patch(l)
      PROVE  Ideal!Next
  <2>1. l \in Nat /\ limit' = l /\ tokens' = tokens /\ age' = age
    BY <1>6, LimitFacts DEF Patch
  <2>2. Available' \in 0 .. Capacity(l) /\ Capacity(l) \in Nat
    BY <1>1, <2>1, RefillFacts
  <2>3. l >= limit => Available' >= Available
    BY <1>1, <1>2, <2>1, <2>2, RefillMonotone
  <2>4. l <= limit => Available' <= Available
    BY <1>1, <1>2, <2>1, <2>2, RefillMonotone
  <2>5. Ideal!Patch(l)
    BY <1>6, <2>2, <2>3, <2>4, SameArithmetic DEF Patch, Ideal!Patch
  <2> QED
    BY <2>5 DEF Ideal!Next
<1>7. CASE Tick
  <2>1. tokens' = tokens /\ limit' = limit /\ age' = Least(Minute, age + 1)
    BY <1>7 DEF Tick
  <2>2. Available' = Refilled(Available, 1, limit)
    BY <1>1, <2>1, RefillByTicks
  <2>3. Ideal!Tick
    BY <1>7, <2>2, SameArithmetic DEF Tick, Ideal!Tick
  <2> QED
    BY <2>3 DEF Ideal!Next
<1>8. CASE Mark
  <2>1. Ideal!Mark
    BY <1>1, <1>8 DEF Mark, Ideal!Mark, Ideal!NewWindow
  <2> QED
    BY <2>1 DEF Ideal!Next
<1>9. CASE Restart
  <2>1. Available' = Capacity(limit) /\ limit' = limit
    BY <1>1, <1>9, MinuteFills DEF Restart
  <2>2. Ideal!Restart
    BY <1>9, <2>1, SameArithmetic DEF Restart, Ideal!Restart, Ideal!NewWindow
  <2> QED
    BY <2>2 DEF Ideal!Next
<1>10. CASE UNCHANGED vars
  BY <1>1, <1>10 DEF vars, Ideal!vars
<1> QED
  BY <1>4, <1>5, <1>6, <1>7, <1>8, <1>9, <1>10 DEF Next

\* Crediting at the next use cannot be told from topping up at every tick.
THEOREM RefillIsLazy == Spec => ImplementsIdeal
<1>1. Spec => []TypeOK
  BY TypeCorrect
<1> QED
  BY <1>1, IdealInit, IdealNext, PTL DEF Spec, ImplementsIdeal, Ideal!Spec

(***************************************************************************)
(* The shared bucket: what it holds, and what its delayed calls may find   *)
(* in it.                                                                  *)
(***************************************************************************)
LEMMA RedisNumbers ==
    ASSUME RedisTypeOK
    PROVE  /\ shared \in Nat /\ lag \in Nat /\ unused \in Nat /\ window \in Nat
           /\ grants \in Nat /\ renewed \in Nat /\ rewound \in Nat
           /\ Limit \in Nat /\ Minute \in Nat \ {0} /\ MaxDelay \in Nat /\ MaxWindow \in Nat
           /\ Capacity(Limit) \in Nat /\ Cost = Minute
           /\ \A d \in Nat : /\ Elapsed(d) \in Nat /\ Overtaken(d) \in Nat
                             /\ Filled(d) \in 0 .. Capacity(Limit)
<1>1. /\ Limit \in Nat /\ Minute \in Nat \ {0} /\ MaxDelay \in Nat /\ MaxWindow \in Nat
      /\ Capacity(Limit) \in Nat
  BY RedisAssumption, MinuteAssumption DEF Capacity
<1>2. shared \in Nat /\ lag \in Nat /\ unused \in Nat /\ window \in Nat
      /\ grants \in Nat /\ renewed \in Nat /\ rewound \in Nat
  BY <1>1 DEF RedisTypeOK, MaxLag
<1>3. ASSUME NEW d \in Nat
      PROVE  /\ Elapsed(d) \in Nat /\ Overtaken(d) \in Nat
             /\ Filled(d) \in 0 .. Capacity(Limit)
  <2>1. Elapsed(d) \in Nat /\ Overtaken(d) \in Nat
    BY <1>2 DEF Elapsed, Overtaken
  <2>2. Refilled(shared, Elapsed(d), Limit) \in 0 .. Capacity(Limit)
    BY <1>1, <1>2, <2>1, RefillFacts
  <2> QED
    BY <1>1, <2>1, <2>2 DEF Filled
<1> QED
  BY <1>1, <1>2, <1>3 DEF Cost

LEMMA NextRedisTypeOK == RedisTypeOK /\ [RedisNext]_redisVars => RedisTypeOK'
<1> SUFFICES ASSUME RedisTypeOK, [RedisNext]_redisVars PROVE RedisTypeOK'
  OBVIOUS
<1>1. /\ Minute \in Nat \ {0} /\ MaxDelay \in Nat /\ MaxWindow \in Nat
      /\ Capacity(Limit) \in Nat /\ Cost = Minute
      /\ \A d \in Nat : Overtaken(d) \in Nat /\ Filled(d) \in 0 .. Capacity(Limit)
  BY RedisNumbers
<1>2. ASSUME NEW c \in Calls, Send(c) PROVE RedisTypeOK'
  BY <1>1, <1>2 DEF Send, RedisTypeOK, NotSent
<1>3. ASSUME NEW c \in Calls, Execute(c) PROVE RedisTypeOK'
  <2>1. delay[c] \in 0 .. MaxDelay /\ Filled(delay[c]) \in 0 .. Capacity(Limit)
    BY <1>1, <1>3 DEF Execute, RedisTypeOK, NotSent
  <2>2. shared' \in 0 .. Capacity(Limit) /\ grants' \in Nat
    BY <1>1, <1>3, <2>1 DEF Execute, RedisTypeOK
  <2>3. /\ lag' \in 0 .. MaxLag /\ unused' \in 0 .. Minute /\ renewed' \in Nat
        /\ rewound' \in Nat
    BY <1>1, <1>3, <2>1 DEF Execute, RedisTypeOK, MaxLag
  <2> QED
    BY <1>1, <1>3, <2>2, <2>3 DEF Execute, RedisTypeOK, NotSent
<1>4. CASE RedisTick
  <2>1. delay' \in [Calls -> NotSent .. MaxDelay]
    BY <1>1, <1>4 DEF RedisTick, RedisTypeOK, Pending, NotSent
  <2> QED
    BY <1>1, <1>4, <2>1 DEF RedisTick, RedisTypeOK, Least, MaxLag
<1>5. CASE RedisMark
  BY <1>1, <1>5 DEF RedisMark, RedisTypeOK
<1>6. CASE UNCHANGED redisVars
  BY <1>6 DEF redisVars, RedisTypeOK
<1> QED
  BY <1>2, <1>3, <1>4, <1>5, <1>6 DEF RedisNext

LEMMA InitRedisTypeOK == RedisInit => RedisTypeOK
<1>1. Capacity(Limit) \in Nat
  BY RedisAssumption, MinuteAssumption DEF Capacity
<1> QED
  BY <1>1, RedisAssumption, MinuteAssumption DEF RedisInit, RedisTypeOK, NotSent, MaxLag

\* The hash never holds more tokens than its capacity, whenever its calls arrive.
THEOREM RedisTypeCorrect == RedisSpec => []RedisTypeOK
BY InitRedisTypeOK, NextRedisTypeOK, PTL DEF RedisSpec

(***************************************************************************)
(* What the next script could credit: the time since the stamp, but no     *)
(* more than a full bucket and the longest delay.                          *)
(***************************************************************************)
Creditable(t, g) == Least(Capacity(Limit) + MaxDelay * Limit, t + g * Limit)

\* SharedBound: for a window in which w ticks are credited and the key expired r
\* times.
MayGrant(w, r) == Capacity(Limit) + (w + MaxDelay * (1 + r)) * Limit

\* A key that has expired has been left alone for a minute since its stamp, and
\* what was granted is bounded together with what can be credited yet.
SharedInv ==
    /\ lag >= unused
    /\ grants * Cost + Creditable(shared, lag)
         <= MayGrant(window + rewound, renewed)

\* A script that finds the key credits what could be credited, and no more.
LEMMA CreditSplit ==
    ASSUME NEW t \in Nat, NEW g \in Nat, NEW d \in Nat, d <= g, d <= MaxDelay
    PROVE  /\ Refilled(t, g - d, Limit) + d * Limit <= Creditable(t, g)
           /\ \A u \in Nat : /\ Creditable(u, d) <= u + d * Limit
                             /\ Creditable(u, d) \in Nat
           /\ Creditable(t, g) \in Nat
<1>1. /\ Limit \in Nat /\ Minute \in Nat /\ MaxDelay \in Nat
      /\ Limit * Minute \in Nat /\ MaxDelay * Limit \in Nat
      /\ d * Limit \in Nat /\ (g - d) * Limit \in Nat
      /\ g * Limit = d * Limit + (g - d) * Limit
  BY RedisAssumption, MinuteAssumption
<1>2. d * Limit <= MaxDelay * Limit
  BY <1>1, ProductMonotone
<1> QED
  BY <1>1, <1>2 DEF Creditable, Refilled, Capacity, RefillRate, Least

\* One that has been overtaken credits nothing, but what it has put the stamp
\* back by can be credited again.
LEMMA CreditAgain ==
    ASSUME NEW t \in Nat, NEW g \in Nat, NEW d \in Nat, g <= d, d <= MaxDelay
    PROVE  Refilled(t, 0, Limit) + d * Limit <= Creditable(t, g) + (d - g) * Limit
<1>1. /\ Limit \in Nat /\ Minute \in Nat /\ MaxDelay \in Nat
      /\ Limit * Minute \in Nat /\ MaxDelay * Limit \in Nat
      /\ d * Limit \in Nat /\ (d - g) * Limit \in Nat /\ g * Limit \in Nat
      /\ d * Limit = g * Limit + (d - g) * Limit
      /\ 0 * Limit = 0
  BY RedisAssumption, MinuteAssumption
<1>2. d * Limit <= MaxDelay * Limit
  BY <1>1, ProductMonotone
<1> QED
  BY <1>1, <1>2 DEF Creditable, Refilled, Capacity, RefillRate, Least

\* One that finds it expired starts with a full bucket, as it was by then.
LEMMA CreditExpired ==
    ASSUME NEW t \in Nat, NEW g \in Nat, NEW d \in Nat, Minute <= g, d <= MaxDelay
    PROVE  Capacity(Limit) + d * Limit <= Creditable(t, g) + MaxDelay * Limit
<1>1. /\ Limit \in Nat /\ Minute \in Nat /\ MaxDelay \in Nat
      /\ Limit * Minute \in Nat /\ MaxDelay * Limit \in Nat
      /\ d * Limit \in Nat /\ g * Limit \in Nat
  BY RedisAssumption, MinuteAssumption
<1>2. d * Limit <= MaxDelay * Limit /\ Limit * Minute <= g * Limit
  BY <1>1, ProductMonotone
<1> QED
  BY <1>1, <1>2 DEF Creditable, Capacity, Least

\* A tick credits no more than a refill.
LEMMA CreditTick ==
    ASSUME NEW t \in Nat, NEW g \in Nat
    PROVE  /\ Creditable(t, Least(MaxLag, g + 1)) <= Creditable(t, g) + Limit
           /\ Creditable(t, Least(MaxLag, g + 1)) \in Nat
<1> DEFINE h == Least(MaxLag, g + 1)
<1>1. /\ Limit \in Nat /\ Minute \in Nat /\ MaxDelay \in Nat /\ MaxLag \in Nat
      /\ Limit * Minute \in Nat /\ MaxDelay * Limit \in Nat /\ g * Limit \in Nat
      /\ (g + 1) * Limit = g * Limit + Limit
  BY RedisAssumption, MinuteAssumption DEF MaxLag
<1>2. h \in Nat /\ h <= g + 1
  BY <1>1 DEF Least
<1> HIDE DEF h
<1>3. h * Limit \in Nat /\ h * Limit <= g * Limit + Limit
  BY <1>1, <1>2, ProductMonotone
<1>4. /\ Creditable(t, h) <= Creditable(t, g) + Limit
      /\ Creditable(t, h) \in Nat
  BY <1>1, <1>3 DEF Creditable, Capacity, Least
<1> QED
  BY <1>4 DEF h

LEMMA MayGrantFacts ==
    ASSUME NEW w \in Nat, NEW r \in Nat
    PROVE  /\ MayGrant(w, r) \in Nat
           /\ MayGrant(w, r + 1) = MayGrant(w, r) + MaxDelay * Limit
           /\ MayGrant(0, 0) = Capacity(Limit) + MaxDelay * Limit
<1>1. /\ Limit \in Nat /\ Minute \in Nat /\ MaxDelay \in Nat /\ Limit * Minute \in Nat
      /\ MaxDelay * r \in Nat /\ MaxDelay * (1 + r) = MaxDelay + MaxDelay * r
      /\ MaxDelay * (1 + (r + 1)) = MaxDelay + MaxDelay + MaxDelay * r
      /\ MaxDelay * (1 + 0) = MaxDelay
  BY RedisAssumption, MinuteAssumption
<1> DEFINE x == MaxDelay * r
<1>2. x \in Nat
  BY <1>1
<1>3. /\ MayGrant(w, r) = Capacity(Limit) + (w + (MaxDelay + x)) * Limit
      /\ MayGrant(w, r + 1) = Capacity(Limit) + (w + (MaxDelay + MaxDelay + x)) * Limit
      /\ MayGrant(0, 0) = Capacity(Limit) + (0 + MaxDelay) * Limit
  BY <1>1 DEF MayGrant
<1> HIDE DEF x
<1>4. Capacity(Limit) \in Nat
  BY <1>1 DEF Capacity
<1> QED
  BY <1>1, <1>2, <1>3, <1>4

\* Each tick that is credited adds a refill.
LEMMA MayGrantMore ==
    ASSUME NEW w \in Nat, NEW r \in Nat, NEW k \in Nat
    PROVE  MayGrant(w + k, r) = MayGrant(w, r) + k * Limit
<1> DEFINE x == MaxDelay * (1 + r)
<1>1. /\ Limit \in Nat /\ Minute \in Nat /\ x \in Nat
      /\ MayGrant(w, r) = Capacity(Limit) + (w + x) * Limit
      /\ MayGrant(w + k, r) = Capacity(Limit) + ((w + k) + x) * Limit
  BY RedisAssumption, MinuteAssumption DEF MayGrant
<1> HIDE DEF x
<1>2. Capacity(Limit) \in Nat
  BY <1>1 DEF Capacity
<1> QED
  BY <1>1, <1>2

\* Nothing is granted yet in a new window.
LEMMA CreditBound ==
    ASSUME NEW t \in Nat, NEW g \in Nat
    PROVE  Creditable(t, g) <= MayGrant(0, 0)
<1>1. Limit * Minute \in Nat /\ MaxDelay * Limit \in Nat /\ g * Limit \in Nat
  BY RedisAssumption, MinuteAssumption
<1>2. MayGrant(0, 0) = Capacity(Limit) + MaxDelay * Limit
  BY MayGrantFacts
<1> QED
  BY <1>1, <1>2 DEF Creditable, Capacity, Least

LEMMA NextSharedInv == RedisTypeOK /\ SharedInv /\ [RedisNext]_redisVars => SharedInv'
<1> SUFFICES ASSUME RedisTypeOK, SharedInv, [RedisNext]_redisVars PROVE SharedInv'
  OBVIOUS
<1> DEFINE w == window + rewound
<1>1. /\ shared \in Nat /\ lag \in Nat /\ unused \in Nat
      /\ window \in Nat /\ rewound \in Nat /\ w \in Nat
      /\ grants \in Nat /\ renewed \in Nat
      /\ Limit \in Nat /\ Minute \in Nat \ {0} /\ MaxDelay \in Nat
      /\ Capacity(Limit) \in Nat /\ Cost = Minute
      /\ grants * Cost \in Nat /\ MaxDelay * Limit \in Nat
  BY RedisNumbers
<1>2. /\ lag >= unused
      /\ grants * Cost + Creditable(shared, lag) <= MayGrant(w, renewed)
  BY DEF SharedInv
<1>3. Creditable(shared, lag) \in Nat /\ MayGrant(w, renewed) \in Nat
  <2>1. 0 <= lag /\ 0 <= MaxDelay /\ 0 \in Nat
    BY <1>1
  <2> QED
    BY <1>1, <2>1, CreditSplit, MayGrantFacts
<1>4. ASSUME NEW c \in Calls, Send(c) PROVE SharedInv'
  BY <1>1, <1>2, <1>4 DEF Send, SharedInv, RedisTypeOK
<1>5. ASSUME NEW c \in Calls, Execute(c) PROVE SharedInv'
  <2> DEFINE d == delay[c]
             f == Filled(d)
             x == IF Expired THEN MaxDelay * Limit ELSE 0
             y == Overtaken(d) * Limit
  <2>1. /\ d \in Nat /\ d <= MaxDelay /\ Overtaken(d) \in Nat
        /\ lag' = d /\ unused' = 0 /\ window' = window
        /\ rewound' = rewound + Overtaken(d)
    BY <1>1, <1>2, <1>5, RedisNumbers DEF Execute, RedisTypeOK, NotSent
  <2>2. x \in Nat /\ y \in Nat
    BY <1>1, <2>1
  <2>3. f \in Nat
    BY <1>1, <2>1, RedisNumbers
  <2>4. \/ f >= Cost /\ shared' = f - Cost /\ grants' = grants + 1
        \/ shared' = f /\ grants' = grants
    BY <1>5 DEF Execute
  <2>5. renewed' = IF Expired THEN renewed + 1 ELSE renewed
    BY <1>5 DEF Execute
  <2>6. f + d * Limit <= Creditable(shared, lag) + x + y
    <3>1. CASE Expired
      <4>1. f = Capacity(Limit) /\ Minute <= lag
        BY <1>1, <1>2, <3>1 DEF Filled, Expired
      <4>2. Capacity(Limit) + d * Limit <= Creditable(shared, lag) + MaxDelay * Limit
        BY <1>1, <2>1, <4>1, CreditExpired
      <4>3. x = MaxDelay * Limit
        BY <3>1
      <4>4. Capacity(Limit) + d * Limit \in Nat
        BY <1>1, <2>1
      <4> HIDE DEF x, y
      <4> QED
        BY <1>1, <1>3, <2>2, <4>1, <4>2, <4>3, <4>4
    <3>2. CASE ~Expired /\ d <= lag
      <4>1. Elapsed(d) = lag - d
        BY <1>1, <2>1, <3>2 DEF Elapsed
      <4>2. f = Refilled(shared, lag - d, Limit)
        BY <3>2, <4>1 DEF Filled
      <4>3. Refilled(shared, lag - d, Limit) + d * Limit <= Creditable(shared, lag)
        BY <1>1, <2>1, <3>2, CreditSplit
      <4>4. f + d * Limit \in Nat
        BY <1>1, <2>1, <2>3
      <4> HIDE DEF x, y, f
      <4> QED
        BY <1>3, <2>2, <4>2, <4>3, <4>4
    <3>3. CASE ~Expired /\ d > lag
      <4>1. Elapsed(d) = 0 /\ Overtaken(d) = d - lag
        BY <1>1, <2>1, <3>3 DEF Elapsed, Overtaken
      <4>2. f = Refilled(shared, 0, Limit)
        BY <3>3, <4>1 DEF Filled
      <4>3. Refilled(shared, 0, Limit) + d * Limit
              <= Creditable(shared, lag) + (d - lag) * Limit
        <5>1. lag <= d
          BY <1>1, <2>1, <3>3
        <5> QED
          BY <1>1, <2>1, <5>1, CreditAgain
      <4>4. f + d * Limit \in Nat /\ y = (d - lag) * Limit
        BY <1>1, <2>1, <2>3, <4>1
      <4>5. f + d * Limit <= Creditable(shared, lag) + y
        BY <4>2, <4>3, <4>4
      <4> HIDE DEF x, y, f
      <4> QED
        BY <1>3, <2>2, <4>4, <4>5
    <3> QED
      BY <1>1, <2>1, <3>1, <3>2, <3>3
  <2>7. MayGrant(window' + rewound', renewed') = MayGrant(w, renewed) + x + y
    <3>1. window' + rewound' = w + Overtaken(d)
      BY <1>1, <2>1
    <3> DEFINE k == Overtaken(d)
    <3>2. /\ w \in Nat /\ k \in Nat /\ k * Limit = y
          /\ renewed \in Nat /\ renewed + 1 \in Nat
      BY <1>1, <2>1
    <3> HIDE DEF w, x, y, k
    <3>3. /\ MayGrant(w, renewed + 1) = MayGrant(w, renewed) + MaxDelay * Limit
          /\ MayGrant(w, renewed + 1) \in Nat
      BY <3>2, MayGrantFacts
    <3>4. MayGrant(w, renewed') = MayGrant(w, renewed) + x /\ renewed' \in Nat
      BY <1>3, <2>5, <3>2, <3>3 DEF x
    <3>5. MayGrant(w + k, renewed') = MayGrant(w, renewed') + k * Limit
      BY <3>2, <3>4, MayGrantMore
    <3> QED
      BY <1>3, <2>2, <3>1, <3>2, <3>4, <3>5 DEF k
  <2> HIDE DEF d, f, x, y
  <2>8. shared' \in Nat /\ d * Limit \in Nat
    BY <1>1, <2>1, <2>3, <2>4
  <2>9. Creditable(shared', d) <= shared' + d * Limit /\ Creditable(shared', d) \in Nat
    <3>1. d <= d
      BY <2>1
    <3> QED
      BY <2>1, <2>8, <3>1, CreditSplit
  <2>10. grants' * Cost + shared' = grants * Cost + f
    BY <1>1, <2>3, <2>4
  <2>11. grants' * Cost \in Nat
    BY <1>1, <2>4
  <2>12. grants' * Cost + Creditable(shared', lag') <= MayGrant(window' + rewound', renewed')
    <3>1. grants' * Cost + Creditable(shared', d) <= grants * Cost + f + d * Limit
      BY <1>1, <2>3, <2>8, <2>9, <2>10, <2>11
    <3> QED
      BY <1>1, <1>2, <1>3, <2>1, <2>2, <2>3, <2>6, <2>7, <2>8, <2>9, <2>11, <3>1
  <2> QED
    BY <1>1, <2>1, <2>12 DEF SharedInv
<1>6. CASE RedisTick
  <2>1. /\ lag' = Least(MaxLag, lag + 1) /\ unused' = Least(Minute, unused + 1)
        /\ window' = window + 1 /\ shared' = shared /\ grants' = grants
        /\ renewed' = renewed /\ rewound' = rewound
    BY <1>6 DEF RedisTick
  <2>2. lag' >= unused'
    BY <1>1, <1>2, <2>1 DEF Least, MaxLag, RedisTypeOK
  <2>3. /\ Creditable(shared', lag') <= Creditable(shared, lag) + Limit
        /\ Creditable(shared', lag') \in Nat
    BY <1>1, <2>1, CreditTick
  <2>4. MayGrant(window' + rewound', renewed') = MayGrant(w, renewed) + Limit
    <3>1. window' + rewound' = w + 1 /\ 1 * Limit = Limit
      BY <1>1, <2>1
    <3>2. MayGrant(w + 1, renewed) = MayGrant(w, renewed) + 1 * Limit
      BY <1>1, MayGrantMore
    <3> QED
      BY <2>1, <3>1, <3>2
  <2> QED
    BY <1>1, <1>2, <1>3, <2>1, <2>2, <2>3, <2>4 DEF SharedInv
<1>7. CASE RedisMark
  <2>1. /\ lag' = lag /\ unused' = unused /\ shared' = shared
        /\ window' = 0 /\ grants' = 0 /\ renewed' = 0 /\ rewound' = 0
    BY <1>7 DEF RedisMark
  <2>2. Creditable(shared, lag) <= MayGrant(0, 0) /\ 0 * Cost = 0 /\ 0 + 0 = 0
    BY <1>1, CreditBound
  <2> QED
    BY <1>2, <1>3, <2>1, <2>2 DEF SharedInv
<1>8. CASE UNCHANGED redisVars
  BY <1>2, <1>8 DEF redisVars, SharedInv
<1> QED
  BY <1>4, <1>5, <1>6, <1>7, <1>8 DEF RedisNext

\* The replicas together grant no more than the bucket and its refill and, for
\* every call of RedisTokenBucket.acquire that was overtaken on its way, what is
\* refilled in the time it was overtaken by; a call under way counts for its
\* delay, and once more when the key had expired.
THEOREM SharedBucketBounded == RedisSpec => []SharedBound
<1>1. RedisInit => SharedInv
  <2> SUFFICES ASSUME RedisInit PROVE SharedInv
    OBVIOUS
  <2>1. /\ shared = 0 /\ lag = MaxLag /\ unused = Minute /\ window = 0 /\ grants = 0
        /\ renewed = 0 /\ rewound = 0
        /\ Minute \in Nat /\ MaxDelay \in Nat /\ 0 * Cost = 0 /\ 0 + 0 = 0
    BY RedisAssumption, MinuteAssumption DEF RedisInit, Cost
  <2>2. lag \in Nat /\ lag >= unused
    BY <2>1 DEF MaxLag
  <2>3. Creditable(0, lag) <= MayGrant(0, 0) /\ Creditable(0, lag) \in Nat
    BY <2>1, <2>2, CreditBound, CreditSplit
  <2> QED
    BY <2>1, <2>2, <2>3 DEF SharedInv
<1>2. RedisTypeOK /\ SharedInv => SharedBound
  <2> SUFFICES ASSUME RedisTypeOK, SharedInv PROVE SharedBound
    OBVIOUS
  <2>1. Creditable(shared, lag) \in Nat /\ MayGrant(window + rewound, renewed) \in Nat
        /\ grants * Cost \in Nat
    <3>1. /\ shared \in Nat /\ lag \in Nat /\ window + rewound \in Nat /\ renewed \in Nat
          /\ grants \in Nat /\ Cost \in Nat /\ MaxDelay \in Nat
      BY RedisNumbers
    <3>2. 0 <= lag /\ 0 <= MaxDelay /\ 0 \in Nat /\ grants * Cost \in Nat
      BY <3>1
    <3> QED
      BY <3>1, <3>2, CreditSplit, MayGrantFacts
  <2>2. grants * Cost <= MayGrant(window + rewound, renewed)
    BY <2>1 DEF SharedInv
  <2> QED
    BY <2>2 DEF SharedBound, MayGrant, RefillRate
<1>3. RedisTypeOK /\ SharedInv /\ [RedisNext]_redisVars => RedisTypeOK' /\ SharedInv'
  BY NextRedisTypeOK, NextSharedInv
<1> QED
  BY <1>1, <1>2, <1>3, InitRedisTypeOK, PTL DEF RedisSpec
===============================================================================
