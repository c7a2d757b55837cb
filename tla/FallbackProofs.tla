---------------------------- MODULE FallbackProofs ----------------------------
(***************************************************************************)
(* Proofs about Fallback, for any number of requests, deployments, models  *)
(* and providers, all lists of fallbacks, all tables, thresholds and       *)
(* numbers of attempts, and backends that answer in any way.               *)
(***************************************************************************)
EXTENDS Fallback, FiniteSetTheorems, WellFoundedInduction, TLAPS

(***************************************************************************)
(* Induction, and the functions it shows to exist.                         *)
(***************************************************************************)
\* What holds of 0, and of n + 1 if it does of n, holds of every number.
LEMMA ByInduction ==
    ASSUME NEW S, 0 \in S, \A n \in Nat : n \in S => n + 1 \in S
    PROVE  \A n \in Nat : n \in S
<1> DEFINE T == Nat \ S
<1>1. SUFFICES ASSUME T # {} PROVE FALSE
  OBVIOUS
<1>2. T \subseteq Nat
  OBVIOUS
<1> HIDE DEF T
<1>3. PICK x \in T : \A y \in T : ~ (<<y, x>> \in OpToRel(<, Nat))
  BY <1>1, <1>2, NatLessThanWellFounded, WFMin
<1>4. \A y \in T : ~(y < x)
  BY <1>2, <1>3 DEF OpToRel
<1>5. x # 0
  BY DEF T
<1>6. x - 1 \in Nat /\ x - 1 \notin T
  BY <1>2, <1>4, <1>5
<1> QED
  BY <1>2, <1>6 DEF T

\* A sequence of values, each got from the one before.
Stepwise(f, n, first, step) ==
    f[0] = first /\ \A i \in 1 .. n : f[i] = step[<<i, f[i - 1]>>]

LEMMA StepwiseExists ==
    ASSUME NEW V, NEW first \in V, NEW n \in Nat, NEW step \in [(1 .. n) \X V -> V]
    PROVE  \E f \in [0 .. n -> V] : Stepwise(f, n, first, step)
<1> DEFINE Upto(k) == \E f \in [0 .. k -> V] : Stepwise(f, k, first, step)
           S == {k \in Nat : k <= n => Upto(k)}
<1>1. 0 \in S
  <2> DEFINE f == [i \in 0 .. 0 |-> first]
  <2>1. f \in [0 .. 0 -> V] /\ f[0] = first
    OBVIOUS
  <2> HIDE DEF f
  <2>2. Upto(0)
    BY <2>1 DEF Stepwise
  <2> QED
    BY <2>2
<1>2. ASSUME NEW k \in Nat, k \in S PROVE k + 1 \in S
  <2>1. SUFFICES ASSUME k + 1 <= n PROVE Upto(k + 1)
    OBVIOUS
  <2>2. PICK f \in [0 .. k -> V] : Stepwise(f, k, first, step)
    BY <1>2, <2>1
  <2> DEFINE g == [i \in 0 .. k + 1 |-> IF i = k + 1 THEN step[<<k + 1, f[k]>>] ELSE f[i]]
  <2>3. step[<<k + 1, f[k]>>] \in V
    <3>1. k + 1 \in 1 .. n /\ f[k] \in V
      BY <2>1
    <3> QED
      BY <3>1
  <2>4. \A i \in 0 .. k + 1 : g[i] = IF i = k + 1 THEN step[<<k + 1, f[k]>>] ELSE f[i]
    OBVIOUS
  <2>5. g \in [0 .. k + 1 -> V]
    BY <2>3
  <2> HIDE DEF g
  <2>6. Stepwise(g, k + 1, first, step)
    <3>1. g[0] = first
      BY <2>2, <2>4 DEF Stepwise
    <3>2. ASSUME NEW i \in 1 .. k + 1 PROVE g[i] = step[<<i, g[i - 1]>>]
      <4>1. CASE i = k + 1
        <5>1. g[i] = step[<<k + 1, f[k]>>] /\ g[i - 1] = f[k]
          BY <2>4, <4>1
        <5> QED
          BY <4>1, <5>1
      <4>2. CASE i # k + 1
        <5>1. i \in 1 .. k /\ g[i] = f[i] /\ g[i - 1] = f[i - 1]
          BY <2>4, <4>2
        <5> QED
          BY <2>2, <5>1 DEF Stepwise
      <4> QED
        BY <4>1, <4>2
    <3> QED
      BY <3>1, <3>2 DEF Stepwise
  <2> QED
    BY <2>5, <2>6
<1> HIDE DEF S
<1>3. n \in S
  BY <1>1, <1>2, ByInduction
<1> QED
  BY <1>3 DEF S

(***************************************************************************)
(* The loop of build_candidates, and the chains that come of it.           *)
(***************************************************************************)
Injective(chain) == \A i, j \in DOMAIN chain : chain[i] = chain[j] => i = j

Expands(chain, ask, pools) ==
    /\ chain[0] = <<>>
    /\ \A i \in 1 .. Len(ask) :
          chain[i] = IF Seen(ask, i) THEN chain[i - 1] ELSE chain[i - 1] \o pools[ask[i]]

LEMMA ExpansionSteps ==
    ASSUME NEW ask, Len(ask) \in Nat, NEW V, NEW pools,
           \A i \in 1 .. Len(ask) : pools[ask[i]] \in Seq(V)
    PROVE  \E chain : Expands(chain, ask, pools) /\ Expansion(ask, pools) = chain[Len(ask)]
<1> DEFINE n == Len(ask)
           Eq(c) == c = [i \in 0 .. n |->
                           IF i = 0 THEN <<>>
                           ELSE IF Seen(ask, i) THEN c[i - 1]
                           ELSE c[i - 1] \o pools[ask[i]]]
           step == [x \in (1 .. n) \X Seq(V) |->
                      IF Seen(ask, x[1]) THEN x[2] ELSE x[2] \o pools[ask[x[1]]]]
           c == CHOOSE c : Eq(c)
<1>1. step \in [(1 .. n) \X Seq(V) -> Seq(V)]
  OBVIOUS
<1>2. <<>> \in Seq(V)
  OBVIOUS
<1>3. \A i \in 1 .. n, s \in Seq(V) :
         step[<<i, s>>] = IF Seen(ask, i) THEN s ELSE s \o pools[ask[i]]
  OBVIOUS
<1> HIDE DEF step
<1>4. PICK f \in [0 .. n -> Seq(V)] : Stepwise(f, n, <<>>, step)
  BY <1>1, <1>2, StepwiseExists
<1>5. Eq(f)
  <2>1. ASSUME NEW i \in 0 .. n
        PROVE  f[i] = IF i = 0 THEN <<>>
                      ELSE IF Seen(ask, i) THEN f[i - 1]
                      ELSE f[i - 1] \o pools[ask[i]]
    <3>1. CASE i = 0
      BY <1>4, <3>1 DEF Stepwise
    <3>2. CASE i # 0
      <4>1. i \in 1 .. n /\ i - 1 \in 0 .. n
        BY <3>2
      <4>2. f[i - 1] \in Seq(V) /\ f[i] = step[<<i, f[i - 1]>>]
        BY <1>4, <4>1 DEF Stepwise
      <4> QED
        BY <1>3, <3>2, <4>1, <4>2
    <3> QED
      BY <3>1, <3>2
  <2>2. f = [i \in 0 .. n |-> f[i]]
    OBVIOUS
  <2> QED
    BY <2>1, <2>2
<1>6. Eq(c)
  <2> HIDE DEF Eq
  <2> QED
    BY <1>5, Zenon
<1>7. Expansion(ask, pools) = c[n]
  BY DEF Expansion
<1> HIDE DEF c
<1>8. Expands(c, ask, pools)
  BY <1>6 DEF Expands
<1> QED
  BY <1>7, <1>8

Keeps(kept, chain) ==
    /\ kept[0] = <<>>
    /\ \A i \in 1 .. Len(chain) :
          kept[i] = IF chain[i] \in Configured THEN Append(kept[i - 1], chain[i]) ELSE kept[i - 1]

LEMMA WithKeySteps ==
    ASSUME NEW V, NEW chain \in Seq(V)
    PROVE  \E kept : Keeps(kept, chain) /\ WithKey(chain) = kept[Len(chain)]
<1> DEFINE n == Len(chain)
           Eq(c) == c = [i \in 0 .. n |->
                           IF i = 0 THEN <<>>
                           ELSE IF chain[i] \in Configured THEN Append(c[i - 1], chain[i])
                           ELSE c[i - 1]]
           step == [x \in (1 .. n) \X Seq(V) |->
                      IF chain[x[1]] \in Configured THEN Append(x[2], chain[x[1]]) ELSE x[2]]
           c == CHOOSE c : Eq(c)
<1>1. n \in Nat /\ (\A i \in 1 .. n : chain[i] \in V) /\ <<>> \in Seq(V)
  OBVIOUS
<1>2. step \in [(1 .. n) \X Seq(V) -> Seq(V)]
  BY <1>1
<1>3. \A i \in 1 .. n, s \in Seq(V) :
         step[<<i, s>>] = IF chain[i] \in Configured THEN Append(s, chain[i]) ELSE s
  OBVIOUS
<1> HIDE DEF step, n
<1>4. PICK f \in [0 .. n -> Seq(V)] : Stepwise(f, n, <<>>, step)
  BY <1>1, <1>2, StepwiseExists
<1>5. Eq(f)
  <2>1. ASSUME NEW i \in 0 .. n
        PROVE  f[i] = IF i = 0 THEN <<>>
                      ELSE IF chain[i] \in Configured THEN Append(f[i - 1], chain[i])
                      ELSE f[i - 1]
    <3>1. CASE i = 0
      BY <1>4, <3>1 DEF Stepwise
    <3>2. CASE i # 0
      <4>1. i \in 1 .. n /\ i - 1 \in 0 .. n
        BY <1>1, <3>2
      <4>2. f[i - 1] \in Seq(V) /\ f[i] = step[<<i, f[i - 1]>>]
        BY <1>4, <4>1 DEF Stepwise
      <4> QED
        BY <1>3, <3>2, <4>1, <4>2
    <3> QED
      BY <3>1, <3>2
  <2>2. f = [i \in 0 .. n |-> f[i]]
    OBVIOUS
  <2> QED
    BY <2>1, <2>2
<1>6. Eq(c)
  <2> HIDE DEF Eq
  <2> QED
    BY <1>5, Zenon
<1>7. WithKey(chain) = c[n]
  BY DEF WithKey, n
<1> HIDE DEF c
<1>8. Keeps(c, chain)
  <2>1. c[0] = <<>>
    BY <1>1, <1>6
  <2>2. ASSUME NEW i \in 1 .. n
        PROVE  c[i] = IF chain[i] \in Configured THEN Append(c[i - 1], chain[i]) ELSE c[i - 1]
    <3>1. i \in 0 .. n /\ i # 0
      BY <1>1
    <3> QED
      BY <1>6, <3>1, Zenon
  <2> QED
    BY <2>1, <2>2 DEF Keeps, n
<1> QED
  BY <1>7, <1>8 DEF n

\* A chain of the candidates of S, each once, in the order of the models asked
\* for and of the strategy.
InGoodOrder(chain, S, ask, load, seen) ==
    /\ chain \in Seq(Backends) /\ Injective(chain) /\ ToSet(chain) = S
    /\ \A i, j \in DOMAIN chain : i < j => Precedes(ask, chain[i], chain[j], load, seen)

LEMMA NothingInOrder ==
    ASSUME NEW ask, NEW load, NEW seen PROVE InGoodOrder(<<>>, {}, ask, load, seen)
<1>1. <<>> \in Seq(Backends) /\ DOMAIN <<>> = {}
  OBVIOUS
<1> QED
  BY <1>1 DEF InGoodOrder, Injective, ToSet

\* A chain that is continued by candidates that come after those it has.
LEMMA GoodOrderGoesOn ==
    ASSUME NEW ask, NEW load, NEW seen, NEW S, NEW T, NEW chain, NEW pool,
           InGoodOrder(chain, S, ask, load, seen), InGoodOrder(pool, T, ask, load, seen),
           \A b \in S, c \in T : b # c /\ Precedes(ask, b, c, load, seen)
    PROVE  InGoodOrder(chain \o pool, S \cup T, ask, load, seen)
<1> DEFINE s == chain \o pool
           n == Len(chain)
<1>1. /\ n \in Nat /\ Len(pool) \in Nat /\ s \in Seq(Backends) /\ Len(s) = n + Len(pool)
      /\ DOMAIN chain = 1 .. n /\ DOMAIN pool = 1 .. Len(pool) /\ DOMAIN s = 1 .. n + Len(pool)
      /\ \A i \in 1 .. n + Len(pool) : s[i] = IF i <= n THEN chain[i] ELSE pool[i - n]
  BY DEF InGoodOrder
<1>2. /\ \A i \in 1 .. n : chain[i] \in S
      /\ \A i \in 1 .. Len(pool) : pool[i] \in T
  BY <1>1 DEF InGoodOrder, ToSet
<1> HIDE DEF s, n
<1>3. ASSUME NEW i \in DOMAIN s, NEW j \in DOMAIN s, i < j
      PROVE  s[i] # s[j] /\ Precedes(ask, s[i], s[j], load, seen)
  <2>1. CASE j <= n
    <3>1. i \in 1 .. n /\ j \in 1 .. n /\ s[i] = chain[i] /\ s[j] = chain[j] /\ i # j
      BY <1>1, <1>3, <2>1
    <3> QED
      BY <1>1, <1>3, <3>1 DEF InGoodOrder, Injective
  <2>2. CASE i > n
    <3>1. i - n \in DOMAIN pool /\ j - n \in DOMAIN pool /\ i - n < j - n
          /\ s[i] = pool[i - n] /\ s[j] = pool[j - n] /\ i - n # j - n
      BY <1>1, <1>3, <2>2
    <3> QED
      BY <3>1 DEF InGoodOrder, Injective
  <2>3. CASE i <= n /\ j > n
    <3>1. i \in 1 .. n /\ j - n \in 1 .. Len(pool) /\ s[i] = chain[i] /\ s[j] = pool[j - n]
      BY <1>1, <2>3
    <3> QED
      BY <1>2, <3>1
  <2> QED
    BY <1>1, <1>3, <2>1, <2>2, <2>3
<1>4. Injective(s)
  <2> SUFFICES ASSUME NEW i \in DOMAIN s, NEW j \in DOMAIN s, s[i] = s[j], i # j PROVE FALSE
    BY DEF Injective
  <2>1. i < j \/ j < i
    BY <1>1
  <2> QED
    BY <1>3, <2>1
<1>5. ToSet(s) = S \cup T
  <2>1. \A i \in DOMAIN s : s[i] \in S \cup T
    BY <1>1, <1>2
  <2>2. ASSUME NEW b \in S PROVE \E i \in DOMAIN s : s[i] = b
    <3>1. PICK i \in DOMAIN chain : chain[i] = b
      BY DEF InGoodOrder, ToSet
    <3>2. i \in DOMAIN s /\ s[i] = b
      BY <1>1, <3>1
    <3> QED
      BY <3>2
  <2>3. ASSUME NEW b \in T PROVE \E i \in DOMAIN s : s[i] = b
    <3>1. PICK i \in DOMAIN pool : pool[i] = b
      BY DEF InGoodOrder, ToSet
    <3>2. n + i \in DOMAIN s /\ s[n + i] = b
      BY <1>1, <3>1
    <3> QED
      BY <3>2
  <2> QED
    BY <2>1, <2>2, <2>3 DEF ToSet
<1> QED
  BY <1>1, <1>3, <1>4, <1>5 DEF InGoodOrder, s

LEMMA ExpandedFacts ==
    ASSUME NEW m \in Models, NEW enabled \in SUBSET Deployments
    PROVE  /\ Expanded(m, enabled) \subseteq Backends /\ IsFiniteSet(Expanded(m, enabled))
           /\ \A b \in Expanded(m, enabled) : ModelOf[b] = m
<1>1. Pool(m, enabled) \subseteq Deployments /\ \A b \in Pool(m, enabled) : ModelOf[b] = m
  BY DEF Pool
<1>2. IsFiniteSet(Pool(m, enabled))
  BY <1>1, BalancerAssumption, FS_Subset
<1>3. EnvCredential[m] \in Backends /\ ModelOf[EnvCredential[m]] = m
  BY BalancerAssumption DEF Backends
<1>4. IsFiniteSet({EnvCredential[m]})
  BY FS_Singleton
<1> QED
  BY <1>1, <1>2, <1>3, <1>4 DEF Expanded, Backends

\* The deployments of one model.
LEMMA OrderedIsGood ==
    ASSUME NEW m \in Models, NEW enabled \in SUBSET Deployments, NEW load, NEW seen, NEW ask,
           NEW pool \in ordered(m, enabled, load, seen)
    PROVE  InGoodOrder(pool, Expanded(m, enabled), ask, load, seen)
<1> DEFINE S == Expanded(m, enabled)
           n == Cardinality(S)
           D == 1 .. n
<1>1. S \subseteq Backends /\ IsFiniteSet(S) /\ \A b \in S : ModelOf[b] = m
  BY ExpandedFacts
<1>2. /\ pool \in [D -> S] /\ \A i, j \in D : i # j => pool[i] # pool[j]
      /\ \A i, j \in DOMAIN pool : i < j => InOrder(pool[i], pool[j], load, seen)
  BY DEF ordered, SetToSeqs
<1> HIDE DEF S
<1>3. n \in Nat
  BY <1>1, FS_CardinalityType
<1>4. IsFiniteSet(D) /\ Cardinality(D) = n
  BY <1>3, FS_Interval
<1>5. pool \in Injection(D, S)
  BY <1>2 DEF Injection, IsInjective
<1>6. pool \in Surjection(D, S)
  <2> HIDE DEF n, D
  <2>1. Cardinality(D) = Cardinality(S)
    BY <1>4 DEF n
  <2> QED
    BY <1>1, <1>5, <2>1, FS_Injection
<1> HIDE DEF n
<1>7. pool \in [1 .. n -> Backends]
  BY <1>1, <1>2
<1>8. pool \in Seq(Backends)
  BY <1>3, <1>7
<1>9. Injective(pool)
  BY <1>2 DEF Injective
<1>10. ToSet(pool) = S
  <2>1. \A b \in S : \E i \in D : pool[i] = b
    BY <1>6 DEF Surjection
  <2> QED
    BY <1>2, <2>1 DEF ToSet
<1>11. ASSUME NEW i \in DOMAIN pool, NEW j \in DOMAIN pool, i < j
       PROVE  Precedes(ask, pool[i], pool[j], load, seen)
  BY <1>1, <1>2, <1>11 DEF Precedes
<1> QED
  BY <1>8, <1>9, <1>10, <1>11 DEF InGoodOrder, S

\* All the models asked for.
LEMMA ExpansionIsGood ==
    ASSUME NEW ask \in Seq(Models), NEW enabled \in SUBSET Deployments, NEW load, NEW seen,
           NEW pools, \A m \in ToSet(ask) : pools[m] \in ordered(m, enabled, load, seen)
    PROVE  InGoodOrder(Expansion(ask, pools), UNION {Expanded(m, enabled) : m \in ToSet(ask)},
                       ask, load, seen)
<1> DEFINE n == Len(ask)
           All(k) == UNION {Expanded(ask[i], enabled) : i \in 1 .. k}
           Good(c, k) == InGoodOrder(c, All(k), ask, load, seen)
<1>1. /\ n \in Nat /\ DOMAIN ask = 1 .. n /\ \A i \in 1 .. n : ask[i] \in Models
      /\ ToSet(ask) = {ask[i] : i \in 1 .. n}
  BY DEF ToSet
<1>2. \A i \in 1 .. n : InGoodOrder(pools[ask[i]], Expanded(ask[i], enabled), ask, load, seen)
  BY <1>1, OrderedIsGood
<1>3. PICK chain : Expands(chain, ask, pools) /\ Expansion(ask, pools) = chain[n]
  <2>1. \A i \in 1 .. n : pools[ask[i]] \in Seq(Backends)
    BY <1>2 DEF InGoodOrder
  <2>2. Len(ask) \in Nat /\ \A i \in 1 .. Len(ask) : pools[ask[i]] \in Seq(Backends)
    BY <1>1, <2>1
  <2> HIDE DEF n
  <2> QED
    BY <2>2, ExpansionSteps DEF n
<1> DEFINE S == {k \in Nat : k <= n => Good(chain[k], k)}
<1>4. 0 \in S
  <2>1. chain[0] = <<>>
    BY <1>3 DEF Expands
  <2>2. All(0) = {}
    OBVIOUS
  <2> HIDE DEF All
  <2>3. Good(chain[0], 0)
    BY <2>1, <2>2, NothingInOrder
  <2> QED
    BY <2>3
<1>5. ASSUME NEW k \in Nat, k \in S PROVE k + 1 \in S
  <2>1. SUFFICES ASSUME k + 1 <= n PROVE Good(chain[k + 1], k + 1)
    OBVIOUS
  <2>2. k + 1 \in 1 .. n /\ (k + 1) - 1 = k
    BY <1>1, <2>1
  <2>3. Good(chain[k], k)
    BY <1>1, <1>5, <2>1
  <2>4. chain[k + 1] = IF Seen(ask, k + 1) THEN chain[k] ELSE chain[k] \o pools[ask[k + 1]]
    <3>1. \A i \in 1 .. n :
             chain[i] = IF Seen(ask, i) THEN chain[i - 1] ELSE chain[i - 1] \o pools[ask[i]]
      BY <1>3 DEF Expands
    <3> QED
      BY <2>2, <3>1
  <2>5. All(k + 1) = All(k) \cup Expanded(ask[k + 1], enabled)
    BY <2>2
  <2>6. CASE Seen(ask, k + 1)
    <3>1. PICK j \in 1 .. k : ask[j] = ask[k + 1]
      BY <2>2, <2>6 DEF Seen
    <3>2. Expanded(ask[k + 1], enabled) \subseteq All(k)
      BY <3>1
    <3>3. All(k + 1) = All(k)
      BY <2>5, <3>2
    <3> HIDE DEF All
    <3> QED
      BY <2>3, <2>4, <2>6, <3>3
  <2>7. CASE ~Seen(ask, k + 1)
    <3>1. ASSUME NEW b \in All(k), NEW c \in Expanded(ask[k + 1], enabled)
          PROVE  b # c /\ Precedes(ask, b, c, load, seen)
      <4>1. PICK i \in 1 .. k : b \in Expanded(ask[i], enabled)
        OBVIOUS
      <4>2. i \in 1 .. n /\ \A j \in 1 .. i : ask[j] # ask[k + 1]
        BY <1>1, <2>2, <2>7 DEF Seen
      <4>3. ModelOf[b] = ask[i] /\ ModelOf[c] = ask[k + 1] /\ i \in 1 .. i
        BY <1>1, <2>2, <4>1, <4>2, ExpandedFacts
      <4>4. NamedBefore(ask, ModelOf[b], ModelOf[c])
        BY <1>1, <4>2, <4>3 DEF NamedBefore
      <4> QED
        BY <4>2, <4>3, <4>4 DEF Precedes
    <3>2. InGoodOrder(pools[ask[k + 1]], Expanded(ask[k + 1], enabled), ask, load, seen)
      BY <1>2, <2>2
    <3> HIDE DEF All
    <3> QED
      BY <2>3, <2>4, <2>5, <2>7, <3>1, <3>2, GoodOrderGoesOn
  <2> QED
    BY <2>6, <2>7
<1> HIDE DEF S
<1>6. n \in S
  BY <1>1, <1>4, <1>5, ByInduction
<1>7. Good(chain[n], n)
  BY <1>1, <1>6 DEF S
<1>8. All(n) = UNION {Expanded(m, enabled) : m \in ToSet(ask)}
  BY <1>1
<1> HIDE DEF All, n
<1> QED
  BY <1>3, <1>7, <1>8

\* Dropping the candidates without a key.
LEMMA WithKeyIsGood ==
    ASSUME NEW ask, NEW load, NEW seen, NEW S, NEW chain,
           InGoodOrder(chain, S, ask, load, seen)
    PROVE  InGoodOrder(WithKey(chain), Configured \cap S, ask, load, seen)
<1> DEFINE n == Len(chain)
           Upto(k) == {chain[i] : i \in 1 .. k}
           Good(c, k) == InGoodOrder(c, Configured \cap Upto(k), ask, load, seen)
<1>1. /\ chain \in Seq(Backends) /\ n \in Nat /\ DOMAIN chain = 1 .. n
      /\ \A i \in 1 .. n : chain[i] \in Backends
      /\ Upto(n) = S
  BY DEF InGoodOrder, ToSet
<1>2. PICK kept : Keeps(kept, chain) /\ WithKey(chain) = kept[n]
  <2> HIDE DEF n
  <2> QED
    BY <1>1, WithKeySteps DEF n
<1> DEFINE T == {k \in Nat : k <= n => Good(kept[k], k)}
<1>3. 0 \in T
  <2>1. kept[0] = <<>> /\ Configured \cap Upto(0) = {}
    BY <1>2 DEF Keeps
  <2> QED
    BY <2>1, NothingInOrder
<1>4. ASSUME NEW k \in Nat, k \in T PROVE k + 1 \in T
  <2>1. SUFFICES ASSUME k + 1 <= n PROVE Good(kept[k + 1], k + 1)
    OBVIOUS
  <2> DEFINE b == chain[k + 1]
  <2>2. k + 1 \in 1 .. n /\ (k + 1) - 1 = k /\ b \in Backends
    BY <1>1, <2>1
  <2>3. Good(kept[k], k)
    BY <1>1, <1>4, <2>1
  <2>4. kept[k + 1] = IF b \in Configured THEN Append(kept[k], b) ELSE kept[k]
    <3>1. \A i \in 1 .. n :
             kept[i] = IF chain[i] \in Configured THEN Append(kept[i - 1], chain[i]) ELSE kept[i - 1]
      BY <1>2 DEF Keeps
    <3> QED
      BY <2>2, <3>1
  <2>5. Upto(k + 1) = Upto(k) \cup {b}
    BY <2>2
  <2>6. \A a \in Upto(k) : a # b /\ Precedes(ask, a, b, load, seen)
    <3>1. ASSUME NEW i \in 1 .. k PROVE chain[i] # b /\ Precedes(ask, chain[i], b, load, seen)
      <4>1. i \in DOMAIN chain /\ k + 1 \in DOMAIN chain /\ i < k + 1 /\ i # k + 1
        BY <1>1, <2>2
      <4> QED
        BY <4>1 DEF InGoodOrder, Injective
    <3> QED
      BY <3>1
  <2> HIDE DEF Upto, b
  <2>7. CASE b \in Configured
    <3>1. InGoodOrder(<<b>>, {b}, ask, load, seen)
      BY <2>2 DEF InGoodOrder, Injective, ToSet
    <3>2. kept[k] \in Seq(Backends)
      BY <2>3 DEF InGoodOrder
    <3>3. Append(kept[k], b) = kept[k] \o <<b>>
      BY <2>2, <3>2
    <3>4. Configured \cap Upto(k + 1) = (Configured \cap Upto(k)) \cup {b}
      BY <2>5, <2>7
    <3>5. \A a \in Configured \cap Upto(k), c \in {b} : a # c /\ Precedes(ask, a, c, load, seen)
      BY <2>6
    <3>6. InGoodOrder(kept[k] \o <<b>>, (Configured \cap Upto(k)) \cup {b}, ask, load, seen)
      BY <2>3, <3>1, <3>5, GoodOrderGoesOn
    <3> QED
      BY <2>4, <2>7, <3>3, <3>4, <3>6
  <2>8. CASE b \notin Configured
    <3>1. Configured \cap Upto(k + 1) = Configured \cap Upto(k)
      BY <2>5, <2>8
    <3> QED
      BY <2>3, <2>4, <2>8, <3>1
  <2> QED
    BY <2>7, <2>8
<1> HIDE DEF T
<1>5. n \in T
  BY <1>1, <1>3, <1>4, ByInduction
<1>6. Good(kept[n], n)
  BY <1>1, <1>5 DEF T
<1> HIDE DEF Upto, n
<1> QED
  BY <1>1, <1>2, <1>6

LEMMA GoodOrderCounted ==
    ASSUME NEW ask, NEW load, NEW seen, NEW S, NEW chain,
           InGoodOrder(chain, S, ask, load, seen)
    PROVE  chain \in SetToSeqs(S)
<1> DEFINE D == 1 .. Len(chain)
<1>1. Len(chain) \in Nat /\ DOMAIN chain = D /\ chain \in [D -> S]
      /\ (\A b \in S : \E i \in D : chain[i] = b)
      /\ (\A i, j \in D : chain[i] = chain[j] => i = j)
  BY DEF InGoodOrder, ToSet, Injective
<1>2. chain \in Bijection(D, S)
  <2> HIDE DEF D
  <2> QED
    BY <1>1 DEF Bijection, Injection, Surjection, IsInjective
<1>3. Cardinality(S) = Len(chain)
  <2>1. ExistsBijection(D, S)
    BY <1>2 DEF ExistsBijection
  <2> QED
    BY <1>1, <2>1, FS_CountingElements
<1> HIDE DEF D
<1>4. D = 1 .. Cardinality(S)
  BY <1>3 DEF D
<1> QED
  BY <1>1, <1>4 DEF SetToSeqs

LEMMA ChainsInGoodOrder ==
    ASSUME NEW ask \in Seq(Models), NEW enabled \in SUBSET Deployments, NEW load, NEW seen,
           NEW chain \in build_candidates(ask, enabled, load, seen)
    PROVE  InGoodOrder(chain, CandidatesFor(ask, enabled), ask, load, seen)
<1>1. PICK pools : /\ \A m \in ToSet(ask) : pools[m] \in ordered(m, enabled, load, seen)
                   /\ chain = WithKey(Expansion(ask, pools))
  BY DEF build_candidates
<1> QED
  BY <1>1, ExpansionIsGood, WithKeyIsGood DEF CandidatesFor

\* build_candidates keeps its promise: however long the list of fallbacks and
\* however often it repeats itself, a chain has the candidates with a key of the
\* models asked for, each once, in the order of the list and of the strategy.
THEOREM CandidatesAsPromised ==
    ASSUME NEW ask \in Seq(Models), NEW enabled \in SUBSET Deployments, NEW load, NEW seen
    PROVE  build_candidates(ask, enabled, load, seen) \subseteq Promised(ask, enabled, load, seen)
<1> SUFFICES ASSUME NEW chain \in build_candidates(ask, enabled, load, seen)
             PROVE  chain \in Promised(ask, enabled, load, seen)
  OBVIOUS
<1>1. InGoodOrder(chain, CandidatesFor(ask, enabled), ask, load, seen)
  BY ChainsInGoodOrder
<1> QED
  BY <1>1, GoodOrderCounted DEF Promised, InGoodOrder

LEMMA ChainFacts ==
    ASSUME NEW ask \in Asks, NEW enabled \in SUBSET Deployments, NEW load, NEW seen,
           NEW chain \in build_candidates(ask, enabled, load, seen)
    PROVE  /\ chain \in Seq(Backends)
           /\ Injective(chain)
           /\ \A i, j \in DOMAIN chain : i < j => Precedes(ask, chain[i], chain[j], load, seen)
<1>1. ask \in Seq(Models)
  BY FallbackAssumption
<1> QED
  BY <1>1, ChainsInGoodOrder DEF InGoodOrder

\* As many backends as positions.
LEMMA ChainCount ==
    ASSUME NEW chain \in Seq(Backends), Injective(chain)
    PROVE  Cardinality(ToSet(chain)) = Len(chain) /\ Len(chain) \in Nat
<1>1. /\ DOMAIN chain = 1 .. Len(chain) /\ Len(chain) \in Nat
      /\ chain \in [1 .. Len(chain) -> Backends]
  OBVIOUS
<1> DEFINE D == 1 .. Len(chain)
           T == ToSet(chain)
<1>2. chain \in Bijection(D, T)
  <2>1. chain \in [D -> T] /\ \A t \in T : \E i \in D : chain[i] = t
    BY <1>1 DEF ToSet
  <2>2. \A i, j \in D : chain[i] = chain[j] => i = j
    BY <1>1 DEF Injective
  <2> HIDE DEF D, T
  <2> QED
    BY <2>1, <2>2 DEF Bijection, Injection, Surjection, IsInjective
<1>3. ExistsBijection(D, T)
  BY <1>2 DEF ExistsBijection
<1> HIDE DEF T
<1>4. Cardinality(T) = Len(chain)
  BY <1>1, <1>3, FS_CountingElements
<1> QED
  BY <1>1, <1>4 DEF T

(***************************************************************************)
(* The breaker's data type.                                                *)
(***************************************************************************)
LEMMA ProviderFacts ==
    /\ \A b \in Backends : ProviderOf[b] \in Providers
    /\ NoProvider \notin Providers
BY FallbackAssumption DEF Providers

LEMMA BreakerTypes ==
    ASSUME NEW s \in ProviderState
    PROVE  /\ Closed \in ProviderState /\ Checked(s) \in ProviderState
           /\ Succeeded(s) \in ProviderState /\ Failed(s) \in ProviderState
           /\ Aged(s) \in ProviderState
<1>1. FailThreshold \in Nat /\ ResetTimeout \in Nat
  BY BreakerAssumption
<1>2. s.failures \in Nat /\ s.age \in -1 .. ResetTimeout
  BY DEF ProviderState, NotOpened
<1>3. Closed \in ProviderState
  BY <1>1 DEF Closed, ProviderState, NotOpened
<1>4. Failed(s) \in ProviderState
  BY <1>1, <1>2 DEF Failed, ProviderState, NotOpened
<1>5. Aged(s) \in ProviderState
  <2>1. CASE Opened(s) /\ ~Expired(s)
    <3>1. s.age + 1 \in -1 .. ResetTimeout
      BY <1>1, <1>2, <2>1 DEF Expired
    <3> QED
      BY <2>1, <3>1 DEF Aged, ProviderState, NotOpened
  <2>2. CASE ~(Opened(s) /\ ~Expired(s))
    BY <2>2 DEF Aged
  <2> QED
    BY <2>1, <2>2
<1> QED
  BY <1>3, <1>4, <1>5 DEF Checked, Succeeded

(***************************************************************************)
(* The requests on their way through a chain.                              *)
(***************************************************************************)
Waiting(x) == x.pc \in {"sending", "backoff"}

Failing(chain, i, j) == \A k \in i .. j : ~Reliable(ProviderOf[chain[k]])

OnCourse(x) ==
    /\ Injective(x.chain)
    /\ Waiting(x) =>
         /\ x.pos \in 1 .. Len(x.chain)
         /\ x.attempt > 0
         /\ x.sends <= Attempts * (x.pos - 1) + x.attempt
         /\ Failing(x.chain, 1, x.pos - 1)
    /\ x.pc = "backoff" => x.attempt < Attempts
    /\ ~Waiting(x) => x.sends = 0
    /\ x.result \in {"upstream", "unavailable"} => Failing(x.chain, 1, Len(x.chain))

AllOnCourse == \A r \in Requests : OnCourse(req[r])

\* A provider that answers 200 to everything never gets a failure counted.
SparesReliable(br) == \A p \in Providers : Reliable(p) => br[p] = Closed

Courses == TypeOK /\ SparesReliable(breaker) /\ AllOnCourse

Alone(r) == \A q \in Requests \ {r} : req'[q] = req[q]

Becomes(r, x) == req' \in [Requests -> Request] /\ Alone(r) /\ req'[r] = x

Sending(chain, j, n) ==
    [pc |-> "sending", chain |-> chain, pos |-> j, attempt |-> 1, sends |-> n, result |-> "none"]

LEMMA RequestFields ==
    ASSUME NEW x \in Request
    PROVE  /\ x.pc \in Phases /\ x.chain \in Seq(Backends) /\ x.pos \in Nat
           /\ x.attempt \in 0 .. Attempts /\ x.sends \in Nat /\ x.result \in Results
           /\ Attempts \in Nat /\ Attempts > 0
BY FallbackAssumption DEF Request

LEMMA Becoming ==
    ASSUME TypeOK, NEW r \in Requests, NEW x \in Request, req' = [req EXCEPT ![r] = x]
    PROVE  Becomes(r, x)
BY DEF TypeOK, Becomes, Alone

LEMMA ChainElements ==
    ASSUME NEW chain \in Seq(Backends)
    PROVE  /\ Len(chain) \in Nat /\ DOMAIN chain = 1 .. Len(chain)
           /\ \A k \in 1 .. Len(chain) : chain[k] \in Backends /\ ProviderOf[chain[k]] \in Providers
BY ProviderFacts

\* The backend a request waits for.
LEMMA WaitingFor ==
    ASSUME Courses, NEW r \in Requests, Waiting(req[r])
    PROVE  /\ BackendOf(r) \in Backends /\ CandidateProvider(r) \in Providers
           /\ req[r].chain \in Seq(Backends) /\ req[r].pos \in 1 .. Len(req[r].chain)
<1>1. req[r] \in Request /\ OnCourse(req[r])
  BY DEF Courses, TypeOK, AllOnCourse
<1>2. req[r].chain \in Seq(Backends) /\ req[r].pos \in 1 .. Len(req[r].chain)
  BY <1>1, RequestFields DEF OnCourse
<1> QED
  BY <1>2, ChainElements DEF BackendOf, CandidateProvider

LEMMA UnsentFacts ==
    /\ Unsent \in Request
    /\ Unsent.pc = "idle" /\ Unsent.chain = <<>> /\ Unsent.sends = 0 /\ Unsent.result = "none"
BY FallbackAssumption DEF Unsent, Request, Phases, Results

\* The outcomes of the loop: a call to candidate j, or a refusal.
Calls(r, chain, i, j, n, br, load) ==
    /\ FirstAdmitted(chain, i, j, br)
    /\ breaker' = [br EXCEPT ![ProviderOf[chain[j]]] = Checked(@)]
    /\ inFlight' = NoteStart(load, chain[j])
    /\ Becomes(r, Sending(chain, j, n + 1))

GivesUp(r, chain, i, br, load) ==
    /\ NoneAdmitted(chain, i, br)
    /\ breaker' = br
    /\ inFlight' = load
    /\ req' \in [Requests -> Request] /\ Alone(r)
    /\ req'[r].pc = "idle" /\ req'[r].chain = chain /\ req'[r].sends = 0
    /\ req'[r].result \in {"upstream", "unavailable"}

LEMMA LoopEffect ==
    ASSUME TypeOK, NEW r \in Requests, NEW chain \in Seq(Backends), NEW i \in Nat \ {0},
           NEW n \in Nat, NEW br, NEW load, Loop(r, chain, i, n, br, load)
    PROVE  \/ \E j \in i .. Len(chain) : Calls(r, chain, i, j, n, br, load)
           \/ GivesUp(r, chain, i, br, load)
<1>1. ASSUME NEW j \in i .. Len(chain),
             FirstAdmitted(chain, i, j, br),
             breaker' = [br EXCEPT ![ProviderOf[chain[j]]] = Checked(@)],
             inFlight' = NoteStart(load, chain[j]),
             req' = [req EXCEPT ![r] = Sending(chain, j, n + 1)]
      PROVE  Calls(r, chain, i, j, n, br, load)
  <2>1. Sending(chain, j, n + 1) \in Request
    <3>1. n + 1 \in Nat /\ j \in Nat /\ 1 \in 0 .. Attempts
      BY FallbackAssumption
    <3> QED
      BY <3>1 DEF Sending, Request, Phases, Results
  <2> QED
    BY <1>1, <2>1, Becoming DEF Calls
<1>2. ASSUME NoneAdmitted(chain, i, br), breaker' = br, inFlight' = load,
             NEW result \in {"upstream", "unavailable"},
             req' = [req EXCEPT ![r] = [Unsent EXCEPT !.chain = chain, !.result = result]]
      PROVE  GivesUp(r, chain, i, br, load)
  <2> DEFINE x == [Unsent EXCEPT !.chain = chain, !.result = result]
  <2>1. x \in Request /\ x.pc = "idle" /\ x.chain = chain /\ x.sends = 0 /\ x.result = result
    BY UnsentFacts DEF Request, Results
  <2> HIDE DEF x
  <2>2. Becomes(r, x)
    BY <1>2, <2>1, Becoming DEF x
  <2> QED
    BY <1>2, <2>1, <2>2 DEF GivesUp, Becomes
<1> QED
  BY <1>1, <1>2 DEF Loop, Sending

(***************************************************************************)
(* What the loop keeps.                                                    *)
(***************************************************************************)
LEMMA LoadTypes ==
    ASSUME NEW load \in [Deployments -> Nat], NEW b
    PROVE  NoteStart(load, b) \in [Deployments -> Nat] /\ NoteEnd(load, b) \in [Deployments -> Nat]
BY DEF NoteStart, NoteEnd

LEMMA OthersOnCourse ==
    ASSUME AllOnCourse, NEW r \in Requests, Alone(r), OnCourse(req'[r])
    PROVE  AllOnCourse'
BY DEF AllOnCourse, Alone

LEMMA NeverOpen == ~IsOpen(Closed) /\ Checked(Closed) = Closed /\ Succeeded(Closed) = Closed /\ Aged(Closed) = Closed
BY DEF IsOpen, Checked, Succeeded, Aged, Opened, Closed, NotOpened

LEMMA MoreRoom ==
    ASSUME NEW a \in Nat, NEW i \in Nat \ {0}, NEW j \in Nat, i <= j
    PROVE  a * (i - 1) <= a * (j - 1) /\ a * (i - 1) + a = a * i
<1>1. a * (j - i) \in Nat
  OBVIOUS
<1>2. a * (j - 1) = a * (i - 1) + a * (j - i)
  OBVIOUS
<1> QED
  BY <1>1, <1>2

LEMMA LoopKeeps ==
    ASSUME TypeOK, AllOnCourse, NEW r \in Requests,
           NEW chain \in Seq(Backends), Injective(chain),
           NEW i \in 1 .. Len(chain) + 1, Failing(chain, 1, i - 1),
           NEW n \in Nat, n <= Attempts * (i - 1),
           NEW br \in [Providers -> ProviderState], SparesReliable(br),
           NEW load \in [Deployments -> Nat],
           Loop(r, chain, i, n, br, load)
    PROVE  /\ breaker' \in [Providers -> ProviderState]
           /\ inFlight' \in [Deployments -> Nat]
           /\ req' \in [Requests -> Request]
           /\ SparesReliable(breaker')
           /\ AllOnCourse'
<1>0. /\ Len(chain) \in Nat /\ i \in Nat \ {0} /\ Attempts \in Nat
      /\ \A k \in 1 .. Len(chain) : chain[k] \in Backends /\ ProviderOf[chain[k]] \in Providers
  BY ChainElements, FallbackAssumption
<1>1. ASSUME NEW k \in i .. Len(chain), IsOpen(br[ProviderOf[chain[k]]])
      PROVE  ~Reliable(ProviderOf[chain[k]])
  BY <1>0, <1>1, NeverOpen DEF SparesReliable
<1>2. CASE \E j \in i .. Len(chain) : Calls(r, chain, i, j, n, br, load)
  <2>1. PICK j \in i .. Len(chain) : Calls(r, chain, i, j, n, br, load)
    BY <1>2
  <2>2. breaker' \in [Providers -> ProviderState] /\ SparesReliable(breaker')
    <3> DEFINE p == ProviderOf[chain[j]]
    <3>1. p \in Providers
      BY <1>0
    <3> HIDE DEF p
    <3>2. breaker' = [br EXCEPT ![p] = Checked(@)]
      BY <2>1 DEF Calls, p
    <3>3. Checked(br[p]) \in ProviderState
      BY <3>1, BreakerTypes
    <3> QED
      BY <3>1, <3>2, <3>3, NeverOpen DEF SparesReliable
  <2>3. inFlight' \in [Deployments -> Nat] /\ req' \in [Requests -> Request]
    BY <2>1, LoadTypes DEF Calls, Becomes
  <2>4. req'[r] = Sending(chain, j, n + 1) /\ Alone(r)
    BY <2>1 DEF Calls, Becomes
  <2>5. Failing(chain, 1, j - 1)
    <3>1. ASSUME NEW k \in 1 .. j - 1
          PROVE  ~Reliable(ProviderOf[chain[k]])
      <4>1. CASE k \in 1 .. i - 1
        BY <4>1 DEF Failing
      <4>2. CASE k \in i .. j - 1
        <5>1. IsOpen(br[ProviderOf[chain[k]]])
          BY <2>1, <4>2 DEF Calls, FirstAdmitted
        <5>2. k \in i .. Len(chain)
          BY <1>0, <4>2
        <5> QED
          BY <1>1, <5>1, <5>2
      <4> QED
        BY <1>0, <4>1, <4>2
    <3> QED
      BY <3>1 DEF Failing
  <2>6. n + 1 <= Attempts * (j - 1) + 1
    <3>1. Attempts * (i - 1) <= Attempts * (j - 1)
      BY <1>0, MoreRoom
    <3>2. Attempts * (i - 1) \in Nat /\ Attempts * (j - 1) \in Nat
      BY <1>0
    <3> QED
      BY <3>1, <3>2
  <2>7. OnCourse(Sending(chain, j, n + 1))
    <3> DEFINE most == Attempts * (j - 1) + 1
               sent == n + 1
    <3>1. sent <= most /\ j \in 1 .. Len(chain)
      BY <1>0, <2>6
    <3> HIDE DEF most, sent
    <3>2. OnCourse(Sending(chain, j, sent))
      BY <2>5, <3>1 DEF OnCourse, Waiting, Sending, most
    <3> QED
      BY <3>2 DEF sent
  <2> QED
    BY <2>2, <2>3, <2>4, <2>7, OthersOnCourse
<1>3. CASE GivesUp(r, chain, i, br, load)
  <2>1. /\ breaker' = br /\ inFlight' = load /\ req' \in [Requests -> Request] /\ Alone(r)
        /\ req'[r].pc = "idle" /\ req'[r].chain = chain /\ req'[r].sends = 0
        /\ NoneAdmitted(chain, i, br)
    BY <1>3 DEF GivesUp
  <2>2. Failing(chain, 1, Len(chain))
    <3>1. ASSUME NEW k \in 1 .. Len(chain)
          PROVE  ~Reliable(ProviderOf[chain[k]])
      <4>1. CASE k \in 1 .. i - 1
        BY <4>1 DEF Failing
      <4>2. CASE k \in i .. Len(chain)
        BY <1>1, <2>1, <4>2 DEF NoneAdmitted
      <4> QED
        BY <1>0, <4>1, <4>2
    <3> QED
      BY <3>1 DEF Failing
  <2>3. OnCourse(req'[r])
    BY <2>1, <2>2 DEF OnCourse, Waiting
  <2> QED
    BY <2>1, <2>3, OthersOnCourse
<1> QED
  BY <1>0, <1>2, <1>3, LoopEffect

(***************************************************************************)
(* The inductive invariant: every action keeps it.                         *)
(***************************************************************************)
LEMMA InitCourses == Init => Courses
<1> SUFFICES ASSUME Init
             PROVE  Courses
  OBVIOUS
<1>1. TypeOK
  <2>1. FailThreshold \in Nat /\ Closed \in ProviderState
    BY BreakerAssumption DEF Closed, ProviderState, NotOpened
  <2> QED
    BY <2>1, UnsentFacts DEF Init, TypeOK
<1>2. SparesReliable(breaker)
  BY DEF Init, SparesReliable
<1>3. AllOnCourse
  BY UnsentFacts DEF Init, AllOnCourse, OnCourse, Waiting, Injective
<1> QED
  BY <1>1, <1>2, <1>3 DEF Courses

\* A request that has its answer holds nothing any more.
LEMMA FinishEffect ==
    ASSUME TypeOK, AllOnCourse, NEW r \in Requests,
           NEW result \in {"ok", "rejected", "error"}, Finish(r, result)
    PROVE  /\ req' \in [Requests -> Request] /\ Alone(r) /\ req'[r].pc = "idle"
           /\ AllOnCourse'
<1> DEFINE x == [Unsent EXCEPT !.result = result]
<1>1. /\ x \in Request /\ x.pc = "idle" /\ x.chain = <<>> /\ x.sends = 0
      /\ x.result \notin {"upstream", "unavailable"}
  BY UnsentFacts DEF Request, Results
<1>2. OnCourse(x)
  BY <1>1 DEF OnCourse, Waiting, Injective
<1> HIDE DEF x
<1>3. Becomes(r, x)
  BY <1>1, Becoming DEF Finish, x
<1> QED
  BY <1>1, <1>2, <1>3, OthersOnCourse DEF Becomes

LEMMA BuildCourses ==
    ASSUME Courses, NEW r \in Requests, NEW ask \in Asks,
           NEW chain \in build_candidates(ask, table.enabled, inFlight, sampled),
           Build(r, chain)
    PROVE  Courses' /\ Alone(r) /\ req'[r].pc = "built" /\ req'[r].chain = chain
<1> DEFINE x == [Unsent EXCEPT !.pc = "built", !.chain = chain]
<1>1. table.enabled \in SUBSET Deployments
  BY FallbackAssumption DEF Courses, TypeOK
<1>2. chain \in Seq(Backends) /\ Injective(chain)
  BY <1>1, ChainFacts
<1>3. /\ x \in Request /\ x.pc = "built" /\ x.chain = chain /\ x.sends = 0 /\ x.result = "none"
  BY <1>2, UnsentFacts DEF Request, Phases
<1>4. OnCourse(x)
  BY <1>2, <1>3 DEF OnCourse, Waiting
<1> HIDE DEF x
<1>5. Becomes(r, x)
  BY <1>3, Becoming DEF Courses, Build, x
<1>6. AllOnCourse'
  BY <1>4, <1>5, OthersOnCourse DEF Becomes, Courses
<1>7. TypeOK'
  BY <1>5 DEF Courses, TypeOK, Build, Becomes, stats, history
<1>8. SparesReliable(breaker)'
  BY DEF Courses, Build, SparesReliable
<1> QED
  BY <1>3, <1>5, <1>6, <1>7, <1>8 DEF Courses, Becomes

LEMMA ExecuteCourses ==
    ASSUME Courses, NEW r \in Requests, Execute(r)
    PROVE  Courses'
<1>1. /\ req[r].chain \in Seq(Backends) /\ Injective(req[r].chain)
      /\ Len(req[r].chain) \in Nat /\ Attempts \in Nat
  BY RequestFields DEF Courses, TypeOK, AllOnCourse, OnCourse
<1>2. 1 \in 1 .. Len(req[r].chain) + 1 /\ 0 \in Nat /\ 0 <= Attempts * (1 - 1)
  BY <1>1
<1>3. Failing(req[r].chain, 1, 1 - 1)
  BY DEF Failing
<1>4. /\ breaker' \in [Providers -> ProviderState] /\ inFlight' \in [Deployments -> Nat]
      /\ req' \in [Requests -> Request] /\ SparesReliable(breaker') /\ AllOnCourse'
  BY <1>1, <1>2, <1>3, LoopKeeps DEF Courses, TypeOK, Execute
<1> QED
  BY <1>4 DEF Courses, TypeOK, Execute, history, SparesReliable

LEMMA SuccessCourses ==
    ASSUME Courses, NEW r \in Requests, AttemptOk(r)
    PROVE  Courses'
<1> DEFINE b == BackendOf(r)
           p == CandidateProvider(r)
<1>1. b \in Backends /\ p \in Providers
  BY WaitingFor DEF AttemptOk, Waiting
<1>2. req' \in [Requests -> Request] /\ AllOnCourse'
  BY FinishEffect DEF Courses, AttemptOk
<1> HIDE DEF b, p
<1>3. /\ breaker' = [breaker EXCEPT ![p] = Succeeded(@)] /\ streak' = [streak EXCEPT ![p] = 0]
      /\ inFlight' = NoteEnd(inFlight, b) /\ sampled' = sampled \cup ({b} \cap Deployments)
      /\ UNCHANGED <<table, leaked, forgotten>>
  BY DEF AttemptOk, RecordSuccess, history, b, p
<1>4. breaker' \in [Providers -> ProviderState] /\ SparesReliable(breaker')
  BY <1>1, <1>3, BreakerTypes, NeverOpen DEF Courses, TypeOK, SparesReliable, Succeeded
<1>5. streak' \in [Providers -> 0 .. FailThreshold]
  BY <1>1, <1>3, BreakerAssumption DEF Courses, TypeOK
<1>6. inFlight' \in [Deployments -> Nat]
  BY <1>3, LoadTypes DEF Courses, TypeOK
<1> QED
  BY <1>2, <1>3, <1>4, <1>5, <1>6 DEF Courses, TypeOK, SparesReliable

\* A request may only fail at a provider that is not reliable.
LEMMA FailsUnreliable ==
    ASSUME Courses, NEW r \in Requests, Waiting(req[r]), "transient" \in Answers(r)
    PROVE  ~Reliable(CandidateProvider(r))
BY WaitingFor DEF Reliable, Answers, CandidateProvider

LEMMA TransientCourses ==
    ASSUME Courses, NEW r \in Requests, AttemptTransient(r)
    PROVE  Courses' /\ Alone(r) /\ req'[r].pc = "backoff" /\ req'[r].chain = req[r].chain
                    /\ req'[r].pos = req[r].pos
<1> DEFINE x == [req[r] EXCEPT !.pc = "backoff"]
<1>1. req[r] \in Request /\ OnCourse(req[r]) /\ req[r].pc = "sending"
  BY DEF Courses, TypeOK, AllOnCourse, AttemptTransient
<1>2. /\ x \in Request /\ x.pc = "backoff" /\ x.chain = req[r].chain /\ x.pos = req[r].pos
      /\ x.attempt = req[r].attempt /\ x.sends = req[r].sends /\ x.result = req[r].result
  BY <1>1 DEF Request, Phases
<1>3. OnCourse(x)
  <2>1. x.attempt < Attempts
    BY <1>2 DEF AttemptTransient, HasAttemptsLeft
  <2> HIDE DEF x
  <2> QED
    BY <1>1, <1>2, <2>1 DEF OnCourse, Waiting
<1> HIDE DEF x
<1>4. Becomes(r, x)
  BY <1>2, Becoming DEF Courses, AttemptTransient, x
<1>5. AllOnCourse'
  BY <1>3, <1>4, OthersOnCourse DEF Becomes, Courses
<1> QED
  BY <1>2, <1>4, <1>5 DEF Courses, TypeOK, AttemptTransient, Becomes, stats, history, SparesReliable

\* A retry spends one of the attempts that are left.
LEMMA RetryCourses ==
    ASSUME Courses, NEW r \in Requests, Retry(r)
    PROVE  Courses' /\ Alone(r) /\ req'[r].pc = "sending" /\ req'[r].chain = req[r].chain
                    /\ req'[r].pos = req[r].pos
<1> DEFINE x == [[[req[r] EXCEPT !.pc = "sending"] EXCEPT !.attempt = @ + 1] EXCEPT !.sends = @ + 1]
<1>1. /\ req[r] \in Request /\ OnCourse(req[r]) /\ req[r].pc = "backoff"
      /\ req[r].attempt < Attempts
  BY DEF Courses, TypeOK, AllOnCourse, Retry, OnCourse
<1>2. /\ x.pc = "sending" /\ x.chain = req[r].chain /\ x.pos = req[r].pos
      /\ x.attempt = req[r].attempt + 1 /\ x.sends = req[r].sends + 1 /\ x.result = req[r].result
  BY <1>1 DEF Request
<1>3. x \in Request
  <2>1. req[r].attempt + 1 \in 0 .. Attempts /\ req[r].sends + 1 \in Nat
    BY <1>1, RequestFields
  <2> QED
    BY <1>1, <2>1 DEF Request, Phases
<1>4. req' = [req EXCEPT ![r] = x]
  BY <1>1 DEF Retry, Courses, TypeOK, Request
<1> HIDE DEF x
<1>5. OnCourse(x)
  <2>1. /\ req[r].pos \in 1 .. Len(req[r].chain) /\ req[r].attempt > 0
        /\ req[r].sends <= Attempts * (req[r].pos - 1) + req[r].attempt
        /\ Failing(req[r].chain, 1, req[r].pos - 1) /\ Injective(req[r].chain)
        /\ req[r].result \in {"upstream", "unavailable"} => Failing(req[r].chain, 1, Len(req[r].chain))
    BY <1>1 DEF OnCourse, Waiting
  <2> DEFINE spent == Attempts * (req[r].pos - 1)
  <2>2. spent \in Int /\ req[r].sends \in Nat /\ req[r].attempt \in Nat
    BY <1>1, <2>1, RequestFields
  <2>3. x.sends <= spent + x.attempt /\ x.attempt > 0
    <3>1. req[r].sends <= spent + req[r].attempt
      BY <2>1
    <3> HIDE DEF spent
    <3> QED
      BY <1>2, <2>1, <2>2, <3>1
  <2>4. x.sends <= Attempts * (x.pos - 1) + x.attempt
    BY <1>2, <2>3
  <2> QED
    BY <1>2, <2>1, <2>3, <2>4 DEF OnCourse, Waiting
<1>6. Becomes(r, x)
  BY <1>3, <1>4, Becoming DEF Courses
<1>7. AllOnCourse'
  BY <1>5, <1>6, OthersOnCourse DEF Becomes, Courses
<1> QED
  BY <1>2, <1>6, <1>7 DEF Courses, TypeOK, Retry, Becomes, stats, history, SparesReliable

LEMMA ExhaustedCourses ==
    ASSUME Courses, NEW r \in Requests, AttemptsExhausted(r)
    PROVE  Courses'
<1> DEFINE b == BackendOf(r)
           p == CandidateProvider(r)
           br == AfterFailure(p)
           load == NoteEnd(inFlight, b)
           n == req[r].sends
           i == req[r].pos + 1
<1>1. Waiting(req[r]) /\ "transient" \in Answers(r) /\ req[r] \in Request /\ OnCourse(req[r])
  BY DEF AttemptsExhausted, Waiting, Courses, TypeOK, AllOnCourse
<1>2. b \in Backends /\ p \in Providers /\ ~Reliable(p)
  BY <1>1, WaitingFor, FailsUnreliable
<1>3. /\ req[r].chain \in Seq(Backends) /\ Injective(req[r].chain)
      /\ req[r].pos \in 1 .. Len(req[r].chain) /\ Len(req[r].chain) \in Nat
      /\ Attempts \in Nat /\ n \in Nat /\ req[r].attempt \in 0 .. Attempts
      /\ n <= Attempts * (req[r].pos - 1) + req[r].attempt
      /\ Failing(req[r].chain, 1, req[r].pos - 1)
  BY <1>1, RequestFields DEF OnCourse
<1>4. i \in 1 .. Len(req[r].chain) + 1
  BY <1>3
<1>5. n <= Attempts * (i - 1)
  <2> DEFINE before == Attempts * (req[r].pos - 1)
             spent == Attempts * req[r].pos
  <2>1. before + Attempts = spent /\ before \in Int /\ n <= before + req[r].attempt
    BY <1>3, MoreRoom
  <2>2. i - 1 = req[r].pos
    BY <1>3
  <2> HIDE DEF before
  <2>3. n <= spent
    <3> HIDE DEF spent
    <3> QED
      BY <1>3, <2>1
  <2> QED
    BY <2>2, <2>3
<1>6. Failing(req[r].chain, 1, i - 1)
  <2>1. \A k \in 1 .. i - 1 : k \in 1 .. req[r].pos - 1 \/ k = req[r].pos
    BY <1>3
  <2>2. ProviderOf[req[r].chain[req[r].pos]] = p
    BY DEF CandidateProvider, BackendOf
  <2> QED
    BY <1>2, <1>3, <2>1, <2>2 DEF Failing
<1>7. br \in [Providers -> ProviderState] /\ SparesReliable(br)
  <2> HIDE DEF p
  <2> QED
    BY <1>2, BreakerTypes DEF AfterFailure, Courses, TypeOK, SparesReliable
<1>8. load \in [Deployments -> Nat]
  BY LoadTypes DEF Courses, TypeOK
<1>9. Loop(r, req[r].chain, i, n, br, load)
  BY DEF AttemptsExhausted
<1>10. streak' \in [Providers -> 0 .. FailThreshold]
  <2>1. streak' = [streak EXCEPT ![p] = Longer(@)]
    BY DEF AttemptsExhausted
  <2>2. Longer(streak[p]) \in 0 .. FailThreshold
    BY <1>2, BreakerAssumption DEF Longer, Courses, TypeOK
  <2> HIDE DEF p
  <2> QED
    BY <2>1, <2>2 DEF Courses, TypeOK
<1>11. TypeOK /\ AllOnCourse /\ UNCHANGED <<table, sampled, leaked, forgotten>>
  BY DEF Courses, AttemptsExhausted, history
<1> HIDE DEF b, p, br, load, n, i
<1>12. /\ breaker' \in [Providers -> ProviderState] /\ inFlight' \in [Deployments -> Nat]
       /\ req' \in [Requests -> Request] /\ SparesReliable(breaker') /\ AllOnCourse'
  BY <1>3, <1>4, <1>5, <1>6, <1>7, <1>8, <1>9, <1>11, LoopKeeps
<1> QED
  BY <1>10, <1>11, <1>12 DEF Courses, TypeOK, SparesReliable

LEMMA RejectedCourses ==
    ASSUME Courses, NEW r \in Requests, AttemptRejected(r)
    PROVE  Courses'
<1>1. req' \in [Requests -> Request] /\ AllOnCourse'
  BY FinishEffect DEF Courses, AttemptRejected
<1>2. inFlight' \in [Deployments -> Nat]
  BY LoadTypes DEF Courses, TypeOK, AttemptRejected
<1> QED
  BY <1>1, <1>2 DEF Courses, TypeOK, AttemptRejected, history, SparesReliable

LEMMA RaisesCourses ==
    ASSUME Courses, NEW r \in Requests, AttemptRaises(r)
    PROVE  Courses'
<1>1. req' \in [Requests -> Request] /\ AllOnCourse'
  BY FinishEffect DEF Courses, AttemptRaises
<1>2. leaked' \in [Deployments -> Nat]
  BY LoadTypes DEF Courses, TypeOK, AttemptRaises
<1> QED
  BY <1>1, <1>2 DEF Courses, TypeOK, AttemptRaises, stats, SparesReliable

LEMMA ReloadCourses ==
    ASSUME Courses, NEW t \in Tables, Reload(t)
    PROVE  Courses'
<1>1. inFlight' \in [Deployments -> Nat] /\ leaked' \in [Deployments -> Nat]
  BY DEF Courses, TypeOK, Reload
<1> QED
  BY <1>1 DEF Courses, TypeOK, Reload, SparesReliable, AllOnCourse

LEMMA TickCourses ==
    ASSUME Courses, Tick
    PROVE  Courses'
<1>1. breaker' \in [Providers -> ProviderState] /\ SparesReliable(breaker')
  BY BreakerTypes, NeverOpen DEF Courses, TypeOK, Tick, SparesReliable
<1> QED
  BY <1>1 DEF Courses, TypeOK, Tick, stats, history, SparesReliable, AllOnCourse

LEMMA NextCourses == Courses /\ [Next]_vars => Courses'
<1> SUFFICES ASSUME Courses, [Next]_vars
             PROVE  Courses'
  OBVIOUS
<1>1. CASE UNCHANGED vars
  BY <1>1 DEF Courses, TypeOK, SparesReliable, AllOnCourse, vars, stats, history
<1>2. ASSUME NEW r \in Requests, NEW ask \in Asks,
             NEW chain \in build_candidates(ask, table.enabled, inFlight, sampled),
             Build(r, chain)
      PROVE  Courses'
  BY <1>2, BuildCourses
<1>3. ASSUME NEW r \in Requests, Answer(r)
      PROVE  Courses'
  BY <1>3, SuccessCourses, TransientCourses, ExhaustedCourses, RejectedCourses, RaisesCourses
     DEF Answer
<1> QED
  BY <1>1, <1>2, <1>3, ExecuteCourses, RetryCourses, ReloadCourses, TickCourses DEF Next

\* Fallback.TypeOK: every request, the breaker and the statistics keep their
\* types; no retry goes beyond the attempts there are.
THEOREM TypeCorrect == Spec => []TypeOK
<1>1. Courses => TypeOK
  BY DEF Courses
<1> QED
  BY <1>1, InitCourses, NextCourses, PTL DEF Spec

\* Fallback.AmplificationBounded (execute_with_fallback and with_retries): one
\* client request costs at most Attempts calls per backend of its chain.
THEOREM AmplificationHolds == Spec => []AmplificationBounded
<1>1. Courses => AmplificationBounded
  <2> SUFFICES ASSUME Courses, NEW r \in Requests
               PROVE  req[r].sends <= Attempts * Cardinality(ToSet(req[r].chain))
    BY DEF AmplificationBounded
  <2> DEFINE len == Len(req[r].chain)
             most == Attempts * len
  <2>1. req[r] \in Request /\ OnCourse(req[r])
    BY DEF Courses, TypeOK, AllOnCourse
  <2>2. /\ req[r].chain \in Seq(Backends) /\ Attempts \in Nat /\ req[r].sends \in Nat
        /\ req[r].attempt \in 0 .. Attempts
    BY <2>1, RequestFields
  <2>3. Cardinality(ToSet(req[r].chain)) = len /\ len \in Nat
    BY <2>1, <2>2, ChainCount DEF OnCourse
  <2>4. most \in Nat
    BY <2>2, <2>3
  <2>5. req[r].sends <= most
    <3>1. CASE ~Waiting(req[r])
      <4> HIDE DEF most
      <4> QED
        BY <2>1, <2>4, <3>1 DEF OnCourse
    <3>2. CASE Waiting(req[r])
      <4> DEFINE before == Attempts * (req[r].pos - 1)
                 spent == Attempts * req[r].pos
      <4>1. /\ req[r].pos \in 1 .. len /\ req[r].sends <= before + req[r].attempt
        BY <2>1, <3>2 DEF OnCourse
      <4>2. before + Attempts = spent /\ before \in Int /\ spent \in Int
        BY <2>2, <2>3, <4>1, MoreRoom
      <4>3. spent <= most
        <5>1. /\ req[r].pos + 1 \in Nat \ {0} /\ len + 1 \in Nat /\ req[r].pos + 1 <= len + 1
              /\ (req[r].pos + 1) - 1 = req[r].pos /\ (len + 1) - 1 = len
          BY <2>3, <4>1
        <5>2. Attempts * ((req[r].pos + 1) - 1) <= Attempts * ((len + 1) - 1)
          BY <2>2, <5>1, MoreRoom
        <5> QED
          BY <5>1, <5>2
      <4> HIDE DEF most, before, spent
      <4> QED
        BY <2>2, <2>4, <4>1, <4>2, <4>3
    <3> QED
      BY <3>1, <3>2
  <2> QED
    BY <2>3, <2>5
<1> QED
  BY <1>1, InitCourses, NextCourses, PTL DEF Spec

\* Fallback.HealthyServes (execute_with_fallback): a request that fails for want
\* of an answer had no candidate at a provider that answers 200 to everything.
THEOREM HealthyServesHolds == Spec => []HealthyServes
<1>1. Courses => HealthyServes
  <2> SUFFICES ASSUME Courses, NEW r \in Requests,
                      req[r].result \in {"upstream", "unavailable"},
                      NEW i \in DOMAIN req[r].chain
               PROVE  ~Reliable(ProviderOf[req[r].chain[i]])
    BY DEF HealthyServes
  <2>1. req[r] \in Request /\ OnCourse(req[r])
    BY DEF Courses, TypeOK, AllOnCourse
  <2>2. DOMAIN req[r].chain = 1 .. Len(req[r].chain)
    BY <2>1, RequestFields, ChainElements
  <2> QED
    BY <2>1, <2>2 DEF OnCourse, Failing
<1> QED
  BY <1>1, InitCourses, NextCourses, PTL DEF Spec

(***************************************************************************)
(* The account of the calls under way.  Balanced says of one deployment    *)
(* that the count n fits the calls S and the number of leaked ones.        *)
(***************************************************************************)
Balanced(n, S, leaks, lost) ==
    /\ n <= Cardinality(S) + leaks
    /\ ~lost => n = Cardinality(S) + leaks

\* The calls of the other requests.
Without(r, d) == Calling(d) \ {r}

OthersBalanced(load, r) ==
    \A d \in Deployments : Balanced(load[d], Without(r, d), leaked[d], d \in forgotten)

LEMMA AccountsBalanced ==
    InFlightAccounted <=>
        \A d \in Deployments : Balanced(inFlight[d], Calling(d), leaked[d], d \in forgotten)
BY DEF InFlightAccounted, Balanced

LEMMA CallsCount ==
    ASSUME NEW S \in SUBSET Requests, NEW r \in Requests
    PROVE  /\ Cardinality(S) \in Nat
           /\ r \notin S => Cardinality(S \cup {r}) = Cardinality(S) + 1
           /\ r \in S => Cardinality(S \ {r}) = Cardinality(S) - 1 /\ Cardinality(S) > 0
<1>1. IsFiniteSet(S)
  BY FallbackAssumption, FS_Subset
<1>2. Cardinality(S) \in Nat /\ Cardinality(S \ {r}) \in Nat
  BY <1>1, FS_Subset, FS_CardinalityType
<1>3. r \notin S => Cardinality(S \cup {r}) = Cardinality(S) + 1
  BY <1>1, FS_AddElement
<1>4. r \in S => Cardinality(S \ {r}) = Cardinality(S) - 1
  BY <1>1, FS_RemoveElement
<1> QED
  BY <1>2, <1>3, <1>4

\* The end of a call that was counted; its start.
LEMMA CallEnds ==
    ASSUME TypeOK, InFlightAccounted, NEW r \in Requests, Waiting(req[r])
    PROVE  OthersBalanced(NoteEnd(inFlight, BackendOf(r)), r)
<1> SUFFICES ASSUME NEW d \in Deployments
             PROVE  Balanced(NoteEnd(inFlight, BackendOf(r))[d], Without(r, d), leaked[d], d \in forgotten)
  BY DEF OthersBalanced
<1>1. Balanced(inFlight[d], Calling(d), leaked[d], d \in forgotten)
  BY AccountsBalanced
<1>2. inFlight \in [Deployments -> Nat] /\ inFlight[d] \in Nat /\ leaked[d] \in Nat
  BY DEF TypeOK
<1>3. Calling(d) \in SUBSET Requests /\ (r \in Calling(d) <=> BackendOf(r) = d)
  BY DEF Calling, Waiting
<1>4. CASE BackendOf(r) = d
  <2>1. /\ Cardinality(Without(r, d)) = Cardinality(Calling(d)) - 1
        /\ Cardinality(Calling(d)) > 0 /\ Cardinality(Calling(d)) \in Nat
    BY <1>3, <1>4, CallsCount DEF Without
  <2>2. NoteEnd(inFlight, BackendOf(r))[d] = IF inFlight[d] > 0 THEN inFlight[d] - 1 ELSE inFlight[d]
    BY <1>2, <1>4 DEF NoteEnd
  <2> QED
    BY <1>1, <1>2, <2>1, <2>2 DEF Balanced
<1>5. CASE BackendOf(r) # d
  <2>1. Without(r, d) = Calling(d)
    BY <1>3, <1>5 DEF Without
  <2>2. NoteEnd(inFlight, BackendOf(r))[d] = inFlight[d]
    BY <1>2, <1>5 DEF NoteEnd
  <2> QED
    BY <1>1, <2>1, <2>2
<1> QED
  BY <1>4, <1>5

\* The calls after a step of r: those of the others, and the one r is left with.
LEMMA CallsOfOthers ==
    ASSUME NEW r \in Requests, Alone(r), NEW d
    PROVE  /\ Waiting(req'[r]) /\ req'[r].chain[req'[r].pos] = d =>
                Calling(d)' = Without(r, d) \cup {r}
           /\ ~(Waiting(req'[r]) /\ req'[r].chain[req'[r].pos] = d) =>
                Calling(d)' = Without(r, d)
<1>1. \A q \in Requests :
        /\ q \in Calling(d)' <=> Waiting(req'[q]) /\ req'[q].chain[req'[q].pos] = d
        /\ q \in Calling(d) <=> Waiting(req[q]) /\ req[q].chain[req[q].pos] = d
  BY DEF Calling, Waiting, BackendOf
<1>2. Calling(d)' \subseteq Requests /\ Calling(d) \subseteq Requests
  BY DEF Calling
<1>3. \A q \in Requests \ {r} : q \in Calling(d)' <=> q \in Calling(d)
  BY <1>1 DEF Alone
<1> QED
  BY <1>1, <1>2, <1>3 DEF Without

\* A step of r that starts no call, with the counts it leaves behind.
LEMMA NoCallAccounted ==
    ASSUME NEW r \in Requests, Alone(r), ~Waiting(req'[r]),
           OthersBalanced(inFlight', r), UNCHANGED <<leaked, forgotten>>
    PROVE  InFlightAccounted'
<1>1. \A d \in Deployments : Calling(d)' = Without(r, d)
  BY CallsOfOthers
<1> QED
  BY <1>1 DEF OthersBalanced, InFlightAccounted, Balanced

LEMMA LoopAccounted ==
    ASSUME TypeOK, NEW r \in Requests, NEW chain \in Seq(Backends), NEW i \in Nat \ {0},
           NEW n \in Nat, NEW br, NEW load \in [Deployments -> Nat],
           OthersBalanced(load, r), Loop(r, chain, i, n, br, load),
           UNCHANGED <<leaked, forgotten>>
    PROVE  InFlightAccounted'
<1>1. CASE GivesUp(r, chain, i, br, load)
  BY <1>1, NoCallAccounted DEF GivesUp, Waiting
<1>2. CASE \E j \in i .. Len(chain) : Calls(r, chain, i, j, n, br, load)
  <2>1. PICK j \in i .. Len(chain) : Calls(r, chain, i, j, n, br, load)
    BY <1>2
  <2>2. /\ Alone(r) /\ Waiting(req'[r]) /\ req'[r].chain[req'[r].pos] = chain[j]
        /\ inFlight' = NoteStart(load, chain[j])
    BY <2>1 DEF Calls, Becomes, Sending, Waiting
  <2> SUFFICES ASSUME NEW d \in Deployments
               PROVE  Balanced(inFlight'[d], Calling(d)', leaked'[d], d \in forgotten')
    BY DEF InFlightAccounted, Balanced
  <2>3. Balanced(load[d], Without(r, d), leaked[d], d \in forgotten)
    BY DEF OthersBalanced
  <2>4. CASE chain[j] = d
    <3>1. Calling(d)' = Without(r, d) \cup {r}
      BY <2>2, <2>4, CallsOfOthers
    <3>2. Without(r, d) \in SUBSET Requests /\ r \notin Without(r, d)
      BY DEF Without, Calling
    <3>3. Cardinality(Calling(d)') = Cardinality(Without(r, d)) + 1 /\ Cardinality(Without(r, d)) \in Nat
      BY <3>1, <3>2, CallsCount
    <3>4. inFlight'[d] = load[d] + 1
      BY <2>2, <2>4 DEF NoteStart
    <3>5. load[d] \in Nat /\ leaked[d] \in Nat
      BY DEF TypeOK
    <3> QED
      BY <2>3, <3>3, <3>4, <3>5 DEF Balanced
  <2>5. CASE chain[j] # d
    <3>1. Calling(d)' = Without(r, d)
      BY <2>2, <2>5, CallsOfOthers
    <3>2. inFlight'[d] = load[d]
      BY <2>2, <2>5 DEF NoteStart
    <3> QED
      BY <2>3, <3>1, <3>2
  <2> QED
    BY <2>4, <2>5
<1> QED
  BY <1>1, <1>2, LoopEffect

\* A step of r that leaves its call as it is, or that has nothing to do with one.
LEMMA SameCalls ==
    ASSUME InFlightAccounted, NEW r \in Requests, Alone(r),
           Waiting(req'[r]) <=> Waiting(req[r]),
           Waiting(req[r]) => req'[r].chain = req[r].chain /\ req'[r].pos = req[r].pos,
           UNCHANGED <<inFlight, leaked, forgotten>>
    PROVE  InFlightAccounted'
<1>1. ASSUME NEW d \in Deployments
      PROVE  Calling(d)' = Calling(d)
  <2>1. Calling(d) \subseteq Requests
    BY DEF Calling
  <2>2. r \in Calling(d) <=> Waiting(req[r]) /\ req[r].chain[req[r].pos] = d
    BY DEF Calling, Waiting, BackendOf
  <2>3. CASE r \in Calling(d)
    <3>1. Calling(d)' = Without(r, d) \cup {r}
      BY <2>2, <2>3, CallsOfOthers
    <3> QED
      BY <2>1, <2>3, <3>1 DEF Without
  <2>4. CASE r \notin Calling(d)
    <3>1. Calling(d)' = Without(r, d)
      BY <2>2, <2>4, CallsOfOthers
    <3> QED
      BY <2>1, <2>4, <3>1 DEF Without
  <2> QED
    BY <2>3, <2>4
<1> QED
  BY <1>1 DEF InFlightAccounted

LEMMA ExecuteAccounted ==
    ASSUME Courses, InFlightAccounted, NEW r \in Requests, Execute(r)
    PROVE  InFlightAccounted'
<1>1. TypeOK /\ req[r] \in Request /\ ~Waiting(req[r])
  BY DEF Courses, TypeOK, Execute, Waiting
<1>2. req[r].chain \in Seq(Backends) /\ inFlight \in [Deployments -> Nat]
  BY <1>1, RequestFields DEF TypeOK
<1>3. OthersBalanced(inFlight, r)
  <2>1. \A d \in Deployments : Without(r, d) = Calling(d)
    BY <1>1 DEF Without, Calling, Waiting
  <2> QED
    BY <2>1, AccountsBalanced DEF OthersBalanced
<1>4. Loop(r, req[r].chain, 1, 0, breaker, inFlight) /\ UNCHANGED <<leaked, forgotten>>
  BY DEF Execute, history
<1>5. 1 \in Nat \ {0} /\ 0 \in Nat
  OBVIOUS
<1> QED
  BY <1>1, <1>2, <1>3, <1>4, <1>5, LoopAccounted

LEMMA ExhaustedAccounted ==
    ASSUME Courses, InFlightAccounted, NEW r \in Requests, AttemptsExhausted(r)
    PROVE  InFlightAccounted'
<1> DEFINE load == NoteEnd(inFlight, BackendOf(r))
           br == AfterFailure(CandidateProvider(r))
           i == req[r].pos + 1
           n == req[r].sends
<1>1. TypeOK /\ req[r] \in Request /\ Waiting(req[r])
  BY DEF Courses, TypeOK, AttemptsExhausted, Waiting
<1>2. /\ req[r].chain \in Seq(Backends) /\ load \in [Deployments -> Nat]
      /\ i \in Nat \ {0} /\ n \in Nat
  BY <1>1, RequestFields, LoadTypes DEF TypeOK
<1>3. OthersBalanced(load, r)
  BY <1>1, CallEnds
<1>4. Loop(r, req[r].chain, i, n, br, load) /\ UNCHANGED <<leaked, forgotten>>
  BY DEF AttemptsExhausted, history
<1> HIDE DEF load, br, i, n
<1> QED
  BY <1>1, <1>2, <1>3, <1>4, LoopAccounted

\* A success, and a refusal that is relayed: note_end is called for the call.
LEMMA AnswerAccounted ==
    ASSUME Courses, InFlightAccounted, NEW r \in Requests, AttemptOk(r) \/ AttemptRejected(r)
    PROVE  InFlightAccounted'
<1>1. /\ TypeOK /\ AllOnCourse /\ Waiting(req[r])
      /\ inFlight' = NoteEnd(inFlight, BackendOf(r)) /\ UNCHANGED <<leaked, forgotten>>
  BY DEF Courses, AttemptOk, AttemptRejected, Waiting, history
<1>2. Alone(r) /\ ~Waiting(req'[r])
  BY <1>1, FinishEffect DEF AttemptOk, AttemptRejected, Waiting
<1>3. OthersBalanced(inFlight', r)
  BY <1>1, CallEnds
<1> QED
  BY <1>1, <1>2, <1>3, NoCallAccounted

\* The call that ends without note_end is one of the leaked ones.
LEMMA RaisesAccounted ==
    ASSUME Courses, InFlightAccounted, NEW r \in Requests, AttemptRaises(r)
    PROVE  InFlightAccounted'
<1>1. /\ TypeOK /\ AllOnCourse /\ Waiting(req[r])
      /\ leaked' = NoteStart(leaked, BackendOf(r)) /\ UNCHANGED <<inFlight, forgotten>>
  BY DEF Courses, AttemptRaises, Waiting, stats
<1>2. Alone(r) /\ ~Waiting(req'[r])
  BY <1>1, FinishEffect DEF AttemptRaises, Waiting
<1> SUFFICES ASSUME NEW d \in Deployments
             PROVE  Balanced(inFlight'[d], Calling(d)', leaked'[d], d \in forgotten')
  BY DEF InFlightAccounted, Balanced
<1>3. Balanced(inFlight[d], Calling(d), leaked[d], d \in forgotten)
  BY AccountsBalanced
<1>4. Calling(d)' = Without(r, d)
  BY <1>2, CallsOfOthers
<1>5. /\ Calling(d) \in SUBSET Requests /\ (r \in Calling(d) <=> BackendOf(r) = d)
      /\ inFlight[d] \in Nat /\ leaked[d] \in Nat
  BY <1>1 DEF Calling, Waiting, TypeOK
<1>6. CASE BackendOf(r) = d
  <2>1. Cardinality(Without(r, d)) = Cardinality(Calling(d)) - 1 /\ Cardinality(Calling(d)) \in Nat
    BY <1>5, <1>6, CallsCount DEF Without
  <2>2. leaked'[d] = leaked[d] + 1
    BY <1>1, <1>6 DEF NoteStart, TypeOK
  <2> QED
    BY <1>1, <1>3, <1>4, <1>5, <2>1, <2>2 DEF Balanced
<1>7. CASE BackendOf(r) # d
  <2>1. Without(r, d) = Calling(d)
    BY <1>5, <1>7 DEF Without
  <2>2. leaked'[d] = leaked[d]
    BY <1>1, <1>7 DEF NoteStart, TypeOK
  <2> QED
    BY <1>1, <1>3, <1>4, <2>1, <2>2
<1> QED
  BY <1>6, <1>7

LEMMA ReloadAccounted ==
    ASSUME Courses, InFlightAccounted, NEW t \in Tables, Reload(t)
    PROVE  InFlightAccounted'
<1>1. UNCHANGED req /\ \A d \in Deployments : Calling(d)' = Calling(d)
  BY DEF Reload, Calling, BackendOf
<1> SUFFICES ASSUME NEW d \in Deployments
             PROVE  Balanced(inFlight'[d], Calling(d)', leaked'[d], d \in forgotten')
  BY DEF InFlightAccounted, Balanced
<1>2. Balanced(inFlight[d], Calling(d), leaked[d], d \in forgotten)
  BY AccountsBalanced
<1>3. CASE d \in t.live
  BY <1>1, <1>2, <1>3 DEF Reload, Balanced
<1>4. CASE d \notin t.live
  <2>1. inFlight'[d] = 0 /\ leaked'[d] = 0
    BY <1>4 DEF Reload
  <2>2. d \notin forgotten' => Calling(d) = {}
    BY <1>4 DEF Reload
  <2>3. Cardinality(Calling(d)) \in Nat /\ (Calling(d) = {} => Cardinality(Calling(d)) = 0)
    <3>1. IsFiniteSet(Calling(d))
      BY FallbackAssumption, FS_Subset DEF Calling
    <3> QED
      BY <3>1, FS_CardinalityType, FS_EmptySet
  <2> QED
    BY <1>1, <2>1, <2>2, <2>3 DEF Balanced
<1> QED
  BY <1>3, <1>4

Accounted == Courses /\ InFlightAccounted

LEMMA InitAccounted == Init => Accounted
<1> SUFFICES ASSUME Init
             PROVE  InFlightAccounted
  BY InitCourses DEF Accounted
<1>1. \A d \in Deployments : Calling(d) = {} /\ inFlight[d] = 0 /\ leaked[d] = 0
  BY UnsentFacts DEF Init, Calling
<1> QED
  BY <1>1, FS_EmptySet DEF InFlightAccounted

LEMMA NextAccounted == Accounted /\ [Next]_vars => Accounted'
<1> SUFFICES ASSUME Courses, InFlightAccounted, [Next]_vars
             PROVE  InFlightAccounted'
  BY NextCourses DEF Accounted
<1>1. CASE UNCHANGED vars
  BY <1>1 DEF vars, stats, history, InFlightAccounted, Calling, BackendOf
<1>2. ASSUME NEW r \in Requests, NEW ask \in Asks,
             NEW chain \in build_candidates(ask, table.enabled, inFlight, sampled),
             Build(r, chain)
      PROVE  InFlightAccounted'
  <2>1. Alone(r) /\ ~Waiting(req[r]) /\ ~Waiting(req'[r])
    BY <1>2, BuildCourses DEF Waiting, Build
  <2>2. UNCHANGED <<inFlight, leaked, forgotten>>
    BY <1>2 DEF Build, stats, history
  <2> QED
    BY <2>1, <2>2, SameCalls
<1>3. ASSUME NEW r \in Requests, AttemptTransient(r) \/ Retry(r)
      PROVE  InFlightAccounted'
  <2>1. /\ Alone(r) /\ Waiting(req[r]) /\ Waiting(req'[r])
        /\ req'[r].chain = req[r].chain /\ req'[r].pos = req[r].pos
    <3>1. CASE AttemptTransient(r)
      BY <3>1, TransientCourses DEF Waiting, AttemptTransient
    <3>2. CASE Retry(r)
      BY <3>2, RetryCourses DEF Waiting, Retry
    <3> QED
      BY <1>3, <3>1, <3>2
  <2>2. UNCHANGED <<inFlight, leaked, forgotten>>
    BY <1>3 DEF AttemptTransient, Retry, stats, history
  <2> QED
    BY <2>1, <2>2, SameCalls
<1>4. CASE Tick
  BY <1>4 DEF Tick, stats, history, InFlightAccounted, Calling, BackendOf
<1> QED
  BY <1>1, <1>2, <1>3, <1>4, ExecuteAccounted, ExhaustedAccounted, AnswerAccounted,
     RaisesAccounted, ReloadAccounted
     DEF Next, Answer

\* Fallback.AccountInv (note_start and note_end): the balancer's count of a
\* deployment is the number of requests waiting for it and of the leaked calls,
\* and never more, whatever reloads and failures happen in between.
THEOREM AccountHolds == Spec => []AccountInv
<1>1. Accounted => AccountInv
  BY DEF Accounted, Courses, AccountInv
<1> QED
  BY <1>1, InitAccounted, NextAccounted, PTL DEF Spec

(***************************************************************************)
(* The order of a chain.                                                   *)
(***************************************************************************)
LEMMA LoopNeverBuilds ==
    ASSUME TypeOK, NEW r \in Requests, NEW chain \in Seq(Backends), NEW i \in Nat \ {0},
           NEW n \in Nat, NEW br, NEW load, Loop(r, chain, i, n, br, load)
    PROVE  Alone(r) /\ req'[r].pc # "built"
<1>1. ASSUME NEW j \in i .. Len(chain), Calls(r, chain, i, j, n, br, load)
      PROVE  Alone(r) /\ req'[r].pc # "built"
  BY <1>1 DEF Calls, Becomes, Sending
<1>2. ASSUME GivesUp(r, chain, i, br, load)
      PROVE  Alone(r) /\ req'[r].pc # "built"
  BY <1>2 DEF GivesUp
<1> QED
  BY <1>1, <1>2, LoopEffect

\* Only build_candidates gives an idle request its chain.
LEMMA OnlyBuildBuilds ==
    ASSUME Courses, [Next]_vars, NEW r \in Requests, req[r].pc = "idle", req'[r].pc = "built"
    PROVE  \E ask \in Asks :
              \E chain \in build_candidates(ask, table.enabled, inFlight, sampled) : Build(r, chain)
<1> DEFINE Goal ==
             \E ask \in Asks :
                \E chain \in build_candidates(ask, table.enabled, inFlight, sampled) : Build(r, chain)
<1>1. TypeOK /\ AllOnCourse
  BY DEF Courses
<1>2. ASSUME NEW q \in Requests, Alone(q), q = r => req'[q].pc # "built"
      PROVE  FALSE
  BY <1>2 DEF Alone
<1>3. ASSUME NEW q \in Requests, NEW ask \in Asks,
             NEW chain \in build_candidates(ask, table.enabled, inFlight, sampled),
             Build(q, chain)
      PROVE  Goal
  <2>1. Alone(q)
    BY <1>3, BuildCourses
  <2>2. q = r
    BY <2>1 DEF Alone
  <2> QED
    BY <1>3, <2>2
<1>4. ASSUME NEW q \in Requests, Execute(q)
      PROVE  FALSE
  <2>1. req[q].chain \in Seq(Backends) /\ 1 \in Nat \ {0} /\ 0 \in Nat
    BY <1>1, RequestFields DEF TypeOK
  <2>2. Loop(q, req[q].chain, 1, 0, breaker, inFlight)
    BY <1>4 DEF Execute
  <2> QED
    BY <1>1, <1>2, <2>1, <2>2, LoopNeverBuilds
<1>5. ASSUME NEW q \in Requests, AttemptsExhausted(q)
      PROVE  FALSE
  <2> DEFINE load == NoteEnd(inFlight, BackendOf(q))
             br == AfterFailure(CandidateProvider(q))
             i == req[q].pos + 1
             n == req[q].sends
  <2>1. req[q].chain \in Seq(Backends) /\ i \in Nat \ {0} /\ n \in Nat
    BY <1>1, RequestFields DEF TypeOK
  <2>2. Loop(q, req[q].chain, i, n, br, load)
    BY <1>5 DEF AttemptsExhausted
  <2> HIDE DEF load, br, i, n
  <2> QED
    BY <1>1, <1>2, <2>1, <2>2, LoopNeverBuilds
<1>6. ASSUME NEW q \in Requests, AttemptOk(q) \/ AttemptRejected(q) \/ AttemptRaises(q)
      PROVE  FALSE
  <2>1. Alone(q) /\ req'[q].pc = "idle"
    BY <1>1, <1>6, FinishEffect DEF AttemptOk, AttemptRejected, AttemptRaises
  <2> QED
    BY <1>2, <2>1
<1>7. ASSUME NEW q \in Requests, AttemptTransient(q) \/ Retry(q)
      PROVE  FALSE
  <2>1. Alone(q) /\ req'[q].pc # "built"
    <3>1. CASE AttemptTransient(q)
      BY <3>1, TransientCourses
    <3>2. CASE Retry(q)
      BY <3>2, RetryCourses
    <3> QED
      BY <1>7, <3>1, <3>2
  <2> QED
    BY <1>2, <2>1
<1>8. ASSUME UNCHANGED req
      PROVE  FALSE
  BY <1>8
<1>9. Goal
  BY <1>3, <1>4, <1>5, <1>6, <1>7, <1>8 DEF Next, Answer, Reload, Tick, vars
<1> QED
  BY <1>9

LEMMA OrderedByCalls ==
    ASSUME Accounted, NEW r \in Requests, NEW ask \in Asks,
           NEW chain \in build_candidates(ask, table.enabled, inFlight, sampled),
           Strategy = "least-busy",
           NEW i \in DOMAIN chain, NEW j \in DOMAIN chain, i < j,
           chain[i] \in Deployments \ forgotten, leaked[chain[i]] = 0,
           chain[j] \in Deployments \ forgotten, leaked[chain[j]] = 0,
           ModelOf[chain[i]] = ModelOf[chain[j]]
    PROVE  Cardinality(Calling(chain[i])) <= Cardinality(Calling(chain[j]))
<1>1. table.enabled \in SUBSET Deployments /\ inFlight \in [Deployments -> Nat]
  BY FallbackAssumption DEF Accounted, Courses, TypeOK
<1>2. Precedes(ask, chain[i], chain[j], inFlight, sampled)
  BY <1>1, ChainFacts
<1>3. ~NamedBefore(ask, ModelOf[chain[i]], ModelOf[chain[j]])
  <2>1. DOMAIN ask = 1 .. Len(ask) /\ Len(ask) \in Nat
    BY FallbackAssumption
  <2> QED
    BY <2>1 DEF NamedBefore
<1>4. inFlight[chain[i]] <= inFlight[chain[j]]
  BY <1>2, <1>3 DEF Precedes, InOrder
<1>5. ASSUME NEW d \in Deployments \ forgotten, leaked[d] = 0
      PROVE  inFlight[d] = Cardinality(Calling(d))
  <2>1. Calling(d) \in SUBSET Requests
    BY DEF Calling
  <2>2. Cardinality(Calling(d)) \in Nat
    BY <2>1, CallsCount
  <2> QED
    BY <1>5, <2>2 DEF Accounted, InFlightAccounted
<1> QED
  BY <1>4, <1>5

\* Fallback.LeastBusyFirst (order): the balancer's snapshot of the load is the
\* load there is when the chain is built, so a model's deployments come in the
\* order of the calls really under way.
THEOREM LeastBusyHolds == Spec => LeastBusyFirst
<1> DEFINE Sorted ==
      \A r \in Requests :
         LET chain == req'[r].chain
             counted(i) == chain[i] \in Deployments \ forgotten /\ leaked[chain[i]] = 0
         IN  req[r].pc = "idle" /\ req'[r].pc = "built" /\ Strategy = "least-busy" =>
               \A i, j \in DOMAIN chain :
                  i < j /\ counted(i) /\ counted(j) /\ ModelOf[chain[i]] = ModelOf[chain[j]] =>
                     Cardinality(Calling(chain[i])) <= Cardinality(Calling(chain[j]))
<1>1. Accounted /\ [Next]_vars => Sorted
  <2> SUFFICES ASSUME Accounted, [Next]_vars, NEW r \in Requests,
                      req[r].pc = "idle", req'[r].pc = "built", Strategy = "least-busy",
                      NEW i \in DOMAIN req'[r].chain, NEW j \in DOMAIN req'[r].chain, i < j,
                      req'[r].chain[i] \in Deployments \ forgotten, leaked[req'[r].chain[i]] = 0,
                      req'[r].chain[j] \in Deployments \ forgotten, leaked[req'[r].chain[j]] = 0,
                      ModelOf[req'[r].chain[i]] = ModelOf[req'[r].chain[j]]
               PROVE  Cardinality(Calling(req'[r].chain[i])) <= Cardinality(Calling(req'[r].chain[j]))
    OBVIOUS
  <2>1. PICK ask \in Asks : \E chain \in build_candidates(ask, table.enabled, inFlight, sampled) : Build(r, chain)
    BY OnlyBuildBuilds DEF Accounted
  <2>2. PICK chain \in build_candidates(ask, table.enabled, inFlight, sampled) : Build(r, chain)
    BY <2>1
  <2>3. req'[r].chain = chain
    BY <2>2, BuildCourses DEF Accounted
  <2> QED
    BY <2>2, <2>3, OrderedByCalls
<1>2. Spec => [][Sorted]_vars
  <2> HIDE DEF Sorted
  <2> QED
    BY <1>1, InitAccounted, NextAccounted, PTL DEF Spec
<1> QED
  BY <1>2 DEF LeastBusyFirst

(***************************************************************************)
(* The requests drive the breaker as CircuitBreaker says, step by step.    *)
(***************************************************************************)
LEMMA SameBreaker ==
    /\ Driven!Closed = Closed
    /\ \A s : /\ Driven!IsOpen(s) <=> IsOpen(s)
             /\ Driven!Checked(s) = Checked(s)
             /\ Driven!Succeeded(s) = Succeeded(s)
             /\ Driven!Failed(s) = Failed(s)
             /\ Driven!Aged(s) = Aged(s)
    /\ \A n : Driven!Longer(n) = Longer(n)
BY DEF Driven!Closed, Closed, Driven!IsOpen, IsOpen, Driven!Checked, Checked,
       Driven!Succeeded, Succeeded, Driven!Failed, Failed, Driven!Aged, Aged,
       Driven!Longer, Longer, Driven!Opened, Opened, Driven!Expired, Expired,
       Driven!NotOpened, NotOpened

\* Where a step of r leaves it.
LEMMA ProviderCalled ==
    ASSUME NEW r \in Requests, Alone(r)
    PROVE  CallingProvider' =
             [CallingProvider EXCEPT ![r] =
                IF Waiting(req'[r]) THEN ProviderOf[req'[r].chain[req'[r].pos]] ELSE NoProvider]
<1>1. \A q \in Requests :
        CallingProvider'[q] = IF Waiting(req'[q]) THEN ProviderOf[req'[q].chain[req'[q].pos]]
                                                  ELSE NoProvider
  BY DEF CallingProvider, CandidateProvider, BackendOf, Waiting
<1>2. \A q \in Requests :
        CallingProvider[q] = IF Waiting(req[q]) THEN ProviderOf[req[q].chain[req[q].pos]]
                                                ELSE NoProvider
  BY DEF CallingProvider, CandidateProvider, BackendOf, Waiting
<1>3. \A q \in Requests \ {r} : CallingProvider'[q] = CallingProvider[q]
  BY <1>1, <1>2 DEF Alone
<1>4. CallingProvider' = [q \in Requests |-> CallingProvider'[q]]
      /\ CallingProvider = [q \in Requests |-> CallingProvider[q]]
  BY DEF CallingProvider
<1> QED
  BY <1>1, <1>3, <1>4

LEMMA StartsDriven ==
    ASSUME Courses, NEW r \in Requests, Execute(r)
    PROVE  Driven!Next \/ UNCHANGED Driven!vars
<1> DEFINE chain == req[r].chain
<1>1. TypeOK /\ req[r] \in Request /\ ~Waiting(req[r])
  BY DEF Courses, TypeOK, Execute, Waiting
<1>2. chain \in Seq(Backends) /\ Loop(r, chain, 1, 0, breaker, inFlight) /\ UNCHANGED streak
  BY <1>1, RequestFields DEF Execute
<1>3. CallingProvider[r] = NoProvider
  BY <1>1 DEF CallingProvider, Waiting
<1> HIDE DEF chain
<1>4. ASSUME NEW j \in 1 .. Len(chain), Calls(r, chain, 1, j, 0, breaker, inFlight)
      PROVE  Driven!Next
  <2> DEFINE p == ProviderOf[chain[j]]
  <2>1. p \in Providers
    BY <1>2, ChainElements
  <2>2. /\ Alone(r) /\ Waiting(req'[r]) /\ req'[r].chain[req'[r].pos] = chain[j]
        /\ ~IsOpen(breaker[p]) /\ breaker' = [breaker EXCEPT ![p] = Checked(@)]
    BY <1>4 DEF Calls, Becomes, Sending, Waiting, FirstAdmitted
  <2>3. CallingProvider' = [CallingProvider EXCEPT ![r] = p]
    BY <2>2, ProviderCalled
  <2> HIDE DEF p
  <2>4. Driven!Admit(r, p)
    BY <1>2, <1>3, <2>2, <2>3, SameBreaker DEF Driven!Admit
  <2> QED
    BY <2>1, <2>4 DEF Driven!Next, Driven!CallStep
<1>5. ASSUME GivesUp(r, chain, 1, breaker, inFlight)
      PROVE  UNCHANGED Driven!vars
  <2>1. CallingProvider' = [CallingProvider EXCEPT ![r] = NoProvider] /\ UNCHANGED breaker
    BY <1>5, ProviderCalled DEF GivesUp, Waiting
  <2>2. CallingProvider' = CallingProvider
    BY <1>3, <2>1 DEF CallingProvider
  <2> QED
    BY <1>2, <2>1, <2>2 DEF Driven!vars
<1>6. 1 \in Nat \ {0} /\ 0 \in Nat
  OBVIOUS
<1> QED
  BY <1>1, <1>2, <1>4, <1>5, <1>6, LoopEffect

LEMMA ExhaustedDriven ==
    ASSUME Courses, NEW r \in Requests, AttemptsExhausted(r)
    PROVE  Driven!Next
<1> DEFINE chain == req[r].chain
           p == CandidateProvider(r)
           br == AfterFailure(p)
           load == NoteEnd(inFlight, BackendOf(r))
           i == req[r].pos + 1
           n == req[r].sends
<1>1. TypeOK /\ req[r] \in Request /\ Waiting(req[r])
  BY DEF Courses, TypeOK, AttemptsExhausted, Waiting
<1>2. chain \in Seq(Backends) /\ i \in Nat \ {0} /\ n \in Nat /\ p \in Providers
  BY <1>1, RequestFields, WaitingFor
<1>3. CallingProvider[r] = p
  BY <1>1 DEF CallingProvider, Waiting
<1>4. /\ Loop(r, chain, i, n, br, load)
      /\ streak' = [streak EXCEPT ![p] = Longer(@)]
  BY DEF AttemptsExhausted
<1>5. br = [breaker EXCEPT ![p] = Failed(@)]
  BY DEF AfterFailure
<1> HIDE DEF chain, p, br, load, i, n
<1>6. ASSUME NEW j \in i .. Len(chain), Calls(r, chain, i, j, n, br, load)
      PROVE  Driven!Next
  <2> DEFINE q == ProviderOf[chain[j]]
  <2>1. q \in Providers
    <3>1. j \in 1 .. Len(chain)
      BY <1>2, ChainElements
    <3> QED
      BY <1>2, <3>1, ChainElements
  <2>2. /\ Alone(r) /\ Waiting(req'[r]) /\ req'[r].chain[req'[r].pos] = chain[j]
        /\ ~IsOpen(br[q]) /\ breaker' = [br EXCEPT ![q] = Checked(@)]
    BY <1>6 DEF Calls, Becomes, Sending, Waiting, FirstAdmitted
  <2>3. CallingProvider' = [CallingProvider EXCEPT ![r] = q]
    BY <2>2, ProviderCalled
  <2> HIDE DEF q
  <2>4. Driven!FailOver(r, p, q)
    BY <1>3, <1>4, <1>5, <2>2, <2>3, SameBreaker DEF Driven!FailOver
  <2> QED
    BY <1>2, <2>1, <2>4 DEF Driven!Next, Driven!CallStep
<1>7. ASSUME GivesUp(r, chain, i, br, load)
      PROVE  Driven!Next
  <2>1. CallingProvider' = [CallingProvider EXCEPT ![r] = NoProvider] /\ breaker' = br
    BY <1>7, ProviderCalled DEF GivesUp, Waiting
  <2>2. Driven!Fail(r, p)
    BY <1>3, <1>4, <1>5, <2>1, SameBreaker DEF Driven!Fail
  <2> QED
    BY <1>2, <2>2 DEF Driven!Next, Driven!CallStep
<1> QED
  BY <1>1, <1>2, <1>4, <1>6, <1>7, LoopEffect

\* A call that ends for the request: with a verdict, or without one.
LEMMA EndsDriven ==
    ASSUME Courses, NEW r \in Requests, AttemptOk(r) \/ AttemptRejected(r) \/ AttemptRaises(r)
    PROVE  Driven!Next
<1> DEFINE p == CandidateProvider(r)
<1>1. TypeOK /\ AllOnCourse /\ Waiting(req[r])
  BY DEF Courses, AttemptOk, AttemptRejected, AttemptRaises, Waiting
<1>2. p \in Providers /\ CallingProvider[r] = p
  BY <1>1, WaitingFor DEF CallingProvider, Waiting
<1>3. Alone(r) /\ ~Waiting(req'[r])
  BY <1>1, FinishEffect DEF AttemptOk, AttemptRejected, AttemptRaises, Waiting
<1>4. CallingProvider' = [CallingProvider EXCEPT ![r] = NoProvider]
  BY <1>3, ProviderCalled
<1> HIDE DEF p
<1>5. CASE AttemptOk(r)
  <2>1. Driven!Succeed(r, p)
    BY <1>2, <1>4, <1>5, SameBreaker DEF Driven!Succeed, AttemptOk, RecordSuccess, p
  <2> QED
    BY <1>2, <2>1 DEF Driven!Next, Driven!CallStep
<1>6. CASE AttemptRejected(r) \/ AttemptRaises(r)
  <2>1. Driven!Abandon(r, p)
    BY <1>2, <1>4, <1>6 DEF Driven!Abandon, AttemptRejected, AttemptRaises
  <2> QED
    BY <1>2, <2>1 DEF Driven!Next, Driven!CallStep
<1> QED
  BY <1>5, <1>6

\* A step that neither starts nor ends a call.
LEMMA StaysDriven ==
    ASSUME NEW r \in Requests, Alone(r), Waiting(req'[r]) <=> Waiting(req[r]),
           Waiting(req[r]) => req'[r].chain = req[r].chain /\ req'[r].pos = req[r].pos,
           UNCHANGED <<breaker, streak>>
    PROVE  UNCHANGED Driven!vars
<1>1. CallingProvider[r] = IF Waiting(req'[r]) THEN ProviderOf[req'[r].chain[req'[r].pos]]
                                              ELSE NoProvider
  BY DEF CallingProvider, CandidateProvider, BackendOf, Waiting
<1>2. CallingProvider' = [CallingProvider EXCEPT ![r] = CallingProvider[r]]
  BY <1>1, ProviderCalled
<1>3. CallingProvider' = CallingProvider
  BY <1>2 DEF CallingProvider
<1> QED
  BY <1>3 DEF Driven!vars

LEMMA InitDriven == Init => Driven!Init
BY SameBreaker, UnsentFacts DEF Init, Driven!Init, CallingProvider

LEMMA NextDriven == Courses /\ [Next]_vars => [Driven!Next]_Driven!vars
<1> SUFFICES ASSUME Courses, [Next]_vars
             PROVE  Driven!Next \/ UNCHANGED Driven!vars
  OBVIOUS
<1>1. CASE UNCHANGED vars
  BY <1>1 DEF vars, Driven!vars, CallingProvider, CandidateProvider, BackendOf
<1>2. ASSUME NEW r \in Requests, NEW ask \in Asks,
             NEW chain \in build_candidates(ask, table.enabled, inFlight, sampled),
             Build(r, chain)
      PROVE  UNCHANGED Driven!vars
  <2>1. Alone(r) /\ ~Waiting(req[r]) /\ ~Waiting(req'[r])
    BY <1>2, BuildCourses DEF Waiting, Build
  <2> QED
    BY <1>2, <2>1, StaysDriven DEF Build
<1>3. ASSUME NEW r \in Requests, AttemptTransient(r) \/ Retry(r)
      PROVE  UNCHANGED Driven!vars
  <2>1. /\ Alone(r) /\ Waiting(req[r]) /\ Waiting(req'[r])
        /\ req'[r].chain = req[r].chain /\ req'[r].pos = req[r].pos
    <3>1. CASE AttemptTransient(r)
      BY <3>1, TransientCourses DEF Waiting, AttemptTransient
    <3>2. CASE Retry(r)
      BY <3>2, RetryCourses DEF Waiting, Retry
    <3> QED
      BY <1>3, <3>1, <3>2
  <2> QED
    BY <1>3, <2>1, StaysDriven DEF AttemptTransient, Retry
<1>4. ASSUME NEW t \in Tables, Reload(t)
      PROVE  UNCHANGED Driven!vars
  BY <1>4 DEF Reload, Driven!vars, CallingProvider, CandidateProvider, BackendOf
<1>5. CASE Tick
  <2>1. Driven!Tick
    BY <1>5, SameBreaker DEF Tick, Driven!Tick, CallingProvider, CandidateProvider, BackendOf
  <2> QED
    BY <2>1 DEF Driven!Next
<1> QED
  BY <1>1, <1>2, <1>3, <1>4, <1>5, StartsDriven, ExhaustedDriven, EndsDriven DEF Next, Answer

\* The safety part of Fallback.DrivesBreaker (is_open, record_success and
\* record_failure as execute_with_fallback calls them): every step of a request
\* is a step of CircuitBreaker's callers or none of the breaker's business.
THEOREM DrivesBreakerSafely == Spec => Driven!Init /\ [][Driven!Next]_Driven!vars
<1> QED
  BY InitCourses, NextCourses, InitDriven, NextDriven, PTL DEF Spec

===============================================================================
