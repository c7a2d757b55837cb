------------------------- MODULE CircuitBreakerProofs -------------------------
(***************************************************************************)
(* Proofs about CircuitBreaker, for every number of providers, requests,   *)
(* thresholds and timeouts.                                                *)
(***************************************************************************)
EXTENDS CircuitBreaker, FiniteSetTheorems, TLAPS

(***************************************************************************)
(* What the operations of one provider's state return.                     *)
(***************************************************************************)
LEMMA ClosedState == Closed \in ProviderState /\ ~Opened(Closed)
BY BreakerAssumption DEF Closed, ProviderState, Opened, NotOpened

LEMMA CheckedState ==
    ASSUME NEW s \in ProviderState, ~IsOpen(s)
    PROVE  /\ Checked(s) \in ProviderState
           /\ ~Opened(Checked(s))
           /\ Checked(s) = Closed \/ (Checked(s) = s /\ ~Opened(s))
BY ClosedState DEF IsOpen, Checked

LEMMA FailedState ==
    ASSUME NEW s \in ProviderState
    PROVE  /\ Failed(s) \in ProviderState
           /\ Failed(s).failures = s.failures + 1
           /\ s.failures + 1 >= FailThreshold => IsOpen(Failed(s))
           /\ s.failures + 1 < FailThreshold => Failed(s).age = s.age
BY BreakerAssumption
   DEF ProviderState, Failed, IsOpen, Opened, Expired, NotOpened

LEMMA AgedState ==
    ASSUME NEW s \in ProviderState
    PROVE  /\ Aged(s) \in ProviderState
           /\ Aged(s).failures = s.failures
           /\ Opened(Aged(s)) <=> Opened(s)
BY BreakerAssumption
   DEF ProviderState, Aged, Opened, Expired, NotOpened

(***************************************************************************)
(* The calls to a provider are a finite set no larger than Callers.        *)
(***************************************************************************)
LEMMA CallsFinite ==
    ASSUME NEW p
    PROVE  /\ IsFiniteSet(CallsTo(p))
           /\ Cardinality(CallsTo(p)) \in Nat
           /\ Cardinality(Callers) \in Nat
           /\ Cardinality(CallsTo(p)) <= Cardinality(Callers)
<1>1. CallsTo(p) \in SUBSET Callers
  BY DEF CallsTo
<1>2. IsFiniteSet(Callers)
  BY CallersAssumption
<1>3. IsFiniteSet(CallsTo(p)) /\ Cardinality(CallsTo(p)) <= Cardinality(Callers)
  BY <1>1, <1>2, FS_Subset
<1> QED
  BY <1>2, <1>3, FS_CardinalityType

(***************************************************************************)
(* The type invariant.                                                     *)
(***************************************************************************)
LEMMA InitTypeOK == Init => TypeOK
BY BreakerAssumption, ClosedState DEF Init, TypeOK, Streaks

LEMMA NextTypeOK == TypeOK /\ [Next]_vars => TypeOK'
<1> SUFFICES ASSUME TypeOK, [Next]_vars PROVE TypeOK'
  OBVIOUS
<1> USE BreakerAssumption DEF TypeOK, Streaks
<1>1. CASE Tick
  BY <1>1, AgedState DEF Tick
<1>2. ASSUME NEW c \in Callers, NEW p \in Providers, CallStep(c, p)
      PROVE  TypeOK'
  <2>1. CASE Admit(c, p)
    BY <2>1, CheckedState DEF Admit
  <2>2. CASE Succeed(c, p)
    BY <2>2, ClosedState DEF Succeed, Succeeded
  <2>3. CASE Fail(c, p)
    BY <2>3, FailedState DEF Fail, Longer
  <2>4. CASE Abandon(c, p)
    BY <2>4 DEF Abandon
  <2>5. ASSUME NEW q \in Providers, FailOver(c, p, q)
        PROVE  TypeOK'
    <3> DEFINE failed == [breaker EXCEPT ![p] = Failed(@)]
    <3>1. failed \in [Providers -> ProviderState]
      BY FailedState
    <3>2. breaker' \in [Providers -> ProviderState]
      BY <3>1, <2>5, CheckedState DEF FailOver
    <3> QED
      BY <3>2, <2>5 DEF FailOver, Longer
  <2> QED
    BY <1>2, <2>1, <2>2, <2>3, <2>4, <2>5 DEF CallStep
<1>3. CASE UNCHANGED vars
  BY <1>3 DEF vars
<1> QED
  BY <1>1, <1>2, <1>3 DEF Next

\* The breaker's state, the requests' whereabouts and the history keep their
\* types.
THEOREM TypeCorrect == Spec => []TypeOK
BY InitTypeOK, NextTypeOK, PTL DEF Spec

(***************************************************************************)
(* The inductive invariant, one provider at a time.                        *)
(***************************************************************************)
LEMMA InitIInv == Init => HammeringInv /\ StreakInv
BY BreakerAssumption, ClosedState
   DEF Init, HammeringInv, StreakInv, Closed

LEMMA NextIInv == IInv /\ TypeOK' /\ [Next]_vars => HammeringInv' /\ StreakInv'
<1> SUFFICES ASSUME TypeOK, HammeringInv, StreakInv, TypeOK', [Next]_vars
             PROVE  HammeringInv' /\ StreakInv'
  BY DEF IInv
<1> DEFINE
      Hammered(x) ==
        IF Opened(breaker[x])
          THEN breaker[x].failures + Cardinality(CallsTo(x))
                 <= FailThreshold - 1 + Cardinality(Callers)
          ELSE breaker[x].failures <= FailThreshold - 1
      Streaked(x) ==
        IF Opened(breaker[x]) THEN streak[x] = FailThreshold
                              ELSE breaker[x].failures <= streak[x]
      Good(x) == Hammered(x) /\ Streaked(x)
<1>1. \A x \in Providers : Good(x)
  BY DEF HammeringInv, StreakInv
<1>2. SUFFICES ASSUME NEW x \in Providers PROVE Good(x)'
  BY DEF HammeringInv, StreakInv
<1>3. /\ breaker[x] \in ProviderState /\ breaker[x].failures \in Nat
      /\ streak[x] \in Streaks
      /\ Cardinality(CallsTo(x)) \in Nat
      /\ Cardinality(CallsTo(x)) <= Cardinality(Callers)
      /\ Cardinality(Callers) \in Nat
  BY CallsFinite DEF TypeOK, ProviderState
<1>4. ~Opened(Closed) /\ Closed.failures = 0
  BY ClosedState DEF Closed
\* The calls to x when a request leaves p for q (or for nobody).
<1>Left. ASSUME NEW c \in Callers, NEW p, NEW q, p # q,
                at[c] = p, at' = [at EXCEPT ![c] = q]
         PROVE  /\ x = p => Cardinality(CallsTo(x)') = Cardinality(CallsTo(x)) - 1
                /\ x # p /\ x # q => CallsTo(x)' = CallsTo(x)
  <2>1. x = p => CallsTo(x)' = CallsTo(x) \ {c} /\ c \in CallsTo(x)
    BY <1>Left DEF CallsTo, TypeOK
  <2>2. IsFiniteSet(CallsTo(x))
    BY CallsFinite
  <2>3. c \in CallsTo(x) =>
          Cardinality(CallsTo(x) \ {c}) = Cardinality(CallsTo(x)) - 1
    BY <2>2, FS_RemoveElement
  <2>4. x # p /\ x # q => CallsTo(x)' = CallsTo(x)
    BY <1>Left DEF CallsTo, TypeOK
  <2> QED
    BY <2>1, <2>3, <2>4
<1>5. ASSUME breaker'[x] = breaker[x], streak'[x] = streak[x],
             CallsTo(x)' = CallsTo(x) \/ ~Opened(breaker[x])
      PROVE  Good(x)'
  BY <1>1, <1>5
<1>6. ASSUME breaker'[x] = Closed PROVE Good(x)'
  BY <1>4, <1>6, BreakerAssumption DEF TypeOK, Streaks
\* A failure of x recorded by a caller that leaves x.
<1>7. ASSUME NEW c \in Callers, NEW q \in Providers \cup {NoProvider},
             at[c] = x, at' = [at EXCEPT ![c] = q], q # x,
             breaker'[x] = Failed(breaker[x]), streak'[x] = Longer(streak[x])
      PROVE  Good(x)'
  <2>1. Cardinality(CallsTo(x)') = Cardinality(CallsTo(x)) - 1
    BY <1>7, <1>Left
  <2>2. CASE breaker[x].failures + 1 >= FailThreshold
    <3>1. IsOpen(breaker'[x]) /\ breaker'[x].failures = breaker[x].failures + 1
      BY <2>2, <1>3, <1>7, FailedState
    <3>2. Hammered(x)'
      BY <3>1, <2>1, <1>1, <1>3, BreakerAssumption DEF IsOpen
    <3>3. Streaked(x)'
      BY <3>1, <2>2, <1>1, <1>3, <1>7, BreakerAssumption
         DEF IsOpen, Longer, Streaks
    <3> QED
      BY <3>2, <3>3
  <2>3. CASE breaker[x].failures + 1 < FailThreshold
    <3>1. /\ breaker'[x].failures = breaker[x].failures + 1
          /\ Opened(breaker'[x]) <=> Opened(breaker[x])
      BY <2>3, <1>3, <1>7, FailedState DEF Opened
    <3>2. Hammered(x)'
      BY <3>1, <2>1, <2>3, <1>1, <1>3, BreakerAssumption
    <3>3. Streaked(x)'
      BY <3>1, <2>3, <1>1, <1>3, <1>7, BreakerAssumption DEF Longer, Streaks
    <3> QED
      BY <3>2, <3>3
  <2> QED
    BY <2>2, <2>3, <1>3, BreakerAssumption
<1>8. CASE Tick
  BY <1>8, <1>1, <1>3, AgedState DEF Tick, CallsTo
<1>9. ASSUME NEW c \in Callers, NEW p \in Providers, CallStep(c, p)
      PROVE  Good(x)'
  <2>1. CASE Admit(c, p)
    <3>1. CASE x = p
      BY <3>1, <2>1, <1>3, <1>5, <1>6, CheckedState DEF Admit, TypeOK
    <3>2. CASE x # p
      <4>1. CallsTo(x)' = CallsTo(x)
        BY <3>2, <2>1, CallersAssumption DEF Admit, CallsTo, TypeOK
      <4> QED
        BY <4>1, <3>2, <2>1, <1>5 DEF Admit, TypeOK
    <3> QED
      BY <3>1, <3>2
  <2>2. CASE Succeed(c, p)
    <3>1. x # p => CallsTo(x)' = CallsTo(x)
      BY <2>2, <1>Left, CallersAssumption DEF Succeed
    <3> QED
      BY <3>1, <2>2, <1>5, <1>6 DEF Succeed, Succeeded, TypeOK
  <2>3. CASE Fail(c, p)
    <3>1. x # p => CallsTo(x)' = CallsTo(x)
      BY <2>3, <1>Left, CallersAssumption DEF Fail
    <3>2. x = p => Good(x)'
      BY <2>3, <1>7, CallersAssumption DEF Fail, TypeOK
    <3> QED
      BY <3>1, <3>2, <2>3, <1>5 DEF Fail, TypeOK
  <2>4. CASE Abandon(c, p)
    <3>1. /\ at[c] = p /\ at' = [at EXCEPT ![c] = NoProvider]
          /\ breaker' = breaker /\ streak' = streak
      BY <2>4 DEF Abandon
    <3>2. /\ x = p => Cardinality(CallsTo(x)') = Cardinality(CallsTo(x)) - 1
          /\ x # p => CallsTo(x)' = CallsTo(x)
      BY <3>1, <1>Left, CallersAssumption
    <3>3. Cardinality(CallsTo(x)') <= Cardinality(CallsTo(x))
          /\ Cardinality(CallsTo(x)') \in Int
      BY <3>2, <1>3
    <3>4. breaker'[x] = breaker[x] /\ streak'[x] = streak[x]
      BY <3>1
    <3> QED
      BY <3>3, <3>4, <1>1, <1>3, BreakerAssumption
  <2>5. ASSUME NEW q \in Providers, FailOver(c, p, q)
        PROVE  Good(x)'
    <3> DEFINE failed == [breaker EXCEPT ![p] = Failed(@)]
    <3>1. failed \in [Providers -> ProviderState]
      BY FailedState DEF TypeOK
    <3>2. /\ at[c] = p /\ ~IsOpen(failed[q])
          /\ breaker' = [failed EXCEPT ![q] = Checked(@)]
          /\ at' = [at EXCEPT ![c] = q]
          /\ streak' = [streak EXCEPT ![p] = Longer(@)]
      BY <2>5 DEF FailOver
    <3>3. CASE x = q /\ x # p
      <4>1. failed[x] = breaker[x] /\ streak'[x] = streak[x]
        BY <3>2, <3>3 DEF TypeOK
      <4> QED
        BY <4>1, <3>1, <3>2, <3>3, <1>3, <1>5, <1>6, CheckedState
    <3>4. CASE x = q /\ x = p
      <4>1. failed[x] = Failed(breaker[x]) /\ streak'[x] = Longer(streak[x])
        BY <3>2, <3>4 DEF TypeOK
      <4>2. breaker'[x] = Closed \/ (breaker'[x] = failed[x] /\ ~Opened(failed[x]))
        BY <3>1, <3>2, <3>4, CheckedState
      <4>3. CASE breaker'[x] = failed[x] /\ ~Opened(failed[x])
        <5>1. /\ breaker[x].failures + 1 < FailThreshold
              /\ failed[x].failures = breaker[x].failures + 1
              /\ ~Opened(breaker[x])
          BY <4>1, <4>3, <1>3, FailedState, BreakerAssumption
             DEF IsOpen, Opened
        <5> QED
          BY <5>1, <4>1, <4>3, <1>1, <1>3, BreakerAssumption
             DEF Longer, Streaks
      <4> QED
        BY <4>2, <4>3, <1>6
    <3>5. CASE x = p /\ x # q
      BY <3>1, <3>2, <3>5, <1>7 DEF TypeOK
    <3>6. CASE x # p /\ x # q
      <4>1. p # q => CallsTo(x)' = CallsTo(x)
        BY <3>2, <3>6, <1>Left
      <4>2. p = q => at' = at
        BY <3>2 DEF TypeOK
      <4>3. CallsTo(x)' = CallsTo(x)
        BY <4>1, <4>2 DEF CallsTo
      <4> QED
        BY <4>3, <3>1, <3>2, <3>6, <1>5 DEF TypeOK
    <3> QED
      BY <3>3, <3>4, <3>5, <3>6
  <2> QED
    BY <1>9, <2>1, <2>2, <2>3, <2>4, <2>5 DEF CallStep
<1>10. CASE UNCHANGED vars
  BY <1>10, <1>5 DEF vars, CallsTo
<1> QED
  BY <1>8, <1>9, <1>10 DEF Next

LEMMA Inductive == Spec => []IInv
<1>1. Init => IInv
  BY InitTypeOK, InitIInv DEF IInv
<1>2. IInv /\ [Next]_vars => IInv'
  BY NextTypeOK, NextIInv DEF IInv
<1> QED
  BY <1>1, <1>2, PTL DEF Spec

\* However many requests fail concurrently and in whatever order they report,
\* a provider suffers no more than FailThreshold - 1 failures plus one for
\* each request the process serves before it is left alone.
THEOREM HammeringBounded == Spec => []BoundedHammering
<1>1. IInv => BoundedHammering
  <2> SUFFICES ASSUME IInv, NEW p \in Providers
               PROVE  breaker[p].failures
                        <= FailThreshold - 1 + Cardinality(Callers)
    BY DEF BoundedHammering
  <2>1. breaker[p].failures \in Nat /\ HammeringInv
    BY DEF IInv, TypeOK, ProviderState
  <2> QED
    BY <2>1, CallsFinite, BreakerAssumption DEF HammeringInv
<1> QED
  BY <1>1, Inductive, PTL

\* A circuit is open only after FailThreshold consecutive failures.
THEOREM OpensAfterStreak == Spec => []OpenOnlyAfterStreak
<1>1. IInv => OpenOnlyAfterStreak
  BY DEF IInv, StreakInv, OpenOnlyAfterStreak
<1> QED
  BY <1>1, Inductive, PTL
===============================================================================
