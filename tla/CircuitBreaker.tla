---------------------------- MODULE CircuitBreaker ----------------------------
(***************************************************************************)
(* The per-provider circuit breaker shared by the concurrent requests of   *)
(* one gateway process (app/router/health.py, as app/resilience/fallback.py *)
(* drives it).  A request asks is_open, calls the provider, and only later *)
(* - other requests run in between - records how the call went.            *)
(***************************************************************************)
EXTENDS Breaker, FiniteSets

CONSTANTS
    Providers,
    Callers,       \* the requests the process may serve at the same time
    NoProvider     \* a request that is not waiting for any provider

ASSUME CallersAssumption ==
    /\ IsFiniteSet(Callers)
    /\ NoProvider \notin Providers

VARIABLES
    breaker,   \* CircuitBreaker._states
    at,        \* the provider each request is waiting for
    streak     \* history: failures in a row, saturated at FailThreshold

vars == <<breaker, at, streak>>

CallsTo(p) == {c \in Callers : at[c] = p}

Streaks == 0 .. FailThreshold

TypeOK ==
    /\ breaker \in [Providers -> ProviderState]
    /\ at \in [Callers -> Providers \cup {NoProvider}]
    /\ streak \in [Providers -> Streaks]

Init ==
    /\ breaker = [p \in Providers |-> Closed]
    /\ at = [c \in Callers |-> NoProvider]
    /\ streak = [p \in Providers |-> 0]

Longer(n) == IF n < FailThreshold THEN n + 1 ELSE n

\* A request finds p's circuit closed, or half-opens it, and calls p.
Admit(c, p) ==
    /\ at[c] = NoProvider
    /\ ~IsOpen(breaker[p])
    /\ breaker' = [breaker EXCEPT ![p] = Checked(@)]
    /\ at' = [at EXCEPT ![c] = p]
    /\ UNCHANGED streak

\* The call succeeds: record_success.
Succeed(c, p) ==
    /\ at[c] = p
    /\ breaker' = [breaker EXCEPT ![p] = Succeeded(@)]
    /\ at' = [at EXCEPT ![c] = NoProvider]
    /\ streak' = [streak EXCEPT ![p] = 0]

\* The call fails for good and the request gives up: record_failure.
Fail(c, p) ==
    /\ at[c] = p
    /\ breaker' = [breaker EXCEPT ![p] = Failed(@)]
    /\ at' = [at EXCEPT ![c] = NoProvider]
    /\ streak' = [streak EXCEPT ![p] = Longer(@)]

\* The call fails and the request moves on to q without letting another
\* request run: record_failure(p), then is_open(q) in the same step.
FailOver(c, p, q) ==
    LET failed == [breaker EXCEPT ![p] = Failed(@)]
    IN  /\ at[c] = p
        /\ ~IsOpen(failed[q])
        /\ breaker' = [failed EXCEPT ![q] = Checked(@)]
        /\ at' = [at EXCEPT ![c] = q]
        /\ streak' = [streak EXCEPT ![p] = Longer(@)]

\* The call ends without a verdict on the provider: an upstream 4xx is
\* relayed, or an unexpected exception propagates.
Abandon(c, p) ==
    /\ at[c] = p
    /\ at' = [at EXCEPT ![c] = NoProvider]
    /\ UNCHANGED <<breaker, streak>>

\* Time passes for the circuits that are open.
Tick ==
    /\ \E p \in Providers : Aged(breaker[p]) # breaker[p]
    /\ breaker' = [p \in Providers |-> Aged(breaker[p])]
    /\ UNCHANGED <<at, streak>>

CallStep(c, p) ==
    \/ Admit(c, p)
    \/ Succeed(c, p)
    \/ Fail(c, p)
    \/ Abandon(c, p)
    \/ \E q \in Providers : FailOver(c, p, q)

Next == Tick \/ \E c \in Callers, p \in Providers : CallStep(c, p)

\* Time passes by itself; nothing else is assumed to happen.
Spec == Init /\ [][Next]_vars /\ WF_vars(Tick)

-------------------------------------------------------------------------------
\* A provider is hammered by no more than the calls that were already under
\* way when its circuit opened: however the requests interleave, at most
\* FailThreshold - 1 failures are counted before the last caller gets in, and
\* one more for each of them ("enough to stop hammering a down provider").
BoundedHammering ==
    \A p \in Providers :
        breaker[p].failures <= FailThreshold - 1 + Cardinality(Callers)

\* A circuit is open only after fail_threshold consecutive failures of its
\* provider, with no success recorded in between, whatever the order in which
\* concurrent calls report.
OpenOnlyAfterStreak ==
    \A p \in Providers : Opened(breaker[p]) => streak[p] = FailThreshold

\* An open circuit lets requests through again, although a late failure
\* restarts its window: only the calls under way when it opened can do that.
ReopensForTrial ==
    \A p \in Providers : IsOpen(breaker[p]) ~> ~IsOpen(breaker[p])

\* The inductive invariant behind the first two: the room left for failures
\* of an open circuit is held by the calls still under way, and the failures
\* counted are part of the current streak.
HammeringInv ==
    \A p \in Providers :
        IF Opened(breaker[p])
          THEN breaker[p].failures + Cardinality(CallsTo(p))
                 <= FailThreshold - 1 + Cardinality(Callers)
          ELSE breaker[p].failures <= FailThreshold - 1

StreakInv ==
    \A p \in Providers :
        IF Opened(breaker[p])
          THEN streak[p] = FailThreshold
          ELSE breaker[p].failures <= streak[p]

\* HammeringInv for an expired circuit bounds only the calls admitted before
\* it expired, which are all there are: a check half-opens it first.
IInv == TypeOK /\ HammeringInv /\ StreakInv
===============================================================================
