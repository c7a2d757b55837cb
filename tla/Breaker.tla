------------------------------- MODULE Breaker -------------------------------
(***************************************************************************)
(* The data type behind app/router/health.py: what the circuit breaker     *)
(* keeps about one provider, and what is_open, record_success and          *)
(* record_failure do to it.                                                *)
(*                                                                         *)
(* The code stores the monotonic time the circuit opened at; the           *)
(* specification stores the ticks elapsed since, saturated at              *)
(* ResetTimeout (is_open only asks whether that much has passed).          *)
(***************************************************************************)
EXTENDS Integers

CONSTANTS
    FailThreshold,   \* fail_threshold: failures that open the circuit
    ResetTimeout     \* reset_timeout, in ticks of the clock

ASSUME BreakerAssumption ==
    /\ FailThreshold \in Nat \ {0}
    /\ ResetTimeout \in Nat \ {0}

NotOpened == -1      \* opened_at is None

\* _ProviderState: a failure count and the age of the open circuit.
ProviderState == [failures : Nat, age : NotOpened .. ResetTimeout]

\* Mutant: the count starts one too low.
Closed_OffByOne == [failures |-> -1, age |-> NotOpened]

\* A provider the breaker has no entry for reads like a fresh one.
Closed == [failures |-> 0, age |-> NotOpened]

Opened(s) == s.age # NotOpened
Expired(s) == s.age = ResetTimeout

\* Mutant: the reset timeout is never looked at.
IsOpen_Forever(s) == Opened(s)

\* is_open's answer: open, and not yet for as long as reset_timeout.
IsOpen(s) == Opened(s) /\ ~Expired(s)

\* Mutant: half-opening forgets the opening time only.
Checked_KeepsFailures(s) ==
    IF Opened(s) /\ Expired(s) THEN [s EXCEPT !.age = NotOpened] ELSE s

\* is_open's side effect: an expired circuit half-opens, which forgets both
\* the opening time and the failures.
Checked(s) == IF Opened(s) /\ Expired(s) THEN Closed ELSE s

\* Mutant: a success does not break the series of failures.
Succeeded_KeepsFailures(s) == [s EXCEPT !.age = NotOpened]

\* record_success
Succeeded(s) == Closed

\* record_failure: reaching the threshold (re)starts the open window, also
\* when the circuit is open already.
Failed(s) ==
    [failures |-> s.failures + 1,
     age |-> IF s.failures + 1 >= FailThreshold THEN 0 ELSE s.age]

\* The clock moves on by one tick.
Aged(s) == IF Opened(s) /\ ~Expired(s) THEN [s EXCEPT !.age = @ + 1] ELSE s
==============================================================================
