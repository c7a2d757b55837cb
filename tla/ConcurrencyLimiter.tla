-------------------------- MODULE ConcurrencyLimiter --------------------------
(***************************************************************************)
(* The per-key cap on requests in flight: ConcurrencyLimiter               *)
(* (app/core/concurrency.py) and the way create_chat_completion            *)
(* (app/api/chat.py) acquires and releases a slot around a request,        *)
(* while an admin changes the cap of the key.                              *)
(***************************************************************************)
EXTENDS Naturals, FiniteSets

CONSTANTS
    Keys,       \* the virtual keys
    Requests,   \* the requests the process may serve at the same time
    LimitsOf,   \* the caps an admin may give each key; 0 for no cap
    NoKey

ASSUME LimiterAssumption ==
    /\ IsFiniteSet(Requests)
    /\ LimitsOf \in [Keys -> (SUBSET Nat) \ {{}}]
    /\ NoKey \notin Keys

VARIABLES
    cap,        \* virtual_keys.max_concurrency in the database
    inflight,   \* ConcurrencyLimiter._inflight, 0 for a key it does not hold
    req         \* the requests: phase, key, and the key's cap when it was resolved

vars == <<cap, inflight, req>>

Limits == UNION {LimitsOf[k] : k \in Keys}
Caps == {c \in [Keys -> Limits] : \A k \in Keys : c[k] \in LimitsOf[k]}

Request ==
    [pc : {"idle", "resolved", "running", "streaming"},
     key : Keys \cup {NoKey}, limit : Limits \cup {0}]

TypeOK ==
    /\ cap \in Caps
    /\ inflight \in [Keys -> Nat]
    /\ req \in [Requests -> Request]

Idle == [pc |-> "idle", key |-> NoKey, limit |-> 0]

Init ==
    /\ cap \in Caps
    /\ inflight = [k \in Keys |-> 0]
    /\ req = [r \in Requests |-> Idle]

\* acquire refuses when the cap is reached; a limit of 0 (or None) is no cap,
\* and then nothing is counted.
\* Mutant: the comparison lets one too many in.
Full_OffByOne(k, limit) == limit > 0 /\ inflight[k] > limit

Full(k, limit) == limit > 0 /\ inflight[k] >= limit
Counted(limit) == limit > 0

\* Mutant: release does not stop at zero.
Release_NoFloor(k) == inflight' = [inflight EXCEPT ![k] = @ - 1]

\* release: whether or not the request was counted.
Release(k) ==
    inflight' = [inflight EXCEPT ![k] = IF @ <= 1 THEN 0 ELSE @ - 1]

\* require_key resolves the key to a KeyContext, a snapshot of its settings.
Resolve(r, k) ==
    /\ req[r].pc = "idle"
    /\ req' = [req EXCEPT ![r] = [pc |-> "resolved", key |-> k, limit |-> cap[k]]]
    /\ UNCHANGED <<cap, inflight>>

\* The request ends before it is admitted: one of the checks before the cap
\* (model, budget, guardrail, rate, tokens), or the cap itself.
Reject(r) ==
    /\ req[r].pc = "resolved"
    /\ req' = [req EXCEPT ![r] = Idle]
    /\ UNCHANGED <<cap, inflight>>

Acquire(r) ==
    LET k == req[r].key
    IN  /\ req[r].pc = "resolved"
        /\ ~Full(k, req[r].limit)
        /\ req' = [req EXCEPT ![r].pc = "running"]
        /\ inflight' = IF Counted(req[r].limit)
                         THEN [inflight EXCEPT ![k] = @ + 1] ELSE inflight
        /\ UNCHANGED cap

\* Every way out of the try block but one ends in its finally clause.
Finish(r) ==
    /\ req[r].pc = "running"
    /\ req' = [req EXCEPT ![r] = Idle]
    /\ Release(req[r].key)
    /\ UNCHANGED cap

\* Mutant: the finally clause releases the slot of a stream it handed off too.
HandOff_Releases(r) ==
    /\ req[r].pc = "running"
    /\ req' = [req EXCEPT ![r].pc = "streaming"]
    /\ Release(req[r].key)
    /\ UNCHANGED cap

\* The stream's first chunk is there: the response object takes over the slot.
HandOff(r) ==
    /\ req[r].pc = "running"
    /\ req' = [req EXCEPT ![r].pc = "streaming"]
    /\ UNCHANGED <<cap, inflight>>

\* Mutant: a stream that breaks off keeps its slot.
StreamDone_KeepsSlot(r) ==
    /\ req[r].pc = "streaming"
    /\ req' = [req EXCEPT ![r] = Idle]
    /\ UNCHANGED <<cap, inflight>>

\* The stream ends, fails or is closed: on_done runs.
StreamDone(r) ==
    /\ req[r].pc = "streaming"
    /\ req' = [req EXCEPT ![r] = Idle]
    /\ Release(req[r].key)
    /\ UNCHANGED cap

\* An admin changes the cap (PATCH /admin/keys): requests already resolved
\* keep the one they saw.
Patch(k, limit) ==
    /\ cap[k] # limit
    /\ cap' = [cap EXCEPT ![k] = limit]
    /\ UNCHANGED <<inflight, req>>

Next ==
    \/ \E r \in Requests :
         \/ \E k \in Keys : Resolve(r, k)
         \/ Reject(r) \/ Acquire(r) \/ Finish(r) \/ HandOff(r) \/ StreamDone(r)
    \/ \E k \in Keys : \E limit \in LimitsOf[k] : Patch(k, limit)

Spec == Init /\ [][Next]_vars

-------------------------------------------------------------------------------
Active(k) ==
    {r \in Requests : req[r].pc \in {"running", "streaming"} /\ req[r].key = k}

CountedActive(k) == {r \in Active(k) : Counted(req[r].limit)}

\* No slot is ever lost: a key is charged for no more requests than it has
\* under way, on whatever path they end and whatever the admin does to its
\* cap.  A lost slot would lock requests of the key out for good.
NoGhostSlots == \A k \in Keys : inflight[k] <= Cardinality(CountedActive(k))

\* A key that an admin never leaves without a cap.
AlwaysCapped(k) == 0 \notin LimitsOf[k]

\* "Tracks in-flight requests per virtual key": for a key that stays capped,
\* at whatever caps, the count is exact: every path gives back the slot it
\* took, once, and a hand-off to a stream moves it.
CounterExact ==
    \A k \in Keys : AlwaysCapped(k) => inflight[k] = Cardinality(Active(k))

\* A request of such a key is admitted only if, with it, no more requests of
\* the key are under way than the cap it was resolved with, which another
\* request may have seen otherwise.
NoOverbooking ==
    [][\A r \in Requests :
         LET k == req[r].key
         IN  req[r].pc = "resolved" /\ req'[r].pc = "running" /\ AlwaysCapped(k)
               => Cardinality(Active(k)') <= req[r].limit]_vars

\* The inductive invariant behind them: besides the counts, a request under
\* way carries a cap that its key may have.
Snapshots ==
    \A r \in Requests :
        req[r].pc # "idle" => req[r].key \in Keys /\ req[r].limit \in LimitsOf[req[r].key]

IInv == TypeOK /\ Snapshots /\ NoGhostSlots /\ CounterExact
===============================================================================
