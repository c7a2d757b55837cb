-------------------------- MODULE BudgetLedgerProofs --------------------------
(***************************************************************************)
(* Proofs about BudgetLedger, for every set of scopes, keys and requests,  *)
(* and for all budgets and limits.                                         *)
(***************************************************************************)
EXTENDS BudgetLedger, FiniteSetTheorems, TLAPS

(***************************************************************************)
(* Where a request may be, and what it carries on its way.                 *)
(***************************************************************************)
Unanswered == {"resolving", "resolved", "metering", "serving", "embedding"}

OnItsWay(r) ==
    /\ req[r].pc # "idle" => req[r].key \in Keys
    /\ req[r].pc \in {"resolving", "alerting", "posting"} => req[r].at > 0
    /\ req[r].pc = "posting" => req[r].at <= Len(MyScopes(r))
    /\ req[r].pc \in Unanswered \ {"resolving"} => req[r].at > Len(MyScopes(r))
    /\ req[r].pc \in Unanswered => ~req[r].served
    /\ ~req[r].served => req[r].tokens = 0
    /\ req[r].pc = "recording" => req[r].served
    /\ req[r].pc \in {"resolving", "resolved", "embedding"} => req[r].limit = 0
    /\ req[r].pc \in {"metering", "serving", "embedding"} => ~BudgetExceeded(r)

Routed == TypeOK /\ \A r \in Requests : OnItsWay(r)

LEMMA ScopesFacts ==
    ASSUME NEW k \in Keys
    PROVE  /\ ScopesOf[k] \in Seq(Scopes)
           /\ Len(ScopesOf[k]) \in Nat
           /\ DOMAIN ScopesOf[k] = 1 .. Len(ScopesOf[k])
           /\ Charged(k) \subseteq Scopes
           /\ \A i \in 1 .. Len(ScopesOf[k]) :
                 ScopesOf[k][i] \in Scopes /\ ScopesOf[k][i] \in Charged(k)
BY BudgetAssumption DEF Charged

LEMMA ChargeType ==
    ASSUME NEW ledger \in [Scopes -> Nat], NEW k, NEW n \in Nat
    PROVE  Charge(ledger, k, n) \in [Scopes -> Nat]
BY DEF Charge

\* A request's record with some of its fields changed.
LEMMA RequestFields ==
    ASSUME NEW x \in Request
    PROVE  /\ x.pc \in Phases /\ x.key \in Keys \cup {NoKey} /\ x.at \in Nat
           /\ x.seen \in [Scopes -> Nat] /\ x.limit \in Nat /\ x.tokens \in 0 .. MaxTokens
           /\ x.served \in BOOLEAN
BY DEF Request

LEMMA IdleIsRequest == Idle \in Request
BY BudgetAssumption DEF Idle, Request, Phases

\* What a step of one request may change of the others.
Alone(r) == \A q \in Requests \ {r} : req'[q] = req[q]

\* ... and of itself, between its reading and its answer.
Keeps(r) == req'[r].key = req[r].key /\ req'[r].seen = req[r].seen

Steady(r) == req'[r].limit = req[r].limit

Moves(r, pc) ==
    /\ req' \in [Requests -> Request]
    /\ Alone(r)
    /\ Keeps(r)
    /\ req'[r].pc = pc
    /\ req'[r].at = req[r].at /\ req'[r].tokens = req[r].tokens /\ req'[r].served = req[r].served

Ends(r) == req' \in [Requests -> Request] /\ Alone(r) /\ req'[r] = Idle

LEMMA Ending ==
    ASSUME TypeOK, NEW r \in Requests, req' = [req EXCEPT ![r] = Idle]
    PROVE  Ends(r)
BY IdleIsRequest DEF TypeOK, Ends, Alone

LEMMA Moving ==
    ASSUME TypeOK, NEW r \in Requests, NEW pc \in Phases, req' = [req EXCEPT ![r].pc = pc]
    PROVE  Moves(r, pc) /\ Steady(r)
<1>1. req[r] \in Request
  BY DEF TypeOK
<1>2. [req[r] EXCEPT !.pc = pc] \in Request
  BY <1>1 DEF Request
<1>3. /\ req'[r] = [req[r] EXCEPT !.pc = pc] /\ Alone(r)
      /\ req' \in [Requests -> Request]
  BY <1>2 DEF TypeOK, Alone
<1> QED
  BY <1>1, <1>3 DEF Moves, Keeps, Steady, Request

LEMMA MinuteFields ==
    ASSUME NEW x \in Minute PROVE x.strict \in Nat /\ x.other \in Nat
BY DEF Minute

LEMMA MeteringEffect ==
    ASSUME TypeOK, NEW r \in Requests, NEW last \in Minute
    PROVE  /\ Metering(last, r) \in Minute
           /\ Metering(last, r).strict =
                IF Strict(r) THEN last.strict + req[r].tokens ELSE last.strict
<1>1. req[r].tokens \in Nat
  BY BudgetAssumption, RequestFields DEF TypeOK
<1>2. /\ last.strict \in Nat /\ last.other \in Nat
      /\ last.strict + req[r].tokens \in Nat /\ last.other + req[r].tokens \in Nat
  BY <1>1, MinuteFields
<1> QED
  BY <1>2 DEF Metering, Minute

(***************************************************************************)
(* What each step does to the request that takes it.                       *)
(***************************************************************************)
LEMMA ResolveEffect ==
    ASSUME TypeOK, NEW r \in Requests, NEW k \in Keys, Resolve(r, k)
    PROVE  /\ req' \in [Requests -> Request] /\ Alone(r)
           /\ req'[r].pc = "resolving" /\ req'[r].key = k /\ req'[r].at = 1
           /\ req'[r].seen = [s \in Scopes |-> 0] /\ req'[r].limit = 0
           /\ req'[r].tokens = 0 /\ ~req'[r].served
<1> DEFINE new == [Idle EXCEPT !.pc = "resolving", !.key = k, !.at = 1]
<1>1. /\ Idle.seen = [s \in Scopes |-> 0] /\ Idle.limit = 0
      /\ Idle.tokens = 0 /\ Idle.served = FALSE
  BY DEF Idle
<1>2. new \in Request
  BY IdleIsRequest DEF Request, Phases
<1>3. req'[r] = new /\ Alone(r) /\ req' \in [Requests -> Request]
  BY <1>2 DEF Resolve, TypeOK, Alone
<1> QED
  BY <1>1, <1>3, IdleIsRequest DEF Request

LEMMA ReadUsageEffect ==
    ASSUME TypeOK, NEW r \in Requests, OnItsWay(r), ReadUsage(r)
    PROVE  /\ ScopeAt(r) \in Scopes
           /\ req' \in [Requests -> Request] /\ Alone(r)
           /\ req'[r].pc = "resolving" /\ req'[r].key = req[r].key
           /\ req'[r].at = req[r].at + 1
           /\ req'[r].seen = [req[r].seen EXCEPT ![ScopeAt(r)] = spent[ScopeAt(r)]]
           /\ Steady(r) /\ req'[r].tokens = req[r].tokens /\ req'[r].served = req[r].served
<1> DEFINE s == ScopeAt(r)
           new == [req[r] EXCEPT !.seen = [@ EXCEPT ![s] = spent[s]], !.at = @ + 1]
<1>1. req[r] \in Request
  BY DEF TypeOK
<1>2. s \in Scopes
  <2>1. req[r].key \in Keys /\ req[r].at \in 1 .. Len(MyScopes(r))
    BY <1>1 DEF ReadUsage, OnItsWay, Request
  <2> QED
    BY <2>1, ScopesFacts DEF ScopeAt, MyScopes
<1>3. spent[s] \in Nat
  BY <1>2 DEF TypeOK
<1>4. req[r].seen \in [Scopes -> Nat] /\ req[r].at \in Nat
  BY <1>1 DEF Request
<1>5. [req[r].seen EXCEPT ![s] = spent[s]] \in [Scopes -> Nat] /\ req[r].at + 1 \in Nat
  <2> DEFINE seen == req[r].seen
             now == spent[s]
  <2>1. seen \in [Scopes -> Nat] /\ now \in Nat
    BY <1>3, <1>4
  <2> HIDE DEF s, seen, now
  <2>2. [seen EXCEPT ![s] = now] \in [Scopes -> Nat]
    BY <2>1
  <2> QED
    BY <1>4, <2>2 DEF seen, now
<1>6. new \in Request
  BY <1>1, <1>5 DEF Request
<1>7. req'[r] = new /\ Alone(r) /\ req' \in [Requests -> Request]
  <2>1. req' = [req EXCEPT ![r] = new]
    BY DEF ReadUsage
  <2> HIDE DEF new
  <2> QED
    BY <2>1, <1>6 DEF TypeOK, Alone
<1>8. req'[r].pc = req[r].pc /\ req[r].pc = "resolving"
  BY <1>1, <1>7 DEF ReadUsage, Request
<1> QED
  BY <1>1, <1>2, <1>7, <1>8 DEF Request, Steady

LEMMA ServeEffect ==
    ASSUME TypeOK, NEW r \in Requests, OnItsWay(r), Serve(r)
    PROVE  Moves(r, "metering")
<1>1. req[r] \in Request /\ req[r].key \in Keys
  BY DEF TypeOK, OnItsWay, Serve
<1>2. PICK m \in Models :
        req' = [req EXCEPT ![r].pc = "metering", ![r].limit = TpmLimit(req[r].key, m)]
  BY DEF Serve
<1>3. TpmLimit(req[r].key, m) \in Nat
  BY <1>1, BudgetAssumption DEF TpmLimit
<1> DEFINE l == TpmLimit(req[r].key, m)
           new == [req[r] EXCEPT !.pc = "metering", !.limit = l]
<1>4. new \in Request
  <2> HIDE DEF l
  <2> QED
    BY <1>1, <1>3 DEF l, Request, Phases
<1>5. req'[r] = new /\ Alone(r) /\ req' \in [Requests -> Request]
  BY <1>2, <1>4 DEF TypeOK, Alone
<1> QED
  BY <1>1, <1>5 DEF Moves, Keeps, Request

LEMMA AnswerEffect ==
    ASSUME TypeOK, NEW r \in Requests, NEW n \in 0 .. MaxTokens,
           Respond(r, n) \/ Embedded(r, n)
    PROVE  /\ req' \in [Requests -> Request] /\ Alone(r) /\ Keeps(r) /\ Steady(r)
           /\ req'[r].pc \in {"alerting", "recording"}
           /\ Respond(r, n) => req'[r].at = 1
           /\ Embedded(r, n) => req'[r].pc = "recording"
           /\ req'[r].tokens = n /\ req'[r].served
<1>1. req[r] \in Request
  BY DEF TypeOK
<1>2. ASSUME Respond(r, n)
      PROVE  /\ req' \in [Requests -> Request] /\ Alone(r) /\ Keeps(r) /\ Steady(r)
             /\ req'[r].pc = "alerting" /\ req'[r].at = 1
             /\ req'[r].tokens = n /\ req'[r].served
  <2> DEFINE new == [req[r] EXCEPT !.pc = "alerting", !.at = 1, !.served = TRUE, !.tokens = n]
  <2>1. new \in Request
    BY <1>1 DEF Request, Phases
  <2>2. req'[r] = new /\ Alone(r) /\ req' \in [Requests -> Request]
    BY <1>2, <2>1 DEF Respond, TypeOK, Alone
  <2> QED
    BY <1>1, <2>2 DEF Keeps, Steady, Request
<1>3. ASSUME Embedded(r, n)
      PROVE  /\ req' \in [Requests -> Request] /\ Alone(r) /\ Keeps(r) /\ Steady(r)
             /\ req'[r].pc = "recording" /\ req'[r].tokens = n /\ req'[r].served
  <2> DEFINE new == [req[r] EXCEPT !.pc = "recording", !.tokens = n, !.served = TRUE]
  <2>1. new \in Request
    BY <1>1 DEF Request, Phases
  <2>2. req'[r] = new /\ Alone(r) /\ req' \in [Requests -> Request]
    BY <1>3, <2>1 DEF Embedded, TypeOK, Alone
  <2> QED
    BY <1>1, <2>2 DEF Keeps, Steady, Request
<1>4. ~(Respond(r, n) /\ Embedded(r, n))
  BY DEF Respond, Embedded
<1> QED
  BY <1>2, <1>3, <1>4

LEMMA LimitedEffect ==
    ASSUME TypeOK, NEW r \in Requests, Limited(r)
    PROVE  /\ req' \in [Requests -> Request] /\ Alone(r) /\ Keeps(r) /\ Steady(r)
           /\ req'[r].pc = "alerting" /\ req'[r].at = 1
           /\ req'[r].tokens = req[r].tokens /\ req'[r].served = req[r].served
<1> DEFINE new == [req[r] EXCEPT !.pc = "alerting", !.at = 1]
<1>1. req[r] \in Request
  BY DEF TypeOK
<1>2. new \in Request
  BY <1>1 DEF Request, Phases
<1>3. req'[r] = new /\ Alone(r) /\ req' \in [Requests -> Request]
  BY <1>2 DEF Limited, TypeOK, Alone
<1> QED
  BY <1>1, <1>3 DEF Keeps, Steady, Request

\* The loop over the scopes goes on to the next one, after a webhook or without.
LEMMA AdvanceEffect ==
    ASSUME TypeOK, NEW r \in Requests,
           \/ req[r].pc = "alerting" /\ req' = [req EXCEPT ![r].at = @ + 1]
           \/ req' = [req EXCEPT ![r].pc = "alerting", ![r].at = @ + 1]
    PROVE  /\ req' \in [Requests -> Request] /\ Alone(r) /\ Keeps(r) /\ Steady(r)
           /\ req'[r].pc = "alerting" /\ req'[r].at = req[r].at + 1
           /\ req'[r].tokens = req[r].tokens /\ req'[r].served = req[r].served
<1> DEFINE new == [req[r] EXCEPT !.pc = "alerting", !.at = @ + 1]
<1>1. req[r] \in Request
  BY DEF TypeOK
<1>2. new \in Request
  <2>1. req[r].at + 1 \in Nat
    BY <1>1 DEF Request
  <2> QED
    BY <1>1, <2>1 DEF Request, Phases
<1>3. req' = [req EXCEPT ![r] = new]
  <2>1. req[r].pc = "alerting" => [req[r] EXCEPT !.at = @ + 1] = new
    BY <1>1 DEF Request
  <2> QED
    BY <2>1
<1>4. req'[r] = new /\ Alone(r) /\ req' \in [Requests -> Request]
  <2> HIDE DEF new
  <2> QED
    BY <1>2, <1>3 DEF TypeOK, Alone
<1> QED
  BY <1>1, <1>4 DEF Keeps, Steady, Request

(***************************************************************************)
(* The type invariant, with what a request carries.                        *)
(***************************************************************************)
LEMMA InitRouted == Init => Routed
<1> SUFFICES ASSUME Init PROVE Routed
  OBVIOUS
<1>1. TypeOK
  <2>1. NonePosted \in [Levels -> Nat]
    BY DEF NonePosted
  <2>2. [strict |-> 0, other |-> 0] \in Minute
    BY DEF Minute
  <2> QED
    BY <2>1, <2>2, IdleIsRequest DEF Init, TypeOK
<1>2. \A r \in Requests : OnItsWay(r)
  BY DEF Init, Idle, OnItsWay, Unanswered
<1> QED
  BY <1>1, <1>2 DEF Routed

LEMMA EndedOnItsWay ==
    ASSUME NEW r \in Requests, Ends(r) PROVE OnItsWay(r)'
BY DEF Ends, OnItsWay, Idle, Unanswered

LEMMA OthersOnTheirWay ==
    ASSUME NEW r \in Requests, Alone(r), NEW q \in Requests \ {r}, OnItsWay(q)
    PROVE  OnItsWay(q)'
BY DEF Alone, OnItsWay, MyScopes, BudgetExceeded, Exceeds

LEMMA ProceedRouted ==
    ASSUME Routed, NEW r \in Requests, Proceed(r)
    PROVE  req' \in [Requests -> Request] /\ Alone(r) /\ OnItsWay(r)'
<1>1. TypeOK /\ OnItsWay(r) /\ req[r] \in Request
  BY DEF Routed, TypeOK
<1> DEFINE Goal == req' \in [Requests -> Request] /\ Alone(r) /\ OnItsWay(r)'
<1>2. ASSUME Refuse(r) \/ EmbeddingFails(r) \/ RecordUsage(r) \/ RecordFails(r)
             \/ (AlertsDone(r) /\ ~req[r].served)
      PROVE  Goal
  <2>1. Ends(r)
    BY <1>1, <1>2, Ending DEF Refuse, EmbeddingFails, RecordUsage, RecordFails, AlertsDone
  <2> QED
    BY <2>1, EndedOnItsWay DEF Ends
<1>3. CASE ReadUsage(r)
  <2>1. /\ req' \in [Requests -> Request] /\ Alone(r)
        /\ req'[r].pc = "resolving" /\ req'[r].key = req[r].key
        /\ req'[r].at = req[r].at + 1 /\ req'[r].limit = req[r].limit
        /\ req'[r].tokens = req[r].tokens /\ req'[r].served = req[r].served
    BY <1>1, <1>3, ReadUsageEffect DEF Steady
  <2>2. req[r].pc = "resolving" /\ req[r].at \in Nat
    BY <1>1, <1>3, RequestFields DEF ReadUsage
  <2> QED
    BY <1>1, <2>1, <2>2 DEF OnItsWay, Unanswered
<1>4. CASE Resolved(r)
  <2>1. Moves(r, "resolved") /\ Steady(r)
    BY <1>1, <1>4, Moving DEF Resolved, Phases
  <2> QED
    BY <1>1, <1>4, <2>1 DEF Resolved, Steady, Moves, Keeps, OnItsWay, Unanswered, MyScopes
<1>5. CASE Serve(r)
  <2>1. Moves(r, "metering")
    BY <1>1, <1>5, ServeEffect
  <2> QED
    BY <1>1, <1>5, <2>1
       DEF Serve, Moves, Keeps, OnItsWay, Unanswered, MyScopes, BudgetExceeded, Exceeds
<1>6. CASE Metered(r)
  <2>1. Moves(r, "serving")
    BY <1>1, <1>6, Moving DEF Metered, Phases
  <2> QED
    BY <1>1, <1>6, <2>1
       DEF Metered, Moves, Keeps, OnItsWay, Unanswered, MyScopes, BudgetExceeded, Exceeds
<1>7. CASE Embed(r)
  <2>1. Moves(r, "embedding") /\ Steady(r)
    BY <1>1, <1>7, Moving DEF Embed, Phases
  <2> QED
    BY <1>1, <1>7, <2>1
       DEF Embed, Steady, Moves, Keeps, OnItsWay, Unanswered, MyScopes, BudgetExceeded, Exceeds
<1>8. CASE Limited(r)
  <2>1. /\ req' \in [Requests -> Request] /\ Alone(r) /\ Keeps(r)
        /\ req'[r].pc = "alerting" /\ req'[r].at = 1
        /\ req'[r].tokens = req[r].tokens /\ req'[r].served = req[r].served
    BY <1>1, <1>8, LimitedEffect
  <2> QED
    BY <1>1, <1>8, <2>1 DEF Limited, Keeps, OnItsWay, Unanswered
<1>9. ASSUME NEW n \in 0 .. MaxTokens, Respond(r, n) \/ Embedded(r, n)
      PROVE  Goal
  <2>1. /\ req' \in [Requests -> Request] /\ Alone(r) /\ Keeps(r)
        /\ \/ req'[r].pc = "alerting" /\ req'[r].at = 1
           \/ req'[r].pc = "recording"
        /\ req'[r].served
    BY <1>1, <1>9, AnswerEffect
  <2>2. req[r].pc \in {"serving", "embedding"}
    BY <1>9 DEF Respond, Embedded
  <2> QED
    BY <1>1, <2>1, <2>2 DEF Keeps, OnItsWay, Unanswered
<1>10. CASE MaybeFire(r)
  <2>1. req[r].pc = "alerting" /\ req[r].at <= Len(MyScopes(r)) /\ req[r].at \in Nat
    BY <1>1, <1>10, RequestFields DEF MaybeFire
  <2>2. CASE req' = [req EXCEPT ![r].pc = "posting"]
    <3>1. Moves(r, "posting")
      BY <1>1, <2>2, Moving DEF Phases
    <3> QED
      BY <1>1, <2>1, <3>1 DEF Moves, Keeps, OnItsWay, Unanswered, MyScopes
  <2>3. CASE req' = [req EXCEPT ![r].at = @ + 1]
    <3>1. /\ req' \in [Requests -> Request] /\ Alone(r) /\ Keeps(r)
          /\ req'[r].pc = "alerting" /\ req'[r].at = req[r].at + 1
          /\ req'[r].tokens = req[r].tokens /\ req'[r].served = req[r].served
      BY <1>1, <2>1, <2>3, AdvanceEffect
    <3> QED
      BY <1>1, <2>1, <3>1 DEF Keeps, OnItsWay, Unanswered
  <2> QED
    BY <1>10, <2>2, <2>3 DEF MaybeFire
<1>11. CASE Posted(r)
  <2>1. /\ req' \in [Requests -> Request] /\ Alone(r) /\ Keeps(r)
        /\ req'[r].pc = "alerting" /\ req'[r].at = req[r].at + 1
        /\ req'[r].tokens = req[r].tokens /\ req'[r].served = req[r].served
    BY <1>1, <1>11, AdvanceEffect DEF Posted
  <2>2. req[r].pc = "posting" /\ req[r].at \in Nat
    BY <1>1, <1>11, RequestFields DEF Posted
  <2> QED
    BY <1>1, <2>1, <2>2 DEF Keeps, OnItsWay, Unanswered
<1>12. CASE AlertsDone(r) /\ req[r].served
  <2>1. req' = [req EXCEPT ![r].pc = "recording"]
    BY <1>12 DEF AlertsDone
  <2>2. Moves(r, "recording")
    BY <1>1, <2>1, Moving DEF Phases
  <2> QED
    BY <1>1, <1>12, <2>2 DEF AlertsDone, Moves, Keeps, OnItsWay, Unanswered
<1> QED
  BY <1>2, <1>3, <1>4, <1>5, <1>6, <1>7, <1>8, <1>9, <1>10, <1>11, <1>12 DEF Proceed

\* The ledger, the histories and the markers keep their types.
LedgerTypes ==
    /\ spent \in [Scopes -> Nat] /\ consumed \in [Scopes -> Nat] /\ lost \in [Scopes -> Nat]
    /\ lately \in [Keys -> Minute]
    /\ posted \in [Scopes -> [Levels -> Nat]]
    /\ fired \subseteq Scopes \X Levels

LEMMA CrossedLevels ==
    ASSUME NEW r, NEW s
    PROVE  /\ Crossed(r, s) \subseteq Levels
           /\ \A x, y \in Crossed(r, s) : x = y
BY DEF Crossed, Levels

\* The request whose alert is due is at one of its scopes.
LEMMA AtScope ==
    ASSUME Routed, NEW r \in Requests, req[r].pc \in {"alerting", "posting"},
           req[r].at <= Len(MyScopes(r))
    PROVE  ScopeAt(r) \in Scopes /\ ScopeAt(r) \in Charged(req[r].key)
<1>1. OnItsWay(r) /\ req[r] \in Request
  BY DEF Routed, TypeOK
<1>2. req[r].key \in Keys /\ req[r].at \in 1 .. Len(MyScopes(r))
  BY <1>1 DEF OnItsWay, Request
<1> QED
  BY <1>2, ScopesFacts DEF ScopeAt, MyScopes

LEMMA ProceedTypes ==
    ASSUME Routed, NEW r \in Requests, Proceed(r)
    PROVE  LedgerTypes'
<1>1. TypeOK /\ LedgerTypes /\ OnItsWay(r) /\ req[r] \in Request
  BY DEF Routed, TypeOK, LedgerTypes
<1>2. CASE UNCHANGED <<spent, consumed, lost, lately, posted, fired>>
  BY <1>1, <1>2 DEF LedgerTypes
<1>3. ASSUME NEW n \in 0 .. MaxTokens, Respond(r, n) \/ Embedded(r, n)
      PROVE  LedgerTypes'
  <2>1. n \in Nat
    BY BudgetAssumption
  <2>2. consumed' \in [Scopes -> Nat]
    BY <1>1, <1>3, <2>1, ChargeType DEF Respond, Embedded, LedgerTypes
  <2> QED
    BY <1>1, <1>3, <2>2 DEF Respond, Embedded, LedgerTypes
<1>4. CASE MaybeFire(r)
  <2>1. ScopeAt(r) \in Scopes
    BY <1>4, AtScope DEF MaybeFire
  <2>2. fired' \subseteq Scopes \X Levels
    BY <1>1, <1>4, <2>1, CrossedLevels DEF MaybeFire, LedgerTypes
  <2> QED
    BY <1>1, <1>4, <2>2 DEF MaybeFire, LedgerTypes
<1>5. CASE Posted(r)
  <2>1. ScopeAt(r) \in Scopes
    BY <1>1, <1>5, AtScope DEF Posted, OnItsWay
  <2> DEFINE more == [level \in Levels |->
                        IF level \in Crossed(r, ScopeAt(r))
                          THEN posted[ScopeAt(r)][level] + 1 ELSE posted[ScopeAt(r)][level]]
  <2>2. more \in [Levels -> Nat]
    BY <1>1, <2>1 DEF LedgerTypes
  <2>3. posted' = [posted EXCEPT ![ScopeAt(r)] = more]
    BY <1>5 DEF Posted
  <2> HIDE DEF more
  <2>4. posted' \in [Scopes -> [Levels -> Nat]]
    BY <1>1, <2>2, <2>3 DEF LedgerTypes
  <2> QED
    BY <1>1, <1>5, <2>4 DEF Posted, LedgerTypes
<1>6. CASE RecordUsage(r)
  <2>1. req[r].key \in Keys /\ req[r].tokens \in Nat
    BY <1>1, <1>6, BudgetAssumption DEF RecordUsage, OnItsWay, Request
  <2>2. spent' \in [Scopes -> Nat]
    BY <1>1, <1>6, <2>1, ChargeType DEF RecordUsage, LedgerTypes
  <2>3. lately' \in [Keys -> Minute]
    <3>1. Metering(lately[req[r].key], r) \in Minute
      BY <1>1, <2>1, MeteringEffect DEF LedgerTypes
    <3> QED
      BY <1>1, <1>6, <2>1, <3>1 DEF RecordUsage, LedgerTypes
  <2> QED
    BY <1>1, <1>6, <2>2, <2>3 DEF RecordUsage, LedgerTypes
<1>7. CASE RecordFails(r)
  <2>1. req[r].tokens \in Nat
    BY <1>1, BudgetAssumption DEF Request
  <2>2. lost' \in [Scopes -> Nat]
    BY <1>1, <1>7, <2>1, ChargeType DEF RecordFails, LedgerTypes
  <2> QED
    BY <1>1, <1>7, <2>2 DEF RecordFails, LedgerTypes
<1> QED
  BY <1>2, <1>3, <1>4, <1>5, <1>6, <1>7
     DEF Proceed, ReadUsage, Resolved, Refuse, Serve, Metered, Limited, Embed,
         EmbeddingFails, AlertsDone

LEMMA NextRouted == Routed /\ [Next]_vars => Routed'
<1> SUFFICES ASSUME Routed, [Next]_vars PROVE Routed'
  OBVIOUS
<1>1. TypeOK /\ LedgerTypes
  BY DEF Routed, TypeOK, LedgerTypes
<1>2. ASSUME NEW r \in Requests, Proceed(r)
      PROVE  Routed'
  <2>1. req' \in [Requests -> Request] /\ Alone(r) /\ OnItsWay(r)' /\ LedgerTypes'
    BY <1>2, ProceedRouted, ProceedTypes
  <2>2. \A q \in Requests \ {r} : OnItsWay(q)'
    BY <2>1, OthersOnTheirWay DEF Routed
  <2> QED
    BY <2>1, <2>2 DEF Routed, TypeOK, LedgerTypes
<1>3. ASSUME NEW r \in Requests, NEW k \in Keys, Resolve(r, k)
      PROVE  Routed'
  <2>1. /\ req' \in [Requests -> Request] /\ Alone(r)
        /\ req'[r].pc = "resolving" /\ req'[r].key = k /\ req'[r].at = 1
        /\ req'[r].limit = 0 /\ req'[r].tokens = 0 /\ ~req'[r].served
    BY <1>1, <1>3, ResolveEffect
  <2>2. OnItsWay(r)'
    BY <2>1 DEF OnItsWay, Unanswered
  <2>3. \A q \in Requests \ {r} : OnItsWay(q)'
    BY <2>1, OthersOnTheirWay DEF Routed
  <2> QED
    BY <1>1, <1>3, <2>1, <2>2, <2>3 DEF Routed, TypeOK, Resolve
<1>4. ASSUME NEW s \in Scopes, NewWindow(s)
      PROVE  Routed'
  <2>1. NonePosted \in [Levels -> Nat]
    BY DEF NonePosted
  <2>2. LedgerTypes' /\ UNCHANGED req
    BY <1>1, <1>4, <2>1 DEF NewWindow, LedgerTypes
  <2> QED
    BY <2>2 DEF Routed, TypeOK, LedgerTypes, OnItsWay, MyScopes, BudgetExceeded, Exceeds
<1>5. ASSUME NEW k \in Keys, NEW left \in Minute, MinutePasses(k, left)
      PROVE  Routed'
  <2>1. LedgerTypes' /\ UNCHANGED req
    BY <1>1, <1>5 DEF MinutePasses, LedgerTypes
  <2> QED
    BY <2>1 DEF Routed, TypeOK, LedgerTypes, OnItsWay, MyScopes, BudgetExceeded, Exceeds
<1>6. CASE UNCHANGED vars
  BY <1>6 DEF vars, Routed, TypeOK, OnItsWay, MyScopes, BudgetExceeded, Exceeds
<1>7. ASSUME NEW k \in Keys,
             NEW left \in [strict : 0 .. lately[k].strict, other : 0 .. lately[k].other],
             MinutePasses(k, left)
      PROVE  Routed'
  <2>1. lately[k].strict \in Nat /\ lately[k].other \in Nat
    BY <1>1, MinuteFields DEF LedgerTypes
  <2>2. left \in Minute
    BY <2>1 DEF Minute
  <2> QED
    BY <1>5, <1>7, <2>2
<1> QED
  BY <1>2, <1>3, <1>4, <1>6, <1>7 DEF Next

\* What requests carry, what is counted and what is marked keep their types,
\* whatever the order of reading, answering, alerting and recording.
THEOREM TypeCorrect == Spec => []TypeOK
<1>1. Routed => TypeOK
  BY DEF Routed
<1> QED
  BY <1>1, InitRouted, NextRouted, PTL DEF Spec

(***************************************************************************)
(* Alerts: of all the requests that found a level crossed, one at a time   *)
(* may post its alert, and none any more once it is posted.                *)
(***************************************************************************)
MayPost(r, s, level) ==
    req[r].pc = "posting" /\ ScopeAt(r) = s /\ level \in Crossed(r, s)

MarkedFirst ==
    \A s \in Scopes, level \in Levels :
        /\ posted[s][level] <= 1
        /\ posted[s][level] > 0 => <<s, level>> \in fired
        /\ \A r \in Requests :
              MayPost(r, s, level) => posted[s][level] = 0 /\ <<s, level>> \in fired
        /\ \A r, q \in Requests : MayPost(r, s, level) /\ MayPost(q, s, level) => r = q

(***************************************************************************)
(* Budgets: a request that has read a usage within the budget of s may     *)
(* still be answered; the room for its tokens is reserved.                 *)
(***************************************************************************)
Admits(s) ==
    {r \in Requests :
        /\ req[r].pc \in Unanswered
        /\ \E i \in DOMAIN MyScopes(r) : i < req[r].at /\ MyScopes(r)[i] = s
        /\ req[r].seen[s] < Budget[s]}

Reserved ==
    \A s \in Scopes :
        consumed[s] + Cardinality(Admits(s)) * MaxTokens
            < Budget[s] + lost[s] + Cardinality(Requests) * MaxTokens

\* What was consumed in a window is at most what was recorded, lost or is still
\* to be recorded in it (which may be of the window before).
Covered ==
    \A s \in Scopes :
        LET account == spent[s] + lost[s] + Cardinality(UnwrittenTokens(s))
        IN  consumed[s] <= account /\ (s \notin Windowed => consumed[s] = account)

\* Each request past the check of the minute's tokens, if under the watched
\* limit or a lower one, may still add its own.
PastMeter(k) ==
    {r \in Requests :
        /\ req[r].key = k /\ Strict(r)
        /\ req[r].pc \in {"serving", "alerting", "posting", "recording"}
        /\ req[r].pc # "serving" => req[r].served}

MinuteReserved ==
    \A k \in Keys :
        lately[k].strict + Cardinality(PastMeter(k)) * MaxTokens
            < Watched + Cardinality(Requests) * MaxTokens

LEMMA MayPostOthers ==
    ASSUME NEW r \in Requests, Alone(r), NEW q \in Requests \ {r}, NEW s, NEW level
    PROVE  MayPost(q, s, level)' <=> MayPost(q, s, level)
BY DEF Alone, MayPost, ScopeAt, MyScopes, Crossed, Exceeds

\* Steps after which a request does not post, and that mark nothing.
LEMMA QuietMarked ==
    ASSUME MarkedFirst, NEW r \in Requests, Alone(r), req'[r].pc # "posting",
           UNCHANGED <<posted, fired>>
    PROVE  MarkedFirst'
<1> SUFFICES ASSUME NEW t \in Scopes, NEW level \in Levels
             PROVE  /\ posted'[t][level] <= 1
                    /\ posted'[t][level] > 0 => <<t, level>> \in fired'
                    /\ \A q \in Requests : MayPost(q, t, level)' =>
                          posted'[t][level] = 0 /\ <<t, level>> \in fired'
                    /\ \A p, q \in Requests :
                          MayPost(p, t, level)' /\ MayPost(q, t, level)' => p = q
  BY DEF MarkedFirst
<1>1. \A q \in Requests : MayPost(q, t, level)' => MayPost(q, t, level)
  BY MayPostOthers DEF MayPost
<1> QED
  BY <1>1 DEF MarkedFirst

LEMMA MaybeFireMarked ==
    ASSUME Routed, MarkedFirst, NEW r \in Requests, MaybeFire(r)
    PROVE  MarkedFirst'
<1> DEFINE s == ScopeAt(r)
           due == {level \in Crossed(r, s) : <<s, level>> \notin fired}
<1>1. TypeOK /\ req[r].pc = "alerting" /\ UNCHANGED posted /\ fired' = fired \cup ({s} \X due)
  BY DEF Routed, MaybeFire
<1>2. Alone(r)
  BY ProceedRouted DEF Proceed
<1>3. CASE due = {}
  <2>1. req' = [req EXCEPT ![r].at = @ + 1] /\ fired' = fired
    BY <1>1, <1>3 DEF MaybeFire
  <2>2. req'[r].pc = "alerting"
    BY <1>1, <2>1, AdvanceEffect
  <2> QED
    BY <1>1, <1>2, <2>1, <2>2, QuietMarked
<1>4. CASE due # {}
  <2>1. PICK l \in Crossed(r, s) : <<s, l>> \notin fired
    BY <1>4
  <2>2. l \in Levels /\ Crossed(r, s) = {l} /\ s \in Scopes
    BY <1>1, <2>1, CrossedLevels, AtScope DEF MaybeFire
  <2>3. fired' = fired \cup {<<s, l>>}
    BY <1>1, <2>1, <2>2
  <2>4. Moves(r, "posting")
    BY <1>1, <1>4, Moving DEF MaybeFire, Phases
  <2>5. ScopeAt(r)' = s /\ Crossed(r, s)' = Crossed(r, s)
    BY <2>4 DEF Moves, Keeps, ScopeAt, MyScopes, Crossed, Exceeds
  <2>6. \A t, level : MayPost(r, t, level)' <=> t = s /\ level = l
    BY <2>2, <2>4, <2>5 DEF MayPost, Moves
  <2>7. posted[s][l] = 0 /\ \A q \in Requests : ~MayPost(q, s, l)
    BY <1>1, <2>1, <2>2 DEF MarkedFirst, TypeOK
  <2> SUFFICES ASSUME NEW t \in Scopes, NEW level \in Levels
               PROVE  /\ posted'[t][level] <= 1
                      /\ posted'[t][level] > 0 => <<t, level>> \in fired'
                      /\ \A q \in Requests : MayPost(q, t, level)' =>
                            posted'[t][level] = 0 /\ <<t, level>> \in fired'
                      /\ \A p, q \in Requests :
                            MayPost(p, t, level)' /\ MayPost(q, t, level)' => p = q
    BY DEF MarkedFirst
  <2> HIDE DEF s, due
  <2>8. /\ posted[t][level] <= 1
        /\ posted[t][level] > 0 => <<t, level>> \in fired
        /\ \A q \in Requests : MayPost(q, t, level) => posted[t][level] = 0 /\ <<t, level>> \in fired
        /\ \A p, q \in Requests : MayPost(p, t, level) /\ MayPost(q, t, level) => p = q
    BY DEF MarkedFirst
  <2>9. \A q \in Requests \ {r} : MayPost(q, t, level)' <=> MayPost(q, t, level)
    BY <1>2, MayPostOthers
  <2>10. CASE t = s /\ level = l
    BY <1>1, <2>3, <2>6, <2>7, <2>9, <2>10
  <2>11. CASE ~(t = s /\ level = l)
    BY <1>1, <2>3, <2>6, <2>8, <2>9, <2>11
  <2> QED
    BY <2>10, <2>11
<1> QED
  BY <1>3, <1>4

LEMMA PostedMarked ==
    ASSUME Routed, MarkedFirst, NEW r \in Requests, Posted(r)
    PROVE  MarkedFirst'
<1> DEFINE s == ScopeAt(r)
<1>1. TypeOK /\ OnItsWay(r) /\ req[r].pc = "posting" /\ UNCHANGED fired
  BY DEF Routed, Posted
<1>2. Alone(r) /\ req'[r].pc = "alerting"
  BY <1>1, AdvanceEffect DEF Posted
<1>3. s \in Scopes
  BY <1>1, AtScope DEF OnItsWay
<1>4. \A t \in Scopes, level \in Levels :
          posted'[t][level] = IF t = s /\ level \in Crossed(r, s)
                                THEN posted[t][level] + 1 ELSE posted[t][level]
  BY <1>1, <1>3 DEF Posted, TypeOK
<1> SUFFICES ASSUME NEW t \in Scopes, NEW level \in Levels
             PROVE  /\ posted'[t][level] <= 1
                    /\ posted'[t][level] > 0 => <<t, level>> \in fired'
                    /\ \A q \in Requests : MayPost(q, t, level)' =>
                          posted'[t][level] = 0 /\ <<t, level>> \in fired'
                    /\ \A p, q \in Requests :
                          MayPost(p, t, level)' /\ MayPost(q, t, level)' => p = q
  BY DEF MarkedFirst
<1>5. /\ posted[t][level] <= 1
      /\ posted[t][level] > 0 => <<t, level>> \in fired
      /\ \A q \in Requests : MayPost(q, t, level) => posted[t][level] = 0 /\ <<t, level>> \in fired
      /\ \A p, q \in Requests : MayPost(p, t, level) /\ MayPost(q, t, level) => p = q
  BY DEF MarkedFirst
<1>6. \A q \in Requests : MayPost(q, t, level)' => q # r /\ MayPost(q, t, level)
  BY <1>2, MayPostOthers DEF MayPost
<1>7. MayPost(r, t, level) <=> t = s /\ level \in Crossed(r, s)
  BY <1>1 DEF MayPost
<1> HIDE DEF s
<1>8. CASE MayPost(r, t, level)
  BY <1>1, <1>4, <1>5, <1>6, <1>7, <1>8
<1>9. CASE ~MayPost(r, t, level)
  BY <1>1, <1>4, <1>5, <1>6, <1>7, <1>9
<1> QED
  BY <1>8, <1>9

LEMMA NextMarked == Routed /\ MarkedFirst /\ [Next]_vars => MarkedFirst'
<1> SUFFICES ASSUME Routed, MarkedFirst, [Next]_vars PROVE MarkedFirst'
  OBVIOUS
<1>1. ASSUME NEW r \in Requests, Proceed(r)
      PROVE  MarkedFirst'
  <2>1. Alone(r) /\ TypeOK /\ OnItsWay(r)
    BY <1>1, ProceedRouted DEF Routed
  <2>2. CASE MaybeFire(r) \/ Posted(r)
    BY <2>2, MaybeFireMarked, PostedMarked
  <2>3. CASE ~(MaybeFire(r) \/ Posted(r))
    <3>1. UNCHANGED <<posted, fired>>
      BY <1>1, <2>3 DEF Proceed, ReadUsage, Resolved, Refuse, Serve, Metered, Limited, Embed,
         EmbeddingFails, Respond, Embedded, AlertsDone, RecordUsage, RecordFails
    <3>2. req'[r].pc # "posting"
      <4>1. CASE ReadUsage(r)
        BY <2>1, <4>1, ReadUsageEffect
      <4>2. CASE Limited(r)
        BY <2>1, <4>2, LimitedEffect
      <4>3. ASSUME NEW n \in 0 .. MaxTokens, Respond(r, n) \/ Embedded(r, n)
            PROVE  req'[r].pc # "posting"
        BY <2>1, <4>3, AnswerEffect
      <4>4. ASSUME NEW pc \in Phases \ {"posting"}, req' = [req EXCEPT ![r].pc = pc]
            PROVE  req'[r].pc # "posting"
        BY <2>1, <4>4, Moving DEF Moves
      <4>5. CASE req' = [req EXCEPT ![r] = Idle]
        BY <2>1, <4>5, Ending DEF Ends, Idle
      <4>6. CASE Resolved(r) \/ Metered(r) \/ Embed(r)
        <5>1. PICK pc \in {"resolved", "serving", "embedding"} :
                     req' = [req EXCEPT ![r].pc = pc]
          BY <4>6 DEF Resolved, Metered, Embed
        <5> QED
          BY <4>4, <5>1 DEF Phases
      <4>9. CASE Serve(r)
        BY <2>1, <4>9, ServeEffect DEF Moves
      <4>7. CASE AlertsDone(r)
        <5>1. \/ req' = [req EXCEPT ![r].pc = "recording"]
              \/ req' = [req EXCEPT ![r] = Idle]
          BY <4>7 DEF AlertsDone
        <5> QED
          BY <4>4, <4>5, <5>1 DEF Phases
      <4>8. CASE Refuse(r) \/ EmbeddingFails(r) \/ RecordUsage(r) \/ RecordFails(r)
        BY <4>5, <4>8 DEF Refuse, EmbeddingFails, RecordUsage, RecordFails
      <4> QED
        BY <1>1, <2>3, <4>1, <4>2, <4>3, <4>6, <4>7, <4>8, <4>9 DEF Proceed
    <3> QED
      BY <2>1, <3>1, <3>2, QuietMarked
  <2> QED
    BY <2>2, <2>3
<1>2. ASSUME NEW r \in Requests, NEW k \in Keys, Resolve(r, k)
      PROVE  MarkedFirst'
  <2>1. Alone(r) /\ req'[r].pc # "posting"
    BY <1>2, ResolveEffect DEF Routed
  <2> QED
    BY <1>2, <2>1, QuietMarked DEF Resolve
<1>3. ASSUME UNCHANGED <<req, fired>>,
             \A s \in Scopes, level \in Levels :
                posted'[s][level] = posted[s][level] \/ posted'[s][level] = 0
      PROVE  MarkedFirst'
  <2>1. \A q, s, level : MayPost(q, s, level)' <=> MayPost(q, s, level)
    BY <1>3 DEF MayPost, ScopeAt, MyScopes, Crossed, Exceeds
  <2> SUFFICES ASSUME NEW t \in Scopes, NEW level \in Levels
               PROVE  /\ posted'[t][level] <= 1
                      /\ posted'[t][level] > 0 => <<t, level>> \in fired'
                      /\ \A q \in Requests : MayPost(q, t, level)' =>
                            posted'[t][level] = 0 /\ <<t, level>> \in fired'
                      /\ \A p, q \in Requests :
                            MayPost(p, t, level)' /\ MayPost(q, t, level)' => p = q
    BY DEF MarkedFirst
  <2> QED
    BY <1>3, <2>1 DEF MarkedFirst
<1>4. ASSUME NEW s \in Scopes, NewWindow(s)
      PROVE  MarkedFirst'
  <2>1. posted \in [Scopes -> [Levels -> Nat]] /\ posted' = [posted EXCEPT ![s] = NonePosted]
    BY <1>4 DEF NewWindow, Routed, TypeOK
  <2>2. \A t \in Scopes, level \in Levels :
          posted'[t][level] = posted[t][level] \/ posted'[t][level] = 0
    BY <2>1 DEF NonePosted
  <2> QED
    BY <1>3, <1>4, <2>2 DEF NewWindow
<1>5. ASSUME NEW k \in Keys, NEW left, MinutePasses(k, left)
      PROVE  MarkedFirst'
  BY <1>3, <1>5 DEF MinutePasses
<1>6. CASE UNCHANGED vars
  <2>1. UNCHANGED <<req, fired, posted>>
    BY <1>6 DEF vars
  <2> QED
    BY <1>3, <2>1
<1> QED
  BY <1>1, <1>2, <1>4, <1>5, <1>6 DEF Next

\* However many requests find a level crossed at once, in whatever order their
\* background tasks run and whenever a window ends, its alert is posted at most
\* once in a window: the marker is set before the webhook is awaited.
THEOREM AlertedOnce == Spec => []AlertsOnce
<1>1. Init => MarkedFirst
  <2> SUFFICES ASSUME Init PROVE MarkedFirst
    OBVIOUS
  <2>1. \A r \in Requests : \A s, level : ~MayPost(r, s, level)
    BY DEF Init, Idle, MayPost
  <2>2. \A s \in Scopes, level \in Levels : posted[s][level] = 0
    BY DEF Init, NonePosted
  <2> QED
    BY <2>1, <2>2 DEF MarkedFirst
<1>2. MarkedFirst => AlertsOnce
  BY DEF MarkedFirst, AlertsOnce
<1> QED
  BY <1>1, <1>2, InitRouted, NextRouted, NextMarked, PTL DEF Spec

(***************************************************************************)
(* Counting requests and tokens.                                           *)
(***************************************************************************)
LEMMA RequestSets ==
    ASSUME NEW S \in SUBSET Requests
    PROVE  /\ IsFiniteSet(S)
           /\ Cardinality(S) \in Nat
           /\ Cardinality(S) <= Cardinality(Requests)
           /\ Cardinality(Requests) \in Nat
           /\ \A r \in S : Cardinality(S \ {r}) = Cardinality(S) - 1
           /\ \A r \in Requests \ S : Cardinality(S \cup {r}) = Cardinality(S) + 1
<1>1. IsFiniteSet(S) /\ IsFiniteSet(Requests) /\ Cardinality(S) <= Cardinality(Requests)
  BY FS_Subset, BudgetAssumption
<1> QED
  BY <1>1, FS_CardinalityType, FS_RemoveElement, FS_AddElement

LEMMA Smaller ==
    ASSUME NEW S \in SUBSET Requests, NEW T \in SUBSET S
    PROVE  Cardinality(T) <= Cardinality(S)
BY RequestSets, FS_Subset

LEMMA Disjoint ==
    ASSUME NEW S \in SUBSET Requests, NEW T \in SUBSET Requests, S \cap T = {}
    PROVE  Cardinality(S) + Cardinality(T) <= Cardinality(Requests)
<1>1. IsFiniteSet(S) /\ IsFiniteSet(T) /\ Cardinality(S \cap T) = 0
  BY RequestSets, FS_EmptySet
<1>2. Cardinality(S \cup T) = Cardinality(S) + Cardinality(T) - Cardinality(S \cap T)
  BY <1>1, FS_Union
<1>3. Cardinality(S \cup T) <= Cardinality(Requests)
  BY RequestSets
<1> QED
  BY <1>1, <1>2, <1>3, RequestSets

\* Room for the tokens of n requests.
LEMMA Room ==
    ASSUME NEW m \in Nat, NEW n \in Nat
    PROVE  /\ n * m \in Nat
           /\ (n + 1) * m = n * m + m
           /\ n > 0 => (n - 1) * m = n * m - m
           /\ \A l \in Nat : l <= n => l * m <= n * m
OBVIOUS

LEMMA RoomForBoth ==
    ASSUME NEW m \in Nat, NEW k \in Nat, NEW l \in Nat, NEW n \in Nat, k + l <= n
    PROVE  (k + l) * m = k * m + l * m /\ (k + l) * m <= n * m
OBVIOUS

\* The tokens of one request.
TokensOf(r, n) == {r} \X (1 .. n)

LEMMA TokensOfCount ==
    ASSUME NEW r, NEW n \in Nat
    PROVE  IsFiniteSet(TokensOf(r, n)) /\ Cardinality(TokensOf(r, n)) = n
<1>1. IsFiniteSet({r}) /\ Cardinality({r}) = 1
  BY FS_Singleton
<1>2. IsFiniteSet(1 .. n) /\ Cardinality(1 .. n) = n
  BY FS_Interval
<1>3. IsFiniteSet({r} \X (1 .. n)) /\ Cardinality({r} \X (1 .. n)) = 1 * n
  <2> DEFINE S == {r}
             T == 1 .. n
  <2>1. /\ IsFiniteSet(S) /\ Cardinality(S) = 1
        /\ IsFiniteSet(T) /\ Cardinality(T) = n
    BY <1>1, <1>2
  <2> HIDE DEF S, T
  <2>2. IsFiniteSet(S \X T) /\ Cardinality(S \X T) = Cardinality(S) * Cardinality(T)
    BY <2>1, FS_Product
  <2> QED
    BY <2>1, <2>2, Zenon DEF S, T
<1>4. 1 * n = n
  OBVIOUS
<1>5. IsFiniteSet({r} \X (1 .. n)) /\ Cardinality({r} \X (1 .. n)) = n
  BY <1>3, <1>4
<1> QED
  BY <1>5, Zenon DEF TokensOf

LEMMA TokenSets ==
    ASSUME NEW S \in SUBSET Requests, NEW T \in SUBSET (S \X (1 .. MaxTokens))
    PROVE  /\ IsFiniteSet(T) /\ Cardinality(T) \in Nat
           /\ Cardinality(T) <= Cardinality(S) * MaxTokens
<1>1. MaxTokens \in Nat
  BY BudgetAssumption
<1>2. IsFiniteSet(S) /\ IsFiniteSet(1 .. MaxTokens) /\ Cardinality(1 .. MaxTokens) = MaxTokens
  BY <1>1, RequestSets, FS_Interval
<1>3. /\ IsFiniteSet(S \X (1 .. MaxTokens))
      /\ Cardinality(S \X (1 .. MaxTokens)) = Cardinality(S) * MaxTokens
  BY <1>2, FS_Product
<1> QED
  BY <1>3, FS_Subset, FS_CardinalityType

LEMMA UnwrittenFacts ==
    ASSUME NEW s
    PROVE  /\ Unwritten(s) \in SUBSET Requests
           /\ IsFiniteSet(UnwrittenTokens(s)) /\ Cardinality(UnwrittenTokens(s)) \in Nat
           /\ Cardinality(UnwrittenTokens(s)) <= Cardinality(Unwritten(s)) * MaxTokens
<1>1. Unwritten(s) \in SUBSET Requests
  BY DEF Unwritten
<1>2. UnwrittenTokens(s) \in SUBSET (Unwritten(s) \X (1 .. MaxTokens))
  BY DEF UnwrittenTokens
<1> QED
  BY <1>1, <1>2, TokenSets

\* A request's tokens are added to those still to be written, or taken away.
LEMMA TokensJoin ==
    ASSUME NEW s, NEW r, r \notin Unwritten(s), NEW n \in Nat
    PROVE  Cardinality(UnwrittenTokens(s) \cup TokensOf(r, n))
             = Cardinality(UnwrittenTokens(s)) + n
<1>1. UnwrittenTokens(s) \cap TokensOf(r, n) = {}
  BY DEF UnwrittenTokens, TokensOf
<1>2. /\ IsFiniteSet(UnwrittenTokens(s)) /\ Cardinality(UnwrittenTokens(s)) \in Nat
      /\ IsFiniteSet(TokensOf(r, n)) /\ Cardinality(TokensOf(r, n)) = n
  BY UnwrittenFacts, TokensOfCount
<1>3. Cardinality({}) = 0
  BY FS_EmptySet
<1> DEFINE S == UnwrittenTokens(s)
           T == TokensOf(r, n)
<1> SUFFICES Cardinality(S \cup T) = Cardinality(S) + n
  OBVIOUS
<1>4. S \cap T = {} /\ IsFiniteSet(S) /\ IsFiniteSet(T)
  BY <1>1, <1>2
<1>5. Cardinality(S) \in Nat /\ Cardinality(T) = n
  BY <1>2
<1> HIDE DEF S, T
<1>6. Cardinality(S \cup T) = Cardinality(S) + Cardinality(T) - Cardinality(S \cap T)
  BY <1>4, FS_Union
<1>7. Cardinality(S \cap T) = 0
  BY <1>3, <1>4
<1> QED
  BY <1>5, <1>6, <1>7

LEMMA TokensLeave ==
    ASSUME NEW s, NEW r \in Unwritten(s), req[r].tokens \in 0 .. MaxTokens
    PROVE  Cardinality(UnwrittenTokens(s) \ TokensOf(r, req[r].tokens))
             = Cardinality(UnwrittenTokens(s)) - req[r].tokens
<1> DEFINE n == req[r].tokens
<1>1. n \in Nat /\ n <= MaxTokens /\ MaxTokens \in Nat
  BY BudgetAssumption
<1>2. UnwrittenTokens(s) \cap TokensOf(r, n) = TokensOf(r, n)
  <2>1. ASSUME NEW i \in 1 .. n
        PROVE  <<r, i>> \in UnwrittenTokens(s)
    BY <1>1, <2>1 DEF UnwrittenTokens
  <2> QED
    BY <2>1 DEF TokensOf
<1> DEFINE S == UnwrittenTokens(s)
           T == TokensOf(r, n)
<1> SUFFICES Cardinality(S \ T) = Cardinality(S) - n
  OBVIOUS
<1>3. IsFiniteSet(S) /\ Cardinality(T) = n /\ S \cap T = T
  BY <1>1, <1>2, UnwrittenFacts, TokensOfCount
<1> HIDE DEF S, T
<1>4. Cardinality(S \ T) = Cardinality(S) - Cardinality(S \cap T)
  BY <1>3, FS_Difference
<1> QED
  BY <1>3, <1>4

(***************************************************************************)
(* What the steps do to the account of one scope.                          *)
(***************************************************************************)
Owes(r, s, i) == r \in Unwritten(s) /\ i <= req[r].tokens

SameAccount(s) ==
    /\ consumed'[s] = consumed[s] /\ spent'[s] = spent[s] /\ lost'[s] = lost[s]
    /\ UnwrittenTokens(s)' = UnwrittenTokens(s)

QuietFor(s) == SameAccount(s) /\ Admits(s)' \subseteq Admits(s)

ReadsWithin(s, r) ==
    /\ SameAccount(s)
    /\ req[r].pc = "resolving" /\ spent[s] < Budget[s]
    /\ Admits(s)' \subseteq Admits(s) \cup {r}

Answers(s, r, n) ==
    /\ r \in Admits(s)
    /\ consumed'[s] = consumed[s] + n /\ spent'[s] = spent[s] /\ lost'[s] = lost[s]
    /\ UnwrittenTokens(s)' = UnwrittenTokens(s) \cup TokensOf(r, n)
    /\ Admits(s)' \subseteq Admits(s) \ {r}

Writes(s, r) ==
    /\ r \in Unwritten(s) /\ req[r].tokens \in 0 .. MaxTokens
    /\ consumed'[s] = consumed[s]
    /\ lost'[s] \in Nat /\ lost'[s] >= lost[s]
    /\ spent'[s] + lost'[s] = spent[s] + lost[s] + req[r].tokens
    /\ UnwrittenTokens(s)' = UnwrittenTokens(s) \ TokensOf(r, req[r].tokens)
    /\ Admits(s)' \subseteq Admits(s)

StartsAnew(s) ==
    /\ s \in Windowed
    /\ consumed'[s] = 0 /\ spent'[s] = 0 /\ lost'[s] = 0
    /\ UnwrittenTokens(s)' = UnwrittenTokens(s) /\ Admits(s)' = Admits(s)

Accounted(s) ==
    \/ QuietFor(s)
    \/ StartsAnew(s)
    \/ \E r \in Requests :
          \/ ReadsWithin(s, r) \/ Writes(s, r)
          \/ \E n \in 0 .. MaxTokens : Answers(s, r, n)

LEMMA UnwrittenDef ==
    ASSUME NEW s
    PROVE  /\ \A r, i : <<r, i>> \in UnwrittenTokens(s) <=> i \in 1 .. MaxTokens /\ Owes(r, s, i)
           /\ \A r, i : <<r, i>> \in UnwrittenTokens(s)' <=> i \in 1 .. MaxTokens /\ Owes(r, s, i)'
           /\ UnwrittenTokens(s) \subseteq Requests \X (1 .. MaxTokens)
           /\ UnwrittenTokens(s)' \subseteq Requests \X (1 .. MaxTokens)
BY DEF UnwrittenTokens, Owes, Unwritten

LEMMA OthersKeep ==
    ASSUME NEW r \in Requests, Alone(r), NEW s
    PROVE  /\ \A q \in Requests \ {r} : q \in Unwritten(s)' <=> q \in Unwritten(s)
           /\ \A q \in Requests \ {r} : q \in Admits(s)' <=> q \in Admits(s)
           /\ \A q \in Requests \ {r} : \A i : Owes(q, s, i)' <=> Owes(q, s, i)
BY DEF Alone, Unwritten, Admits, MyScopes, Owes

LEMMA SameRelation ==
    ASSUME NEW A, NEW B, NEW S \in SUBSET (A \X B), NEW T \in SUBSET (A \X B),
           \A a \in A : \A b \in B : <<a, b>> \in S <=> <<a, b>> \in T
    PROVE  S = T
OBVIOUS

LEMMA SameTokens ==
    ASSUME NEW r \in Requests, Alone(r), NEW s,
           \A i \in 1 .. MaxTokens : Owes(r, s, i)' <=> Owes(r, s, i)
    PROVE  UnwrittenTokens(s)' = UnwrittenTokens(s)
<1>1. \A q \in Requests : \A i \in 1 .. MaxTokens : Owes(q, s, i)' <=> Owes(q, s, i)
  BY OthersKeep
<1>2. \A q \in Requests : \A i \in 1 .. MaxTokens :
          <<q, i>> \in UnwrittenTokens(s)' <=> <<q, i>> \in UnwrittenTokens(s)
  BY <1>1, UnwrittenDef
<1> DEFINE S == UnwrittenTokens(s)
           T == UnwrittenTokens(s)'
           I == 1 .. MaxTokens
<1>3. S \in SUBSET (Requests \X I) /\ T \in SUBSET (Requests \X I)
  BY UnwrittenDef
<1>4. \A q \in Requests : \A i \in I : <<q, i>> \in S <=> <<q, i>> \in T
  BY <1>2
<1> HIDE DEF S, T, I
<1>5. S = T
  BY <1>3, <1>4, SameRelation
<1> QED
  BY <1>5 DEF S, T

LEMMA AdmitsLess ==
    ASSUME NEW r \in Requests, Alone(r), NEW s, r \in Admits(s)' => r \in Admits(s)
    PROVE  Admits(s)' \subseteq Admits(s)
BY OthersKeep DEF Admits

LEMMA UnchangedAccount ==
    ASSUME UNCHANGED <<req, consumed, spent, lost>>, NEW s PROVE QuietFor(s)
BY DEF QuietFor, SameAccount, UnwrittenTokens, Unwritten, Admits, MyScopes

LEMMA ChargeAt ==
    ASSUME NEW ledger, NEW k, NEW n, NEW s \in Scopes
    PROVE  Charge(ledger, k, n)[s] = IF s \in Charged(k) THEN ledger[s] + n ELSE ledger[s]
BY DEF Charge

\* A request that goes on before its answer, or that is refused.
LEMMA QuietStep ==
    ASSUME Routed, NEW r \in Requests, NEW s \in Scopes, Alone(r),
           UNCHANGED <<consumed, spent, lost>>,
           \A i \in 1 .. MaxTokens : Owes(r, s, i)' <=> Owes(r, s, i),
           r \in Admits(s)' => r \in Admits(s)
    PROVE  QuietFor(s)
BY SameTokens, AdmitsLess DEF QuietFor, SameAccount

LEMMA RefusedQuiet ==
    ASSUME Routed, NEW r \in Requests, NEW s \in Scopes,
           \/ Refuse(r) \/ EmbeddingFails(r) \/ (AlertsDone(r) /\ ~req[r].served)
    PROVE  QuietFor(s)
<1>1. Ends(r) /\ UNCHANGED <<consumed, spent, lost>>
  BY Ending DEF Routed, Refuse, EmbeddingFails, AlertsDone
<1>2. \A i \in 1 .. MaxTokens : ~Owes(r, s, i) /\ ~Owes(r, s, i)'
  <2>1. req[r].pc \in {"resolved", "embedding"} \/ req[r].tokens = 0
    BY DEF Routed, OnItsWay, Refuse, EmbeddingFails, AlertsDone
  <2> QED
    BY <1>1, <2>1 DEF Ends, Idle, Owes, Unwritten
<1>3. r \notin Admits(s)'
  BY <1>1 DEF Ends, Idle, Admits, Unanswered
<1> QED
  BY <1>1, <1>2, <1>3, QuietStep DEF Ends

LEMMA AheadQuiet ==
    ASSUME Routed, NEW r \in Requests, NEW s \in Scopes,
           Resolved(r) \/ Serve(r) \/ Metered(r) \/ Embed(r)
    PROVE  QuietFor(s)
<1>1. PICK pc \in {"resolved", "metering", "serving", "embedding"} : Moves(r, pc)
  <2>1. CASE Serve(r)
    BY <2>1, ServeEffect DEF Routed
  <2>2. CASE Resolved(r) \/ Metered(r) \/ Embed(r)
    <3>1. PICK pc \in {"resolved", "serving", "embedding"} : req' = [req EXCEPT ![r].pc = pc]
      BY <2>2 DEF Resolved, Metered, Embed
    <3> QED
      BY <3>1, Moving DEF Routed, Phases
  <2> QED
    BY <2>1, <2>2
<1>2. Moves(r, pc) /\ UNCHANGED <<consumed, spent, lost>>
  BY <1>1 DEF Resolved, Serve, Metered, Embed
<1>3. req[r].pc \in {"resolving", "resolved", "metering"}
  BY DEF Resolved, Serve, Metered, Embed
<1>4. \A i : ~Owes(r, s, i) /\ ~Owes(r, s, i)'
  BY <1>2, <1>3 DEF Moves, Owes, Unwritten
<1>5. r \in Admits(s)' => r \in Admits(s)
  BY <1>2, <1>3 DEF Moves, Keeps, Admits, MyScopes, Unanswered
<1> QED
  BY <1>2, <1>4, <1>5, QuietStep DEF Moves

LEMMA AlertQuiet ==
    ASSUME Routed, NEW r \in Requests, NEW s \in Scopes,
           \/ Limited(r) \/ MaybeFire(r) \/ Posted(r) \/ (AlertsDone(r) /\ req[r].served)
    PROVE  QuietFor(s)
<1>1. TypeOK /\ OnItsWay(r) /\ UNCHANGED <<consumed, spent, lost>>
  BY DEF Routed, Limited, MaybeFire, Posted, AlertsDone
<1>2. /\ Alone(r) /\ Keeps(r) /\ req'[r].tokens = req[r].tokens
      /\ req'[r].pc \in {"alerting", "posting", "recording"}
  <2>1. CASE Limited(r)
    BY <1>1, <2>1, LimitedEffect
  <2>2. CASE Posted(r)
    BY <1>1, <2>2, AdvanceEffect DEF Posted
  <2>3. CASE AlertsDone(r) /\ req[r].served
    <3>1. req' = [req EXCEPT ![r].pc = "recording"]
      BY <2>3 DEF AlertsDone
    <3>2. Moves(r, "recording")
      BY <1>1, <3>1, Moving DEF Phases
    <3> QED
      BY <3>2 DEF Moves
  <2>4. CASE MaybeFire(r)
    <3>1. CASE req' = [req EXCEPT ![r].pc = "posting"]
      <4>1. Moves(r, "posting")
        BY <1>1, <3>1, Moving DEF Phases
      <4> QED
        BY <4>1 DEF Moves
    <3>2. CASE req' = [req EXCEPT ![r].at = @ + 1]
      BY <1>1, <2>4, <3>2, AdvanceEffect DEF MaybeFire
    <3> QED
      BY <2>4, <3>1, <3>2 DEF MaybeFire
  <2> QED
    BY <2>1, <2>2, <2>3, <2>4
<1>3. r \notin Admits(s)'
  BY <1>2 DEF Admits, Unanswered
<1>4. \A i \in 1 .. MaxTokens : Owes(r, s, i)' <=> Owes(r, s, i)
  <2>1. CASE Limited(r)
    <3>1. req[r].tokens = 0
      BY <1>1, <2>1 DEF Limited, OnItsWay, Unanswered
    <3> QED
      BY <1>2, <3>1 DEF Owes
  <2>2. CASE ~Limited(r)
    <3>1. req[r].pc \in {"alerting", "posting", "recording"}
      BY <2>2 DEF MaybeFire, Posted, AlertsDone
    <3> QED
      BY <1>2, <3>1 DEF Owes, Unwritten, Keeps
  <2> QED
    BY <2>1, <2>2
<1> QED
  BY <1>1, <1>2, <1>3, <1>4, QuietStep

LEMMA ReadAccounted ==
    ASSUME Routed, NEW r \in Requests, NEW s \in Scopes, ReadUsage(r)
    PROVE  QuietFor(s) \/ ReadsWithin(s, r)
<1>1. TypeOK /\ OnItsWay(r) /\ req[r] \in Request
  BY DEF Routed, TypeOK
<1>2. /\ ScopeAt(r) \in Scopes /\ Alone(r)
      /\ req'[r].pc = "resolving" /\ req'[r].key = req[r].key
      /\ req'[r].at = req[r].at + 1
      /\ req'[r].seen = [req[r].seen EXCEPT ![ScopeAt(r)] = spent[ScopeAt(r)]]
  BY <1>1, ReadUsageEffect
<1>3. req[r].pc = "resolving" /\ UNCHANGED <<consumed, spent, lost>>
  BY DEF ReadUsage
<1>4. \A i : ~Owes(r, s, i) /\ ~Owes(r, s, i)'
  BY <1>2, <1>3 DEF Owes, Unwritten
<1>5. SameAccount(s)
  BY <1>2, <1>3, <1>4, SameTokens DEF SameAccount
<1>6. req[r].at \in Nat /\ req[r].seen \in [Scopes -> Nat]
  BY <1>1 DEF Request
<1>7. CASE s = ScopeAt(r)
  <2>1. req'[r].seen[s] = spent[s]
    BY <1>2, <1>6, <1>7
  <2>2. CASE spent[s] < Budget[s]
    <3>1. Admits(s)' \subseteq Admits(s) \cup {r}
      BY <1>2, OthersKeep DEF Admits
    <3> QED
      BY <1>3, <1>5, <2>2, <3>1 DEF ReadsWithin
  <2>3. CASE ~(spent[s] < Budget[s])
    <3>1. r \notin Admits(s)'
      BY <2>1, <2>3 DEF Admits
    <3> QED
      BY <1>2, <1>5, <3>1, AdmitsLess DEF QuietFor
  <2> QED
    BY <2>2, <2>3
<1>8. CASE s # ScopeAt(r)
  <2>1. req'[r].seen[s] = req[r].seen[s]
    BY <1>2, <1>6, <1>8
  <2>2. MyScopes(r)' = MyScopes(r)
    BY <1>2 DEF MyScopes
  <2>3. req[r].key \in Keys
    BY <1>1, <1>3 DEF OnItsWay
  <2>4. \A i \in DOMAIN MyScopes(r) : i \in Int /\ (i < req[r].at + 1 => i < req[r].at \/ i = req[r].at)
    <3>1. DOMAIN MyScopes(r) = 1 .. Len(MyScopes(r)) /\ Len(MyScopes(r)) \in Nat
      BY <2>3, ScopesFacts DEF MyScopes
    <3> QED
      BY <1>6, <3>1
  <2>5. r \in Admits(s)' => r \in Admits(s)
    BY <1>2, <1>3, <1>8, <2>1, <2>2, <2>4 DEF Admits, ScopeAt, Unanswered
  <2> QED
    BY <1>2, <1>5, <2>5, AdmitsLess DEF QuietFor
<1> QED
  BY <1>7, <1>8

LEMMA AnswerAccounted ==
    ASSUME Routed, NEW r \in Requests, NEW s \in Scopes,
           NEW n \in 0 .. MaxTokens, Respond(r, n) \/ Embedded(r, n)
    PROVE  QuietFor(s) \/ Answers(s, r, n)
<1>1. TypeOK /\ OnItsWay(r) /\ req[r] \in Request
  BY DEF Routed, TypeOK
<1>2. /\ Alone(r) /\ Keeps(r) /\ req'[r].pc \in {"alerting", "recording"}
      /\ req'[r].tokens = n
  BY <1>1, AnswerEffect
<1>3. /\ req[r].pc \in {"serving", "embedding"} /\ UNCHANGED <<spent, lost>>
      /\ consumed' = Charge(consumed, req[r].key, n)
  BY DEF Respond, Embedded
<1>4. r \notin Admits(s)' /\ r \notin Unwritten(s)
  BY <1>2, <1>3 DEF Admits, Unanswered, Unwritten
<1>5. CASE s \notin Charged(req[r].key)
  <2>1. r \notin Unwritten(s)'
    BY <1>2, <1>5 DEF Keeps, Unwritten
  <2>2. \A i : ~Owes(r, s, i) /\ ~Owes(r, s, i)'
    BY <1>4, <2>1 DEF Owes
  <2>3. consumed'[s] = consumed[s]
    BY <1>3, <1>5, ChargeAt
  <2> QED
    BY <1>2, <1>3, <1>4, <2>2, <2>3, SameTokens, AdmitsLess DEF QuietFor, SameAccount
<1>6. CASE s \in Charged(req[r].key)
  <2>1. consumed'[s] = consumed[s] + n
    BY <1>3, <1>6, ChargeAt
  <2>2. r \in Admits(s)
    <3>1. req[r].key \in Keys /\ req[r].at > Len(MyScopes(r)) /\ ~BudgetExceeded(r)
      BY <1>1, <1>3 DEF OnItsWay, Unanswered
    <3>2. req[r].seen[s] < Budget[s]
      BY <1>1, <1>6, <3>1, BudgetAssumption DEF BudgetExceeded, Exceeds, Request
    <3>3. PICK i \in DOMAIN MyScopes(r) : MyScopes(r)[i] = s
      BY <1>6 DEF Charged, MyScopes
    <3>4. i < req[r].at
      <4>1. DOMAIN MyScopes(r) = 1 .. Len(MyScopes(r)) /\ Len(MyScopes(r)) \in Nat
        BY <3>1, ScopesFacts DEF MyScopes
      <4>2. req[r].at \in Nat
        BY <1>1 DEF Request
      <4> QED
        BY <3>1, <3>3, <4>1, <4>2
    <3> QED
      BY <1>3, <3>2, <3>3, <3>4 DEF Admits, Unanswered
  <2>3. Admits(s)' \subseteq Admits(s) \ {r}
    BY <1>2, <1>4, OthersKeep DEF Admits
  <2>4. r \in Unwritten(s)'
    BY <1>2, <1>6 DEF Keeps, Unwritten
  <2>5. UnwrittenTokens(s)' = UnwrittenTokens(s) \cup TokensOf(r, n)
    <3> DEFINE S == UnwrittenTokens(s)'
               T == UnwrittenTokens(s) \cup TokensOf(r, n)
               I == 1 .. MaxTokens
    <3>1. S \in SUBSET (Requests \X I) /\ T \in SUBSET (Requests \X I)
      <4>1. 1 .. n \subseteq I
        BY BudgetAssumption
      <4>2. TokensOf(r, n) \subseteq Requests \X I
        BY <4>1 DEF TokensOf
      <4> QED
        BY <4>2, UnwrittenDef
    <3>2. ASSUME NEW q \in Requests, NEW i \in I
          PROVE  <<q, i>> \in S <=> <<q, i>> \in T
      <4>1. CASE q = r
        <5>1. <<r, i>> \in S <=> i <= n
          BY <1>2, <2>4, UnwrittenDef DEF Owes
        <5>2. <<r, i>> \notin UnwrittenTokens(s)
          BY <1>4, UnwrittenDef DEF Owes
        <5>3. <<r, i>> \in TokensOf(r, n) <=> i <= n
          BY BudgetAssumption DEF TokensOf
        <5> QED
          BY <4>1, <5>1, <5>2, <5>3
      <4>2. CASE q # r
        <5>1. <<q, i>> \notin TokensOf(r, n)
          BY <4>2 DEF TokensOf
        <5>2. <<q, i>> \in S <=> <<q, i>> \in UnwrittenTokens(s)
          BY <1>2, <4>2, UnwrittenDef, OthersKeep
        <5> QED
          BY <5>1, <5>2
      <4> QED
        BY <4>1, <4>2
    <3> HIDE DEF S, T, I
    <3>3. S = T
      BY <3>1, <3>2, SameRelation
    <3> QED
      BY <3>3 DEF S, T
  <2> QED
    BY <1>3, <2>1, <2>2, <2>3, <2>5 DEF Answers
<1> QED
  BY <1>5, <1>6

LEMMA RecordAccounted ==
    ASSUME Routed, NEW r \in Requests, NEW s \in Scopes, RecordUsage(r) \/ RecordFails(r)
    PROVE  QuietFor(s) \/ Writes(s, r)
<1>1. TypeOK /\ OnItsWay(r) /\ req[r] \in Request /\ spent[s] \in Nat /\ lost[s] \in Nat
  BY DEF Routed, TypeOK
<1>2. Ends(r)
  BY <1>1, Ending DEF RecordUsage, RecordFails
<1>3. req[r].pc = "recording" /\ UNCHANGED consumed
  BY DEF RecordUsage, RecordFails
<1>4. req[r].tokens \in 0 .. MaxTokens /\ req[r].tokens \in Nat
  BY <1>1, BudgetAssumption DEF Request
<1>5. r \notin Unwritten(s)' /\ r \notin Admits(s)' /\ Alone(r)
  BY <1>2 DEF Ends, Idle, Unwritten, Admits, Unanswered
<1>6. \/ /\ spent'[s] = Charge(spent, req[r].key, req[r].tokens)[s] /\ lost'[s] = lost[s]
      \/ /\ lost'[s] = Charge(lost, req[r].key, req[r].tokens)[s] /\ spent'[s] = spent[s]
  BY DEF RecordUsage, RecordFails
<1>7. CASE s \notin Charged(req[r].key)
  <2>1. r \notin Unwritten(s)
    BY <1>7 DEF Unwritten
  <2>2. \A i : ~Owes(r, s, i) /\ ~Owes(r, s, i)'
    BY <1>5, <2>1 DEF Owes
  <2>3. spent'[s] = spent[s] /\ lost'[s] = lost[s]
    BY <1>6, <1>7, ChargeAt
  <2> QED
    BY <1>3, <1>5, <2>2, <2>3, SameTokens, AdmitsLess DEF QuietFor, SameAccount
<1>8. CASE s \in Charged(req[r].key)
  <2>1. r \in Unwritten(s)
    BY <1>3, <1>8 DEF Unwritten
  <2>2. /\ lost'[s] \in Nat /\ lost'[s] >= lost[s]
        /\ spent'[s] + lost'[s] = spent[s] + lost[s] + req[r].tokens
    <3>1. \/ spent'[s] = spent[s] + req[r].tokens /\ lost'[s] = lost[s]
          \/ lost'[s] = lost[s] + req[r].tokens /\ spent'[s] = spent[s]
      BY <1>6, <1>8, ChargeAt
    <3> QED
      BY <1>1, <1>4, <3>1
  <2>3. UnwrittenTokens(s)' = UnwrittenTokens(s) \ TokensOf(r, req[r].tokens)
    <3> DEFINE S == UnwrittenTokens(s)'
               T == UnwrittenTokens(s) \ TokensOf(r, req[r].tokens)
               I == 1 .. MaxTokens
    <3>1. S \in SUBSET (Requests \X I) /\ T \in SUBSET (Requests \X I)
      BY UnwrittenDef
    <3>2. ASSUME NEW q \in Requests, NEW i \in I
          PROVE  <<q, i>> \in S <=> <<q, i>> \in T
      <4>1. CASE q = r
        <5>1. <<r, i>> \notin S
          BY <1>5, UnwrittenDef DEF Owes
        <5>2. <<r, i>> \in UnwrittenTokens(s) <=> i <= req[r].tokens
          BY <2>1, UnwrittenDef DEF Owes
        <5>3. <<r, i>> \in TokensOf(r, req[r].tokens) <=> i <= req[r].tokens
          BY <1>4, BudgetAssumption DEF TokensOf
        <5> QED
          BY <4>1, <5>1, <5>2, <5>3
      <4>2. CASE q # r
        <5>1. <<q, i>> \notin TokensOf(r, req[r].tokens)
          BY <4>2 DEF TokensOf
        <5>2. <<q, i>> \in S <=> <<q, i>> \in UnwrittenTokens(s)
          BY <1>5, <4>2, UnwrittenDef, OthersKeep
        <5> QED
          BY <5>1, <5>2
      <4> QED
        BY <4>1, <4>2
    <3> HIDE DEF S, T, I
    <3>3. S = T
      BY <3>1, <3>2, SameRelation
    <3> QED
      BY <3>3 DEF S, T
  <2> QED
    BY <1>3, <1>4, <1>5, <2>1, <2>2, <2>3, AdmitsLess DEF Writes
<1> QED
  BY <1>7, <1>8

LEMMA NextAccounted ==
    ASSUME Routed, [Next]_vars, NEW s \in Scopes
    PROVE  Accounted(s)
<1>1. ASSUME NEW r \in Requests, Proceed(r)
      PROVE  Accounted(s)
  <2>1. ASSUME NEW n \in 0 .. MaxTokens, Respond(r, n) \/ Embedded(r, n)
        PROVE  Accounted(s)
    BY <2>1, AnswerAccounted DEF Accounted
  <2>2. CASE ReadUsage(r) \/ RecordUsage(r) \/ RecordFails(r)
    BY <2>2, ReadAccounted, RecordAccounted DEF Accounted
  <2>3. CASE \/ Resolved(r) \/ Serve(r) \/ Metered(r) \/ Embed(r)
             \/ Limited(r) \/ MaybeFire(r) \/ Posted(r) \/ AlertsDone(r)
             \/ Refuse(r) \/ EmbeddingFails(r)
    BY <2>3, AheadQuiet, AlertQuiet, RefusedQuiet DEF Accounted
  <2> QED
    BY <1>1, <2>1, <2>2, <2>3 DEF Proceed
<1>2. ASSUME NEW r \in Requests, NEW k \in Keys, Resolve(r, k)
      PROVE  Accounted(s)
  <2>1. Alone(r) /\ req'[r].pc = "resolving" /\ req'[r].at = 1 /\ req'[r].key = k
    BY <1>2, ResolveEffect DEF Routed
  <2>2. \A i : ~Owes(r, s, i) /\ ~Owes(r, s, i)'
    BY <1>2, <2>1 DEF Resolve, Owes, Unwritten
  <2>3. r \notin Admits(s)'
    <3>1. DOMAIN MyScopes(r)' = 1 .. Len(ScopesOf[k]) /\ Len(ScopesOf[k]) \in Nat
      BY <2>1, ScopesFacts DEF MyScopes
    <3> QED
      BY <2>1, <3>1 DEF Admits
  <2> QED
    BY <1>2, <2>1, <2>2, <2>3, QuietStep DEF Resolve, Accounted
<1>3. ASSUME NEW t \in Scopes, NewWindow(t)
      PROVE  Accounted(s)
  <2>1. UnwrittenTokens(s)' = UnwrittenTokens(s) /\ Admits(s)' = Admits(s)
    BY <1>3 DEF NewWindow, UnwrittenTokens, Unwritten, Admits, MyScopes
  <2>2. TypeOK
    BY DEF Routed
  <2>3. CASE s = t
    BY <1>3, <2>1, <2>2, <2>3 DEF NewWindow, TypeOK, Accounted, StartsAnew
  <2>4. CASE s # t
    BY <1>3, <2>1, <2>2, <2>4 DEF NewWindow, TypeOK, Accounted, QuietFor, SameAccount
  <2> QED
    BY <2>3, <2>4
<1>4. ASSUME NEW k \in Keys, NEW left, MinutePasses(k, left)
      PROVE  Accounted(s)
  BY <1>4, UnchangedAccount DEF MinutePasses, Accounted
<1>5. CASE UNCHANGED vars
  BY <1>5, UnchangedAccount DEF vars, Accounted
<1> QED
  BY <1>1, <1>2, <1>3, <1>4, <1>5 DEF Next

(***************************************************************************)
(* The account of a scope stays complete, and the room reserved suffices.  *)
(***************************************************************************)
LEMMA NextCovered == Routed /\ Covered /\ [Next]_vars => Covered'
<1> SUFFICES ASSUME Routed, Covered, [Next]_vars, NEW s \in Scopes
             PROVE  LET account == spent'[s] + lost'[s] + Cardinality(UnwrittenTokens(s)')
                    IN  /\ consumed'[s] <= account
                        /\ s \notin Windowed => consumed'[s] = account
  BY DEF Covered
<1> DEFINE owed == Cardinality(UnwrittenTokens(s))
<1>1. /\ consumed[s] <= spent[s] + lost[s] + owed
      /\ s \notin Windowed => consumed[s] = spent[s] + lost[s] + owed
  BY DEF Covered
<1>2. owed \in Nat /\ spent[s] \in Nat /\ lost[s] \in Nat /\ consumed[s] \in Nat
  BY UnwrittenFacts DEF Routed, TypeOK
<1>3. Routed'
  BY NextRouted
<1>4. spent'[s] \in Nat /\ lost'[s] \in Nat
  BY <1>3 DEF Routed, TypeOK
<1>5. CASE QuietFor(s) \/ \E r \in Requests : ReadsWithin(s, r)
  BY <1>1, <1>5 DEF QuietFor, ReadsWithin, SameAccount
<1>6. CASE StartsAnew(s)
  BY <1>2, <1>6 DEF StartsAnew
<1>7. ASSUME NEW r \in Requests, NEW n \in 0 .. MaxTokens, Answers(s, r, n)
      PROVE  /\ Cardinality(UnwrittenTokens(s)') = owed + n
             /\ spent'[s] = spent[s] /\ lost'[s] = lost[s] /\ consumed'[s] = consumed[s] + n
  <2>1. r \notin Unwritten(s)
    BY <1>7 DEF Answers, Admits, Unwritten, Unanswered
  <2>2. n \in Nat
    BY BudgetAssumption
  <2> QED
    BY <1>7, <2>1, <2>2, TokensJoin DEF Answers
<1>8. ASSUME NEW r \in Requests, Writes(s, r)
      PROVE  /\ Cardinality(UnwrittenTokens(s)') = owed - req[r].tokens
             /\ spent'[s] + lost'[s] = spent[s] + lost[s] + req[r].tokens
             /\ consumed'[s] = consumed[s] /\ req[r].tokens \in Nat
  BY <1>8, TokensLeave, BudgetAssumption DEF Writes
<1> HIDE DEF owed
<1>9. ASSUME NEW r \in Requests, NEW n \in 0 .. MaxTokens, Answers(s, r, n)
      PROVE  LET account == spent'[s] + lost'[s] + Cardinality(UnwrittenTokens(s)')
             IN  /\ consumed'[s] <= account
                 /\ s \notin Windowed => consumed'[s] = account
  <2>1. /\ Cardinality(UnwrittenTokens(s)') = owed + n
        /\ spent'[s] = spent[s] /\ lost'[s] = lost[s] /\ consumed'[s] = consumed[s] + n
    BY <1>7, <1>9
  <2>2. n \in Nat
    BY BudgetAssumption
  <2> QED
    BY <1>1, <1>2, <2>1, <2>2
<1>10. ASSUME NEW r \in Requests, Writes(s, r)
       PROVE  LET account == spent'[s] + lost'[s] + Cardinality(UnwrittenTokens(s)')
              IN  /\ consumed'[s] <= account
                  /\ s \notin Windowed => consumed'[s] = account
  BY <1>1, <1>2, <1>4, <1>8, <1>10
<1> QED
  BY <1>5, <1>6, <1>9, <1>10, NextAccounted, <1>2, UnwrittenFacts DEF Accounted, owed

LEMMA NextReserved == Routed /\ Covered /\ Reserved /\ [Next]_vars => Reserved'
<1> SUFFICES ASSUME Routed, Covered, Reserved, [Next]_vars, NEW s \in Scopes
             PROVE  consumed'[s] + Cardinality(Admits(s)') * MaxTokens
                      < Budget[s] + lost'[s] + Cardinality(Requests) * MaxTokens
  BY DEF Reserved
<1> DEFINE N == Cardinality(Requests)
           a == Cardinality(Admits(s))
           u == Cardinality(Unwritten(s))
           b == Cardinality(Admits(s)')
           M == MaxTokens
<1>1. /\ Admits(s) \in SUBSET Requests /\ Admits(s)' \in SUBSET Requests
      /\ Unwritten(s) \in SUBSET Requests /\ Admits(s) \cap Unwritten(s) = {}
  BY DEF Admits, Unwritten, Unanswered
<1>2. /\ M \in Nat /\ Budget[s] \in Nat /\ Budget[s] > 0
      /\ N \in Nat /\ a \in Nat /\ b \in Nat /\ u \in Nat /\ b <= N
  BY <1>1, RequestSets, BudgetAssumption
<1>3. spent[s] \in Nat /\ lost[s] \in Nat /\ consumed[s] \in Nat
  BY DEF Routed, TypeOK
<1>4. consumed[s] + a * M < Budget[s] + lost[s] + N * M
  BY DEF Reserved
<1>5. consumed[s] <= spent[s] + lost[s] + u * M
  <2>1. /\ Cardinality(UnwrittenTokens(s)) \in Nat
        /\ Cardinality(UnwrittenTokens(s)) <= u * M
    BY UnwrittenFacts
  <2>2. consumed[s] <= spent[s] + lost[s] + Cardinality(UnwrittenTokens(s))
    BY DEF Covered
  <2>3. u * M \in Nat
    BY <1>2, Room
  <2> HIDE DEF u, M
  <2> QED
    BY <1>3, <2>1, <2>2, <2>3
<1>6. /\ a * M \in Nat /\ b * M \in Nat /\ N * M \in Nat /\ u * M \in Nat
      /\ b <= a => b * M <= a * M
      /\ b * M <= N * M
  BY <1>2, Room
<1>7. Admits(s)' \subseteq Admits(s) => b <= a
  BY <1>1, Smaller
<1>8. ASSUME QuietFor(s)
      PROVE  consumed'[s] + b * M < Budget[s] + lost'[s] + N * M
  <2>1. /\ consumed'[s] = consumed[s] /\ lost'[s] = lost[s]
        /\ b * M <= a * M
    BY <1>6, <1>7, <1>8 DEF QuietFor, SameAccount
  <2> HIDE DEF a, b, N, M
  <2> QED
    BY <1>2, <1>3, <1>4, <1>6, <2>1
<1>9. ASSUME StartsAnew(s)
      PROVE  consumed'[s] + b * M < Budget[s] + lost'[s] + N * M
  <2>1. consumed'[s] = 0 /\ lost'[s] = 0
    BY <1>9 DEF StartsAnew
  <2> HIDE DEF a, b, N, M
  <2> QED
    BY <1>2, <1>6, <2>1
<1>10. ASSUME NEW r \in Requests, ReadsWithin(s, r)
       PROVE  consumed'[s] + b * M < Budget[s] + lost'[s] + N * M
  <2>1. /\ consumed'[s] = consumed[s] /\ lost'[s] = lost[s] /\ spent[s] < Budget[s]
        /\ Admits(s)' \subseteq Admits(s) \cup {r} /\ r \notin Unwritten(s)
    BY <1>10 DEF ReadsWithin, SameAccount, Unwritten
  <2>2. b + u <= N
    <3>1. Admits(s)' \cap Unwritten(s) = {}
      BY <1>1, <2>1
    <3> QED
      BY <1>1, <3>1, Disjoint
  <2>3. b * M + u * M <= N * M
    <3> HIDE DEF b, u, N, M
    <3>1. (b + u) * M = b * M + u * M /\ (b + u) * M <= N * M
      BY <1>2, <2>2, RoomForBoth
    <3> QED
      BY <3>1
  <2> HIDE DEF a, b, N, M, u
  <2> QED
    BY <1>2, <1>3, <1>5, <1>6, <2>1, <2>3
<1>11. ASSUME NEW r \in Requests, NEW n \in 0 .. MaxTokens, Answers(s, r, n)
       PROVE  consumed'[s] + b * M < Budget[s] + lost'[s] + N * M
  <2>1. /\ consumed'[s] = consumed[s] + n /\ lost'[s] = lost[s]
        /\ r \in Admits(s) /\ Admits(s)' \subseteq Admits(s) \ {r}
        /\ n \in Nat /\ n <= M
    BY <1>11, BudgetAssumption DEF Answers
  <2>2. b <= a - 1
    <3>1. Admits(s) \ {r} \in SUBSET Requests /\ Cardinality(Admits(s) \ {r}) = a - 1
      BY <1>1, <2>1, RequestSets
    <3> QED
      BY <2>1, <3>1, Smaller
  <2>3. b * M <= a * M - M
    <3> HIDE DEF a, b, M
    <3>1. a > 0 /\ a - 1 \in Nat /\ b <= a - 1
      BY <1>2, <2>2
    <3>2. (a - 1) * M = a * M - M /\ b * M <= (a - 1) * M
      BY <1>2, <3>1, Room
    <3> QED
      BY <3>2
  <2> HIDE DEF a, b, N, M
  <2> QED
    BY <1>2, <1>3, <1>4, <1>6, <2>1, <2>3
<1>12. ASSUME NEW r \in Requests, Writes(s, r)
       PROVE  consumed'[s] + b * M < Budget[s] + lost'[s] + N * M
  <2>1. /\ consumed'[s] = consumed[s] /\ lost'[s] \in Nat /\ lost'[s] >= lost[s]
        /\ b * M <= a * M
    BY <1>6, <1>7, <1>12 DEF Writes
  <2> HIDE DEF a, b, N, M
  <2> QED
    BY <1>2, <1>3, <1>4, <1>6, <2>1
<1> QED
  BY <1>8, <1>9, <1>10, <1>11, <1>12, NextAccounted DEF Accounted

LEMMA InitAccount == Init => Covered /\ Reserved
<1> SUFFICES ASSUME Init, NEW s \in Scopes
             PROVE  /\ consumed[s] = spent[s] + lost[s] + Cardinality(UnwrittenTokens(s))
                    /\ consumed[s] \in Nat
                    /\ consumed[s] + Cardinality(Admits(s)) * MaxTokens
                         < Budget[s] + lost[s] + Cardinality(Requests) * MaxTokens
  BY DEF Covered, Reserved
<1>1. \A r \in Requests : req[r].pc = "idle"
  BY DEF Init, Idle
<1>2. Admits(s) = {} /\ UnwrittenTokens(s) = {}
  BY <1>1 DEF Admits, Unanswered, UnwrittenTokens, Unwritten
<1>3. Cardinality(Admits(s)) = 0 /\ Cardinality(UnwrittenTokens(s)) = 0
  BY <1>2, FS_EmptySet
<1>4. MaxTokens \in Nat /\ Budget[s] \in Nat /\ Budget[s] > 0
  BY BudgetAssumption
<1> DEFINE all == Cardinality(Requests) * MaxTokens
<1>5. all \in Nat
  BY <1>4, Room, RequestSets
<1>6. consumed[s] = 0 /\ spent[s] = 0 /\ lost[s] = 0
  BY DEF Init
<1>7. 0 * MaxTokens = 0
  BY <1>4
<1> HIDE DEF all
<1>8. 0 + 0 < Budget[s] + 0 + all
  BY <1>4, <1>5
<1> QED
  BY <1>3, <1>6, <1>7, <1>8 DEF all

LEMMA AccountInductive == Spec => [](Routed /\ Covered /\ Reserved)
BY InitRouted, InitAccount, NextRouted, NextCovered, NextReserved, PTL DEF Spec

\* A window's consumption exceeds its budget by less than what the requests
\* served at the same time may use and what was lost, for keys with a budget of
\* their own, a team's or both, and for any number of requests and any order of
\* reading, answering and recording.
THEOREM OvershootHolds == Spec => []OvershootBounded
<1>1. Routed /\ Reserved => OvershootBounded
  <2> SUFFICES ASSUME Routed, Reserved, NEW s \in Scopes
               PROVE  consumed[s] < Budget[s] + lost[s] + Cardinality(Requests) * MaxTokens
    BY DEF OvershootBounded
  <2> DEFINE room == Cardinality(Admits(s)) * MaxTokens
             all == Cardinality(Requests) * MaxTokens
  <2>1. room \in Nat /\ all \in Nat
    <3>1. Admits(s) \in SUBSET Requests
      BY DEF Admits
    <3> QED
      BY <3>1, RequestSets, Room, BudgetAssumption
  <2>2. consumed[s] \in Nat /\ lost[s] \in Nat /\ Budget[s] \in Nat
    BY BudgetAssumption DEF Routed, TypeOK
  <2>3. consumed[s] + room < Budget[s] + lost[s] + all
    BY DEF Reserved
  <2> HIDE DEF room, all
  <2>4. consumed[s] < Budget[s] + lost[s] + all
    BY <2>1, <2>2, <2>3
  <2> QED
    BY <2>4 DEF all
<1> QED
  BY <1>1, AccountInductive, PTL

\* Every token answered is charged once to each scope of its key: in the ledger,
\* about to be written, or lost - never twice, and none goes missing unnoticed.
THEOREM LedgerIsComplete == Spec => []LedgerComplete
<1>1. Covered => LedgerComplete
  BY DEF Covered, LedgerComplete
<1> QED
  BY <1>1, AccountInductive, PTL

(***************************************************************************)
(* The tokens of the last minute.                                          *)
(***************************************************************************)
LEMMA MeterOthers ==
    ASSUME NEW r \in Requests, Alone(r), NEW k, r \in PastMeter(k)' => r \in PastMeter(k)
    PROVE  PastMeter(k)' \subseteq PastMeter(k)
BY DEF Alone, PastMeter, Strict

\* What a step may do to the minute of one limited key.
MeterQuiet(k) == lately'[k].strict <= lately[k].strict /\ PastMeter(k)' \subseteq PastMeter(k)

MeterEnters(k) == lately[k].strict < Watched /\ lately'[k] = lately[k]

MeterRecords(k) ==
    \E r \in PastMeter(k) :
        /\ lately'[k].strict <= lately[k].strict + MaxTokens
        /\ PastMeter(k)' \subseteq PastMeter(k) \ {r}

LEMMA ProceedMetered ==
    ASSUME Routed, NEW k \in Keys,
           NEW r \in Requests, Proceed(r)
    PROVE  MeterQuiet(k) \/ MeterEnters(k) \/ MeterRecords(k)
<1>1. /\ TypeOK /\ OnItsWay(r) /\ req[r] \in Request
      /\ lately \in [Keys -> Minute] /\ lately[k].strict \in Nat /\ lately[k].other \in Nat
  BY MinuteFields DEF Routed, TypeOK
<1>2. Alone(r)
  BY ProceedRouted
<1>3. CASE RecordUsage(r)
  <2>1. Ends(r) /\ req[r].pc = "recording" /\ req[r].served /\ req[r].key \in Keys
    BY <1>1, <1>3, Ending DEF RecordUsage, OnItsWay
  <2>2. r \notin PastMeter(k)'
    BY <2>1 DEF Ends, Idle, PastMeter
  <2>3. CASE req[r].key = k
    <3>1. lately'[k] = Metering(lately[k], r)
      BY <1>1, <1>3, <2>3 DEF RecordUsage
    <3>2. lately'[k].strict =
            IF Strict(r) THEN lately[k].strict + req[r].tokens ELSE lately[k].strict
      BY <1>1, <3>1, MeteringEffect
    <3>3. CASE Strict(r)
      <4>1. r \in PastMeter(k)
        BY <2>1, <2>3, <3>3 DEF PastMeter
      <4>2. PastMeter(k)' \subseteq PastMeter(k) \ {r}
        BY <1>2, <2>2, MeterOthers
      <4>3. req[r].tokens \in Nat /\ req[r].tokens <= MaxTokens /\ MaxTokens \in Nat
        BY <1>1, BudgetAssumption DEF Request
      <4>4. lately'[k].strict <= lately[k].strict + MaxTokens
        BY <1>1, <3>2, <3>3, <4>3
      <4> QED
        BY <4>1, <4>2, <4>4 DEF MeterRecords
    <3>4. CASE ~Strict(r)
      BY <1>1, <1>2, <2>2, <3>2, <3>4, MeterOthers DEF MeterQuiet
    <3> QED
      BY <3>3, <3>4
  <2>4. CASE req[r].key # k
    <3>1. lately'[k] = lately[k]
      BY <1>1, <1>3, <2>1, <2>4 DEF RecordUsage
    <3> QED
      BY <1>1, <1>2, <2>2, <3>1, MeterOthers DEF MeterQuiet
  <2> QED
    BY <2>3, <2>4
<1>4. ASSUME UNCHANGED lately, r \in PastMeter(k)' => r \in PastMeter(k)
      PROVE  MeterQuiet(k)
  BY <1>1, <1>2, <1>4, MeterOthers DEF MeterQuiet
<1>5. CASE Metered(r)
  <2>1. Moves(r, "serving") /\ Steady(r) /\ UNCHANGED lately
    BY <1>1, <1>5, Moving DEF Metered, Phases
  <2>2. CASE req[r].key = k /\ Strict(r)
    <3>1. req[r].limit \in Nat /\ req[r].limit # 0 /\ req[r].limit <= Watched
      BY <2>2, BudgetAssumption DEF Strict
    <3>2. lately[k].strict + lately[k].other < req[r].limit
      BY <1>5, <2>2, <3>1 DEF Metered, WithinMinute
    <3>3. lately[k].strict < Watched
      BY <1>1, <3>1, <3>2, BudgetAssumption
    <3> QED
      BY <2>1, <3>3 DEF MeterEnters
  <2>3. CASE ~(req[r].key = k /\ Strict(r))
    <3>1. r \notin PastMeter(k)'
      BY <2>1, <2>3 DEF Moves, Keeps, Steady, Strict, PastMeter
    <3> QED
      BY <1>4, <2>1, <3>1
  <2> QED
    BY <2>2, <2>3
<1>6. CASE ReadUsage(r)
  <2>1. req'[r].pc = "resolving" /\ UNCHANGED lately
    BY <1>1, <1>6, ReadUsageEffect DEF ReadUsage
  <2> QED
    BY <1>4, <2>1 DEF PastMeter
<1>7. CASE Resolved(r) \/ Serve(r) \/ Embed(r)
  <2>1. PICK pc \in {"resolved", "metering", "embedding"} : Moves(r, pc)
    <3>1. CASE Serve(r)
      BY <1>1, <3>1, ServeEffect
    <3>2. CASE Resolved(r) \/ Embed(r)
      BY <1>1, <3>2, Moving DEF Phases, Resolved, Embed
    <3> QED
      BY <1>7, <3>1, <3>2
  <2>2. UNCHANGED lately
    BY <1>7 DEF Resolved, Serve, Embed
  <2> QED
    BY <1>4, <2>1, <2>2 DEF Moves, PastMeter
<1>8. CASE Refuse(r) \/ EmbeddingFails(r) \/ RecordFails(r) \/ (AlertsDone(r) /\ ~req[r].served)
  <2>1. Ends(r) /\ UNCHANGED lately
    BY <1>1, <1>8, Ending DEF Refuse, EmbeddingFails, RecordFails, AlertsDone
  <2> QED
    BY <1>4, <2>1 DEF Ends, Idle, PastMeter
<1>9. CASE Limited(r)
  <2>1. Keeps(r) /\ req'[r].pc = "alerting" /\ ~req'[r].served /\ UNCHANGED lately
    BY <1>1, <1>9, LimitedEffect DEF Limited, OnItsWay, Unanswered
  <2> QED
    BY <1>4, <2>1 DEF PastMeter
<1>10. ASSUME NEW n \in 0 .. MaxTokens, Respond(r, n) \/ Embedded(r, n)
       PROVE  MeterQuiet(k)
  <2>1. /\ Keeps(r) /\ Steady(r) /\ UNCHANGED lately
        /\ req[r].pc = "serving" \/ (req[r].pc = "embedding" /\ req[r].limit = 0)
    BY <1>1, <1>10, AnswerEffect DEF Respond, Embedded, OnItsWay
  <2> QED
    BY <1>4, <2>1 DEF Keeps, Steady, Strict, PastMeter
<1>11. CASE MaybeFire(r) \/ Posted(r) \/ (AlertsDone(r) /\ req[r].served)
  <2>1. /\ Keeps(r) /\ Steady(r) /\ req'[r].served = req[r].served /\ UNCHANGED lately
        /\ req'[r].pc \in {"alerting", "posting", "recording"}
        /\ req[r].pc \in {"alerting", "posting"}
    <3>1. CASE Posted(r)
      BY <1>1, <3>1, AdvanceEffect DEF Posted
    <3>2. CASE AlertsDone(r) /\ req[r].served
      <4>1. req' = [req EXCEPT ![r].pc = "recording"]
        BY <3>2 DEF AlertsDone
      <4>2. Moves(r, "recording") /\ Steady(r)
        BY <1>1, <4>1, Moving DEF Phases
      <4> QED
        BY <3>2, <4>2 DEF Moves, AlertsDone
    <3>3. CASE MaybeFire(r)
      <4>1. CASE req' = [req EXCEPT ![r].pc = "posting"]
        <5>1. Moves(r, "posting") /\ Steady(r)
          BY <1>1, <4>1, Moving DEF Phases
        <5> QED
          BY <3>3, <5>1 DEF Moves, MaybeFire
      <4>2. CASE req' = [req EXCEPT ![r].at = @ + 1]
        BY <1>1, <3>3, <4>2, AdvanceEffect DEF MaybeFire
      <4> QED
        BY <3>3, <4>1, <4>2 DEF MaybeFire
    <3> QED
      BY <1>11, <3>1, <3>2, <3>3
  <2> QED
    BY <1>4, <2>1 DEF Keeps, Steady, Strict, PastMeter
<1> QED
  BY <1>3, <1>5, <1>6, <1>7, <1>8, <1>9, <1>10, <1>11 DEF Proceed

LEMMA NextMinuteReserved == Routed /\ MinuteReserved /\ [Next]_vars => MinuteReserved'
<1> SUFFICES ASSUME Routed, MinuteReserved, [Next]_vars,
                    NEW k \in Keys
             PROVE  lately'[k].strict + Cardinality(PastMeter(k)') * MaxTokens
                      < Watched + Cardinality(Requests) * MaxTokens
  BY DEF MinuteReserved
<1> DEFINE N == Cardinality(Requests)
           a == Cardinality(PastMeter(k))
           b == Cardinality(PastMeter(k)')
           M == MaxTokens
<1>1. PastMeter(k) \in SUBSET Requests /\ PastMeter(k)' \in SUBSET Requests
  BY DEF PastMeter
<1>2. M \in Nat /\ Watched \in Nat /\ N \in Nat /\ a \in Nat /\ b \in Nat /\ b <= N
  BY <1>1, RequestSets, BudgetAssumption
<1>3. lately[k].strict \in Nat /\ lately'[k].strict \in Nat
  <2>1. Routed'
    BY NextRouted
  <2> QED
    BY <2>1, MinuteFields DEF Routed, TypeOK
<1>4. lately[k].strict + a * M < Watched + N * M
  BY DEF MinuteReserved
<1>5. /\ a * M \in Nat /\ b * M \in Nat /\ N * M \in Nat
      /\ b <= a => b * M <= a * M
      /\ b * M <= N * M
  BY <1>2, Room
<1>6. MeterQuiet(k) \/ MeterEnters(k) \/ MeterRecords(k)
  <2>1. ASSUME UNCHANGED req, lately'[k].strict <= lately[k].strict
        PROVE  MeterQuiet(k)
    BY <2>1 DEF MeterQuiet, PastMeter, Strict
  <2>2. ASSUME NEW r \in Requests, NEW x \in Keys, Resolve(r, x)
        PROVE  MeterQuiet(k)
    <3>1. Alone(r) /\ r \notin PastMeter(k)' /\ UNCHANGED lately
      BY <2>2, ResolveEffect DEF Resolve, Routed, PastMeter
    <3> QED
      BY <1>3, <3>1, MeterOthers DEF MeterQuiet
  <2>3. ASSUME NEW s \in Scopes, NewWindow(s)
        PROVE  MeterQuiet(k)
    BY <1>3, <2>1, <2>3 DEF NewWindow
  <2>4. ASSUME NEW x \in Keys, NEW left, MinutePasses(x, left)
        PROVE  MeterQuiet(k)
    <3>1. lately'[k].strict <= lately[k].strict /\ UNCHANGED req
      BY <1>3, <2>4 DEF MinutePasses, Routed, TypeOK
    <3> QED
      BY <2>1, <3>1
  <2>5. CASE UNCHANGED vars
    BY <1>3, <2>1, <2>5 DEF vars
  <2> QED
    BY <2>2, <2>3, <2>4, <2>5, ProceedMetered DEF Next
<1>7. CASE MeterQuiet(k)
  <2>1. lately'[k].strict <= lately[k].strict /\ b * M <= a * M
    BY <1>1, <1>5, <1>7, Smaller DEF MeterQuiet
  <2> HIDE DEF a, b, N, M
  <2> QED
    BY <1>2, <1>3, <1>4, <1>5, <2>1 DEF b, N, M
<1>8. CASE MeterEnters(k)
  <2>1. lately'[k].strict < Watched
    BY <1>8 DEF MeterEnters
  <2> HIDE DEF a, b, N, M
  <2> QED
    BY <1>2, <1>3, <1>5, <2>1 DEF b, N, M
<1>9. CASE MeterRecords(k)
  <2>1. PICK r \in PastMeter(k) : /\ lately'[k].strict <= lately[k].strict + M
                                  /\ PastMeter(k)' \subseteq PastMeter(k) \ {r}
    BY <1>9 DEF MeterRecords
  <2>2. b <= a - 1
    <3>1. PastMeter(k) \ {r} \in SUBSET Requests /\ Cardinality(PastMeter(k) \ {r}) = a - 1
      BY <1>1, RequestSets
    <3> QED
      BY <2>1, <3>1, Smaller
  <2>3. b * M <= a * M - M
    <3> HIDE DEF a, b, M
    <3>1. a > 0 /\ a - 1 \in Nat /\ b <= a - 1
      BY <1>2, <2>2
    <3>2. (a - 1) * M = a * M - M /\ b * M <= (a - 1) * M
      BY <1>2, <3>1, Room
    <3> QED
      BY <3>2
  <2>4. lately'[k].strict <= lately[k].strict + M
    BY <2>1
  <2> HIDE DEF a, b, N, M
  <2> QED
    BY <1>2, <1>3, <1>4, <1>5, <2>3, <2>4 DEF b, N, M
<1> QED
  BY <1>6, <1>7, <1>8, <1>9

\* However late completions are charged, and whatever else a key is used for, in
\* a minute its completions under a limit exceed that limit by less than what the
\* requests served at the same time may use: all the completions of a key with a
\* limit of its own; of another key those for models of that default or a lower
\* one.
THEOREM MinuteHolds == Spec => []TpmBounded
<1>1. Init => MinuteReserved
  <2> SUFFICES ASSUME Init, NEW k \in Keys
               PROVE  lately[k].strict + Cardinality(PastMeter(k)) * MaxTokens
                        < Watched + Cardinality(Requests) * MaxTokens
    BY DEF MinuteReserved
  <2>1. PastMeter(k) = {}
    BY DEF Init, Idle, PastMeter
  <2>2. Cardinality(PastMeter(k)) = 0 /\ lately[k].strict = 0
    BY <2>1, FS_EmptySet DEF Init
  <2>3. 0 * MaxTokens = 0 /\ Watched \in Nat /\ Watched > 0
    BY BudgetAssumption
  <2> DEFINE all == Cardinality(Requests) * MaxTokens
  <2>4. all \in Nat
    BY Room, RequestSets, BudgetAssumption
  <2> HIDE DEF all
  <2>5. 0 + 0 < Watched + all
    BY <2>3, <2>4
  <2> QED
    BY <2>2, <2>3, <2>5 DEF all
<1>2. Routed /\ MinuteReserved => TpmBounded
  <2> SUFFICES ASSUME Routed, MinuteReserved, NEW k \in Keys
               PROVE  lately[k].strict < Watched + Cardinality(Requests) * MaxTokens
    BY DEF TpmBounded
  <2> DEFINE room == Cardinality(PastMeter(k)) * MaxTokens
             all == Cardinality(Requests) * MaxTokens
  <2>1. room \in Nat /\ all \in Nat
    <3>1. PastMeter(k) \in SUBSET Requests
      BY DEF PastMeter
    <3> QED
      BY <3>1, RequestSets, Room, BudgetAssumption
  <2>2. lately[k].strict \in Nat /\ Watched \in Nat
    BY BudgetAssumption, MinuteFields DEF Routed, TypeOK
  <2>3. lately[k].strict + room < Watched + all
    BY DEF MinuteReserved
  <2> HIDE DEF room, all
  <2>4. lately[k].strict < Watched + all
    BY <2>1, <2>2, <2>3
  <2> QED
    BY <2>4 DEF all
<1> QED
  BY <1>1, <1>2, InitRouted, NextRouted, NextMinuteReserved, PTL DEF Spec

===============================================================================
