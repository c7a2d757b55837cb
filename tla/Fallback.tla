------------------------------- MODULE Fallback -------------------------------
(***************************************************************************)
(* How one gateway process drives upstream calls: build_candidates over    *)
(* the deployments it knows (app/router), execute_with_fallback over the   *)
(* chain (app/resilience/fallback.py), with_retries for each candidate     *)
(* (app/resilience/retry.py), the circuit breaker they share, and the      *)
(* statistics the load balancer orders deployments by.  Requests           *)
(* interleave at every await - while the cache is asked, while an attempt  *)
(* is under way, while a retry backs off - and so do reloads of the        *)
(* deployments.  (Streams take a branch of their own: see Stream.)         *)
(***************************************************************************)
EXTENDS Breaker, LoadBalancer

CONSTANTS
    Requests,      \* the requests the process serves at the same time
    Asks,          \* what they ask for: a model and its fallbacks
    ProviderOf,    \* Candidate.provider
    Tables,        \* what a reload may find: deployments that exist, and are enabled
    Attempts,      \* RetryConfig.attempts
    Outcomes,      \* how a backend may answer a request: see AnOutcome
    MaxLeaks,      \* bound: no new request once so many calls have leaked
    NoProvider

AnOutcome == {"ok",         \* a 200 answer
              "transient",  \* a connection error, a 5xx or a 429
              "reject",     \* any other 4xx
              "raise"}      \* an exception that is none of these

ASSUME FallbackAssumption ==
    /\ IsFiniteSet(Requests)
    /\ Asks \subseteq Seq(Models) \ {<<>>}
    /\ ProviderOf \in [Backends -> {ProviderOf[b] : b \in Backends}]
    /\ NoProvider \notin {ProviderOf[b] : b \in Backends}
    /\ \A t \in Tables : t.enabled \subseteq t.live /\ t.live \subseteq Deployments
    /\ Attempts \in Nat \ {0}
    /\ Outcomes \in [Requests -> [Backends -> SUBSET AnOutcome]]
    /\ MaxLeaks \in Nat

Providers == {ProviderOf[b] : b \in Backends}

VARIABLES
    breaker,    \* app.state.circuit_breaker
    table,      \* DeploymentRegistry._by_model
    inFlight,   \* DeploymentRegistry._stats[..].in_flight
    sampled,    \* the deployments with a latency_ewma
    req,        \* where each request is
    streak,     \* history: failures of a provider in a row, saturated
    leaked,     \* history: calls that ended without note_end
    forgotten   \* history: deployments whose statistics were dropped in mid-call

stats == <<inFlight, sampled>>
history == <<leaked, forgotten>>
vars == <<breaker, table, stats, req, streak, history>>

Phases == {"idle", "built", "sending", "backoff"}
Results == {"none", "ok", "rejected", "upstream", "unavailable", "error"}

Request ==
    [pc : Phases, chain : Seq(Backends), pos : Nat, attempt : 0 .. Attempts,
     sends : Nat, result : Results]

TypeOK ==
    /\ breaker \in [Providers -> ProviderState]
    /\ table \in Tables
    /\ inFlight \in [Deployments -> Nat]
    /\ sampled \subseteq Deployments
    /\ req \in [Requests -> Request]
    /\ streak \in [Providers -> 0 .. FailThreshold]
    /\ leaked \in [Deployments -> Nat]
    /\ forgotten \subseteq Deployments

Unsent == [pc |-> "idle", chain |-> <<>>, pos |-> 0, attempt |-> 0,
           sends |-> 0, result |-> "none"]

Init ==
    /\ breaker = [p \in Providers |-> Closed]
    /\ table \in Tables
    /\ inFlight = [d \in Deployments |-> 0]
    /\ sampled = {}
    /\ req = [r \in Requests |-> Unsent]
    /\ streak = [p \in Providers |-> 0]
    /\ leaked = [d \in Deployments |-> 0]
    /\ forgotten = {}

-------------------------------------------------------------------------------
\* The backend and the provider a request is waiting for.
BackendOf(r) == req[r].chain[req[r].pos]
CandidateProvider(r) == ProviderOf[BackendOf(r)]

Answers(r) == Outcomes[r][BackendOf(r)]

Longer(n) == IF n < FailThreshold THEN n + 1 ELSE n

\* note_start and note_end count the calls of load-balanced deployments only.
NoteStart(load, b) == IF b \in Deployments THEN [load EXCEPT ![b] = @ + 1] ELSE load
NoteEnd(load, b) ==
    IF b \in Deployments /\ load[b] > 0 THEN [load EXCEPT ![b] = @ - 1] ELSE load

\* Mutant: the success is not reported to the breaker.
RecordSuccess_Dropped(p) ==
    /\ UNCHANGED breaker
    /\ streak' = [streak EXCEPT ![p] = 0]

RecordSuccess(p) ==
    /\ breaker' = [breaker EXCEPT ![p] = Succeeded(@)]
    /\ streak' = [streak EXCEPT ![p] = 0]

\* Mutant: one breaker for all providers.
AfterFailure_Global(p) == [q \in Providers |-> Failed(breaker[q])]

AfterFailure(p) == [breaker EXCEPT ![p] = Failed(@)]

\* The first candidate at or after position i whose circuit is not open.
FirstAdmitted(chain, i, j, br) ==
    /\ ~IsOpen(br[ProviderOf[chain[j]]])
    /\ \A k \in i .. j - 1 : IsOpen(br[ProviderOf[chain[k]]])

NoneAdmitted(chain, i, br) ==
    \A k \in i .. Len(chain) : IsOpen(br[ProviderOf[chain[k]]])

Finish(r, result) ==
    req' = [req EXCEPT ![r] = [Unsent EXCEPT !.result = result]]

\* The loop of execute_with_fallback from candidate i on, up to its next
\* await: skip the open circuits, then start a call; with no candidate left,
\* return the last failure.  br and load are the breaker and the counts so far.
Loop(r, chain, i, sends, br, load) ==
    \/ \E j \in i .. Len(chain) :
          /\ FirstAdmitted(chain, i, j, br)
          /\ breaker' = [br EXCEPT ![ProviderOf[chain[j]]] = Checked(@)]
          /\ inFlight' = NoteStart(load, chain[j])
          /\ req' = [req EXCEPT ![r] =
                       [pc |-> "sending", chain |-> chain, pos |-> j,
                        attempt |-> 1, sends |-> sends + 1, result |-> "none"]]
    \/ /\ NoneAdmitted(chain, i, br)
       /\ breaker' = br
       /\ inFlight' = load
       /\ req' = [req EXCEPT ![r] =
                    [Unsent EXCEPT !.chain = chain,
                     !.result = IF i > Len(chain) THEN "upstream" ELSE "unavailable"]]

-------------------------------------------------------------------------------
\* build_candidates; then the cache is asked, for as long as that takes.
Build(r, chain) ==
    /\ req[r].pc = "idle"
    /\ \A d \in Deployments : leaked[d] < MaxLeaks
    /\ chain # <<>>
    /\ req' = [req EXCEPT ![r] = [Unsent EXCEPT !.pc = "built", !.chain = chain]]
    /\ UNCHANGED <<breaker, table, stats, streak, history>>

\* execute_with_fallback
Execute(r) ==
    /\ req[r].pc = "built"
    /\ Loop(r, req[r].chain, 1, 0, breaker, inFlight)
    /\ UNCHANGED <<table, sampled, streak, history>>

\* An attempt answers 200: Success.
AttemptOk(r) ==
    /\ req[r].pc = "sending"
    /\ "ok" \in Answers(r)
    /\ inFlight' = NoteEnd(inFlight, BackendOf(r))
    /\ sampled' = sampled \cup ({BackendOf(r)} \cap Deployments)
    /\ RecordSuccess(CandidateProvider(r))
    /\ Finish(r, "ok")
    /\ UNCHANGED <<table, history>>

\* Mutant: the first attempt is not counted as one.
HasAttemptsLeft_OffByOne(r) == req[r].attempt <= Attempts

HasAttemptsLeft(r) == req[r].attempt < Attempts

\* A transient failure with attempts left: sleep before the next one.
AttemptTransient(r) ==
    /\ req[r].pc = "sending"
    /\ "transient" \in Answers(r)
    /\ HasAttemptsLeft(r)
    /\ req' = [req EXCEPT ![r].pc = "backoff"]
    /\ UNCHANGED <<breaker, table, stats, streak, history>>

\* Mutant: the attempts are not counted.
Retry_Uncounted(r) ==
    /\ req[r].pc = "backoff"
    /\ req' = [req EXCEPT ![r].pc = "sending"]
    /\ UNCHANGED <<breaker, table, stats, streak, history>>

\* The sleep is over: try again.
Retry(r) ==
    /\ req[r].pc = "backoff"
    /\ req' = [req EXCEPT ![r].pc = "sending", ![r].attempt = @ + 1, ![r].sends = @ + 1]
    /\ UNCHANGED <<breaker, table, stats, streak, history>>

\* The last attempt fails: the provider is marked unhealthy and the loop goes
\* on with the next candidate, without an await in between.
AttemptsExhausted(r) ==
    /\ req[r].pc = "sending"
    /\ "transient" \in Answers(r)
    /\ ~HasAttemptsLeft(r)
    /\ Loop(r, req[r].chain, req[r].pos + 1, req[r].sends,
            AfterFailure(CandidateProvider(r)), NoteEnd(inFlight, BackendOf(r)))
    /\ streak' = [streak EXCEPT ![CandidateProvider(r)] = Longer(@)]
    /\ UNCHANGED <<table, sampled, history>>

\* Mutant: a relayed 4xx forgets note_end.
AttemptRejected_NoNoteEnd(r) ==
    /\ req[r].pc = "sending"
    /\ "reject" \in Answers(r)
    /\ Finish(r, "rejected")
    /\ UNCHANGED <<breaker, table, stats, streak, history>>

\* ClientError: relayed, no failover, no verdict on the provider.
AttemptRejected(r) ==
    /\ req[r].pc = "sending"
    /\ "reject" \in Answers(r)
    /\ inFlight' = NoteEnd(inFlight, BackendOf(r))
    /\ Finish(r, "rejected")
    /\ UNCHANGED <<breaker, table, sampled, streak, history>>

\* Any other exception leaves the function: nobody calls note_end.
AttemptRaises(r) ==
    /\ req[r].pc = "sending"
    /\ "raise" \in Answers(r)
    /\ leaked' = NoteStart(leaked, BackendOf(r))
    /\ Finish(r, "error")
    /\ UNCHANGED <<breaker, table, stats, streak, forgotten>>

-------------------------------------------------------------------------------
Calling(b) == {r \in Requests : req[r].pc \in {"sending", "backoff"} /\ BackendOf(r) = b}

\* DeploymentRegistry.set: the statistics of deployments that are not there
\* any more are dropped, also those that have calls under way.  (One may come
\* back: SQLite gives the id of the last row away again once it is deleted, and
\* a reload that read before a delete may be the last to set.)
Reload(t) ==
    /\ table' = t
    /\ inFlight' = [d \in Deployments |-> IF d \in t.live THEN inFlight[d] ELSE 0]
    /\ sampled' = sampled \cap t.live
    /\ leaked' = [d \in Deployments |-> IF d \in t.live THEN leaked[d] ELSE 0]
    /\ forgotten' = forgotten \cup {d \in Deployments \ t.live : Calling(d) # {}}
    /\ UNCHANGED <<breaker, req, streak>>

Tick ==
    /\ \E p \in Providers : Aged(breaker[p]) # breaker[p]
    /\ breaker' = [p \in Providers |-> Aged(breaker[p])]
    /\ UNCHANGED <<table, stats, req, streak, history>>

\* An upstream call comes to an end, one way or another.
Answer(r) ==
    \/ AttemptOk(r) \/ AttemptTransient(r) \/ AttemptsExhausted(r)
    \/ AttemptRejected(r) \/ AttemptRaises(r)

Next ==
    \/ \E r \in Requests :
          \/ \E ask \in Asks :
                \E chain \in build_candidates(ask, table.enabled, inFlight, sampled) : Build(r, chain)
          \/ Execute(r) \/ Answer(r) \/ Retry(r)
    \/ \E t \in Tables : Reload(t)
    \/ Tick

\* Time passes, the cache answers, the HTTP client's timeout ends every call,
\* and a sleeping retry wakes up.
Fairness ==
    /\ WF_vars(Tick)
    /\ \A r \in Requests : WF_vars(Execute(r)) /\ WF_vars(Answer(r)) /\ WF_vars(Retry(r))

Spec == Init /\ [][Next]_vars /\ Fairness

-------------------------------------------------------------------------------
\* The load balancer's count of a deployment is the number of requests waiting
\* for it, retries and backoff included, plus the calls that leaked: no other
\* path through the error handling of execute_with_fallback loses or repeats
\* its note_end.  Once statistics were dropped in mid-call, the calls that are
\* counted no more end all the same; the count is then too low, never too high.
InFlightAccounted ==
    \A d \in Deployments :
        LET actual == Cardinality(Calling(d)) + leaked[d]
        IN  /\ inFlight[d] <= actual
            /\ d \notin forgotten => inFlight[d] = actual

\* What holds of the state itself: its types and this account.
AccountInv == TypeOK /\ InFlightAccounted

\* "the next request's ordering reflects reality": with the least-busy strategy
\* a chain has a model's deployments in the order of the calls really under way
\* at them, unless calls have leaked or been forgotten.
LeastBusyFirst ==
    [][\A r \in Requests :
         LET chain == req'[r].chain
             counted(i) == chain[i] \in Deployments \ forgotten /\ leaked[chain[i]] = 0
         IN  req[r].pc = "idle" /\ req'[r].pc = "built" /\ Strategy = "least-busy" =>
               \A i, j \in DOMAIN chain :
                  i < j /\ counted(i) /\ counted(j) /\ ModelOf[chain[i]] = ModelOf[chain[j]] =>
                     Cardinality(Calling(chain[i])) <= Cardinality(Calling(chain[j]))]_vars

\* One client request costs at most Attempts upstream requests per backend:
\* neither a retry, a failover nor a fallback list that repeats itself returns
\* to a backend given up before.
AmplificationBounded ==
    \A r \in Requests : req[r].sends <= Attempts * Cardinality(ToSet(req[r].chain))

\* Failover works: a request with a candidate at a provider that answers 200 to
\* everything does not fail for want of an answer, whatever other requests,
\* other providers and reloads do meanwhile.  (A healthy key of a provider with
\* another, failing key is not enough: they share the provider's circuit.)
Reliable(p) ==
    \A b \in Backends, q \in Requests : ProviderOf[b] = p => Outcomes[q][b] = {"ok"}

HealthyServes ==
    \A r \in Requests :
        req[r].result \in {"upstream", "unavailable"} =>
            \A i \in DOMAIN req[r].chain : ~Reliable(ProviderOf[req[r].chain[i]])

\* Every request gets its answer, however many attempts and candidates fail.
Answered == \A r \in Requests : req[r].pc # "idle" ~> req[r].pc = "idle"

\* The requests use the breaker as CircuitBreaker says, so what is shown there
\* holds here.
CallingProvider ==
    [r \in Requests |->
        IF req[r].pc \in {"sending", "backoff"} THEN CandidateProvider(r) ELSE NoProvider]

Driven == INSTANCE CircuitBreaker WITH
            Callers <- Requests, at <- CallingProvider

DrivesBreaker == Driven!Spec
===============================================================================
