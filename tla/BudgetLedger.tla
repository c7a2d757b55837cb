----------------------------- MODULE BudgetLedger -----------------------------
(***************************************************************************)
(* Token budgets: how a request reads what its key and its team have used  *)
(* (app/core/auth.py: resolve_key), is admitted or refused by that reading *)
(* and by the tokens of the last minute (app/api/chat.py), and is charged  *)
(* only after its response was sent, by background tasks that run one      *)
(* after the other: the budget alert (app/observability/alerts.py), then   *)
(* the usage record (app/observability/usage.py), which may get lost.      *)
(* Embeddings are charged without an alert and without the minute's limit. *)
(* Cost budgets work alike.                                                *)
(*                                                                         *)
(* A scope is a key or a team that carries a budget.                       *)
(***************************************************************************)
EXTENDS Naturals, Sequences, FiniteSets

CONSTANTS
    Scopes,
    Windowed,     \* the scopes whose budget_period is daily or monthly
    Keys,
    ScopesOf,     \* for each key, the scopes with a budget: itself, then its team
    Budget,       \* for each scope
    SoftLimit,    \* for each scope: the usage at which the soft alert is due
    Requests,     \* the requests served at the same time
    MaxTokens,    \* the most tokens one request can be charged
    Models,
    KeyTpm,       \* for each key: its own tpm_limit, 0 for none
    ModelTpm,     \* for each model: its default_tpm, 0 for none
    Watched,      \* the tokens-per-minute limit observed: any positive number
    Embedders,    \* the keys used for embeddings
    MaxLost,      \* bound: no more writes fail once a scope has lost so many tokens
    NoKey

ASSUME BudgetAssumption ==
    /\ IsFiniteSet(Requests)
    /\ Windowed \subseteq Scopes
    /\ NoKey \notin Keys
    /\ ScopesOf \in [Keys -> Seq(Scopes)]
    /\ Budget \in [Scopes -> Nat \ {0}]
    /\ SoftLimit \in [Scopes -> Nat]
    /\ MaxTokens \in Nat /\ MaxLost \in Nat
    /\ KeyTpm \in [Keys -> Nat] /\ ModelTpm \in [Models -> Nat]
    /\ Watched \in Nat \ {0}
    /\ Embedders \subseteq Keys

VARIABLES
    spent,     \* the usage records of the scope's current window, summed
    req,       \* where each request is, and the usage it has read
    fired,     \* alerts._fired
    posted,    \* history: alerts posted in the scope's window by this process
    consumed,  \* history: tokens answered in the scope's window
    lately,    \* the usage records of each key's last minute, summed; apart
               \* (history) those of completions admitted under Watched or less
    lost       \* history: tokens of the scope's window whose record was lost

vars == <<spent, req, fired, posted, consumed, lately, lost>>

Levels == {"soft", "hard"}
Phases == {"idle", "resolving", "resolved", "metering", "serving", "embedding",
           "alerting", "posting", "recording"}

Request ==
    [pc : Phases, key : Keys \cup {NoKey}, at : Nat,
     seen : [Scopes -> Nat], limit : Nat, tokens : 0 .. MaxTokens, served : BOOLEAN]

Minute == [strict : Nat, other : Nat]

TypeOK ==
    /\ spent \in [Scopes -> Nat]
    /\ req \in [Requests -> Request]
    /\ fired \subseteq Scopes \X Levels
    /\ posted \in [Scopes -> [Levels -> Nat]]
    /\ consumed \in [Scopes -> Nat]
    /\ lately \in [Keys -> Minute]
    /\ lost \in [Scopes -> Nat]

Idle == [pc |-> "idle", key |-> NoKey, at |-> 0,
         seen |-> [s \in Scopes |-> 0], limit |-> 0, tokens |-> 0, served |-> FALSE]

NonePosted == [level \in Levels |-> 0]

Init ==
    /\ spent = [s \in Scopes |-> 0]
    /\ req = [r \in Requests |-> Idle]
    /\ fired = {}
    /\ posted = [s \in Scopes |-> NonePosted]
    /\ consumed = [s \in Scopes |-> 0]
    /\ lately = [k \in Keys |-> [strict |-> 0, other |-> 0]]
    /\ lost = [s \in Scopes |-> 0]

MyScopes(r) == ScopesOf[req[r].key]
ScopeAt(r) == MyScopes(r)[req[r].at]
Charged(k) == {ScopesOf[k][i] : i \in DOMAIN ScopesOf[k]}

\* Adding n to the scopes a key is charged to.
Charge(ledger, k, n) ==
    [s \in Scopes |-> IF s \in Charged(k) THEN ledger[s] + n ELSE ledger[s]]

-------------------------------------------------------------------------------
\* resolve_key finds the key ...
Resolve(r, k) ==
    /\ req[r].pc = "idle"
    /\ req' = [req EXCEPT ![r] = [Idle EXCEPT !.pc = "resolving", !.key = k, !.at = 1]]
    /\ UNCHANGED <<spent, fired, posted, consumed, lately, lost>>

\* ... and sums the usage of each scope by a query of its own.
ReadUsage(r) ==
    /\ req[r].pc = "resolving"
    /\ req[r].at <= Len(MyScopes(r))
    /\ req' = [req EXCEPT ![r].seen[ScopeAt(r)] = spent[ScopeAt(r)], ![r].at = @ + 1]
    /\ UNCHANGED <<spent, fired, posted, consumed, lately, lost>>

Resolved(r) ==
    /\ req[r].pc = "resolving"
    /\ req[r].at > Len(MyScopes(r))
    /\ req' = [req EXCEPT ![r].pc = "resolved"]
    /\ UNCHANGED <<spent, fired, posted, consumed, lately, lost>>

\* Mutant: the budget itself is still within the budget.
Exceeds_OffByOne(r, s) == req[r].seen[s] > Budget[s]

Exceeds(r, s) == req[r].seen[s] >= Budget[s]

BudgetExceeded(r) == \E s \in Charged(req[r].key) : Exceeds(r, s)

\* The levels of a scope that a request's reading has reached, highest first.
Crossed(r, s) ==
    IF Exceeds(r, s) THEN {"hard"}
    ELSE IF req[r].seen[s] >= SoftLimit[s] THEN {"soft"} ELSE {}

\* A request over budget is refused at once: no background task is added.
Refuse(r) ==
    /\ req[r].pc = "resolved"
    /\ BudgetExceeded(r)
    /\ req' = [req EXCEPT ![r] = Idle]
    /\ UNCHANGED <<spent, fired, posted, consumed, lately, lost>>

\* The tokens-per-minute limit of a request (0 for none): the key's own, or the
\* default of the model asked for.
TpmLimit(k, m) == IF KeyTpm[k] # 0 THEN KeyTpm[k] ELSE ModelTpm[m]

\* A request within budget goes on: its alert is scheduled, and its limits are
\* those of the model its alias stands for by now.
Serve(r) ==
    /\ req[r].pc = "resolved"
    /\ ~BudgetExceeded(r)
    /\ \E m \in Models :
          req' = [req EXCEPT ![r].pc = "metering", ![r].limit = TpmLimit(req[r].key, m)]
    /\ UNCHANGED <<spent, fired, posted, consumed, lately, lost>>

\* Mutant: the limit is the last amount that still lets a request through.
WithinMinute_OffByOne(r) ==
    LET last == lately[req[r].key]
    IN  req[r].limit # 0 => last.strict + last.other <= req[r].limit

\* tokens_in_last_minute, a query of its own: all that the key was charged for,
\* whichever the model.
WithinMinute(r) ==
    LET last == lately[req[r].key]
    IN  req[r].limit # 0 => last.strict + last.other < req[r].limit

\* All the checks are passed; the request goes to the provider.
Metered(r) ==
    /\ req[r].pc = "metering"
    /\ WithinMinute(r)
    /\ req' = [req EXCEPT ![r].pc = "serving"]
    /\ UNCHANGED <<spent, fired, posted, consumed, lately, lost>>

\* One of them is not (guardrail, rate, tokens, concurrency): the refusal has
\* the alert among its background tasks, but no usage record.
Limited(r) ==
    /\ req[r].pc = "metering"
    /\ req' = [req EXCEPT ![r].pc = "alerting", ![r].at = 1]
    /\ UNCHANGED <<spent, fired, posted, consumed, lately, lost>>

\* create_embeddings: no alert, and no look at the last minute.
Embed(r) ==
    /\ req[r].pc = "resolved" /\ req[r].key \in Embedders
    /\ ~BudgetExceeded(r)
    /\ req' = [req EXCEPT ![r].pc = "embedding"]
    /\ UNCHANGED <<spent, fired, posted, consumed, lately, lost>>

Embedded(r, n) ==
    /\ req[r].pc = "embedding"
    /\ req' = [req EXCEPT ![r].pc = "recording", ![r].tokens = n, ![r].served = TRUE]
    /\ consumed' = Charge(consumed, req[r].key, n)
    /\ UNCHANGED <<spent, fired, posted, lately, lost>>

\* A refusal or a failure of the provider is relayed and not recorded.
EmbeddingFails(r) ==
    /\ req[r].pc = "embedding"
    /\ req' = [req EXCEPT ![r] = Idle]
    /\ UNCHANGED <<spent, fired, posted, consumed, lately, lost>>

\* Mutant: the prompt is counted again with the total.
Respond_CountsTwice(r, n) ==
    /\ req[r].pc = "serving"
    /\ req' = [req EXCEPT ![r].pc = "alerting", ![r].at = 1, ![r].served = TRUE,
                              ![r].tokens = n + n]
    /\ consumed' = Charge(consumed, req[r].key, n)
    /\ UNCHANGED <<spent, fired, posted, lately, lost>>

\* The response, with the tokens the provider reports (0 for a failure) or the
\* cached answer had, is sent; the background tasks start.
Respond(r, n) ==
    /\ req[r].pc = "serving"
    /\ req' = [req EXCEPT ![r].pc = "alerting", ![r].at = 1, ![r].served = TRUE,
                              ![r].tokens = n]
    /\ consumed' = Charge(consumed, req[r].key, n)
    /\ UNCHANGED <<spent, fired, posted, lately, lost>>

\* Mutant: an alert that is posted leaves no marker.
MaybeFire_Unmarked(r) ==
    /\ req[r].pc = "alerting"
    /\ req[r].at <= Len(MyScopes(r))
    /\ IF \E level \in Crossed(r, ScopeAt(r)) : <<ScopeAt(r), level>> \notin fired
         THEN req' = [req EXCEPT ![r].pc = "posting"]
         ELSE req' = [req EXCEPT ![r].at = @ + 1]
    /\ UNCHANGED <<spent, fired, posted, consumed, lately, lost>>

\* _maybe_fire for the next scope: an alert is due if the reading crossed a
\* level and the marker of (scope, period, level) is not there yet.  It is set
\* before the webhook is called, and never cleared.
MaybeFire(r) ==
    LET s == ScopeAt(r)
        due == {level \in Crossed(r, s) : <<s, level>> \notin fired}
    IN  /\ req[r].pc = "alerting"
        /\ req[r].at <= Len(MyScopes(r))
        /\ fired' = fired \cup ({s} \X due)
        /\ req' = IF due # {} THEN [req EXCEPT ![r].pc = "posting"]
                              ELSE [req EXCEPT ![r].at = @ + 1]
        /\ UNCHANGED <<spent, posted, consumed, lately, lost>>

\* The webhook has been called, or failed: the loop goes on.
Posted(r) ==
    LET s == ScopeAt(r)
    IN  /\ req[r].pc = "posting"
        /\ posted' = [posted EXCEPT ![s] =
                        [level \in Levels |->
                           IF level \in Crossed(r, s) THEN @[level] + 1 ELSE @[level]]]
        /\ req' = [req EXCEPT ![r].pc = "alerting", ![r].at = @ + 1]
        /\ UNCHANGED <<spent, fired, consumed, lately, lost>>

AlertsDone(r) ==
    /\ req[r].pc = "alerting"
    /\ req[r].at > Len(MyScopes(r))
    /\ req' = [req EXCEPT ![r] = IF @.served THEN [@ EXCEPT !.pc = "recording"] ELSE Idle]
    /\ UNCHANGED <<spent, fired, posted, consumed, lately, lost>>

\* The completions of which TpmBounded speaks.
Strict(r) == req[r].limit \in 1 .. Watched

Metering(last, r) ==
    IF Strict(r) THEN [last EXCEPT !.strict = @ + req[r].tokens]
                 ELSE [last EXCEPT !.other = @ + req[r].tokens]

\* record_usage commits the usage record,
RecordUsage(r) ==
    LET k == req[r].key
    IN  /\ req[r].pc = "recording"
        /\ spent' = Charge(spent, k, req[r].tokens)
        /\ lately' = [lately EXCEPT ![k] = Metering(@, r)]
        /\ req' = [req EXCEPT ![r] = Idle]
        /\ UNCHANGED <<fired, posted, consumed, lost>>

\* Mutant: it tries again after an error that came after the commit.
RecordFails_Retries(r) ==
    /\ req[r].pc = "recording"
    /\ \A s \in Charged(req[r].key) : lost[s] < MaxLost
    /\ spent' = Charge(spent, req[r].key, req[r].tokens)
    /\ lost' = Charge(lost, req[r].key, req[r].tokens)
    /\ UNCHANGED <<req, fired, posted, consumed, lately>>

\* ... or fails to: "best-effort", the record is lost.
RecordFails(r) ==
    /\ req[r].pc = "recording"
    /\ \A s \in Charged(req[r].key) : lost[s] < MaxLost
    /\ lost' = Charge(lost, req[r].key, req[r].tokens)
    /\ req' = [req EXCEPT ![r] = Idle]
    /\ UNCHANGED <<spent, fired, posted, consumed, lately>>

\* Midnight, or the first of the month: a new window, counted from zero.
NewWindow(s) ==
    /\ s \in Windowed
    /\ spent' = [spent EXCEPT ![s] = 0]
    /\ consumed' = [consumed EXCEPT ![s] = 0]
    /\ posted' = [posted EXCEPT ![s] = NonePosted]
    /\ lost' = [lost EXCEPT ![s] = 0]
    /\ UNCHANGED <<req, fired, lately>>

\* Records come to be older than a minute.
MinutePasses(k, left) ==
    /\ left # lately[k]
    /\ left.strict <= lately[k].strict /\ left.other <= lately[k].other
    /\ lately' = [lately EXCEPT ![k] = left]
    /\ UNCHANGED <<spent, req, fired, posted, consumed, lost>>

\* What a request under way does next.
Proceed(r) ==
    \/ ReadUsage(r) \/ Resolved(r) \/ Refuse(r) \/ Serve(r)
    \/ Metered(r) \/ Limited(r) \/ Embed(r) \/ EmbeddingFails(r)
    \/ \E n \in 0 .. MaxTokens : Respond(r, n) \/ Embedded(r, n)
    \/ MaybeFire(r) \/ Posted(r) \/ AlertsDone(r) \/ RecordUsage(r) \/ RecordFails(r)

Next ==
    \/ \E r \in Requests : Proceed(r) \/ \E k \in Keys : Resolve(r, k)
    \/ \E s \in Scopes : NewWindow(s)
    \/ \E k \in Keys :
          \E left \in [strict : 0 .. lately[k].strict, other : 0 .. lately[k].other] :
             MinutePasses(k, left)

\* The queries, the provider and the webhook all answer or time out.
Spec == Init /\ [][Next]_vars /\ \A r \in Requests : WF_vars(Proceed(r))

-------------------------------------------------------------------------------
\* Budgets are checked against a ledger that lags behind; still a window's
\* consumption exceeds its budget by no more than what the requests served at
\* the same time may use, and what was never written down, whatever the order
\* of reading, answering and recording, and for keys that share a team budget
\* as well.
OvershootBounded ==
    \A s \in Scopes :
        consumed[s] < Budget[s] + lost[s] + Cardinality(Requests) * MaxTokens

\* A tokens-per-minute limit is compared with all a key was charged for, late
\* and by whichever model, before a completion is sent, and embeddings are not
\* checked.  What holds: the completions of a key that are under some limit, or
\* under a lower one, exceed it in no minute by more than what the requests
\* served at the same time may use.  For a key with a limit of its own that is
\* all its completions; for another, those for models with a higher limit or none
\* come on top.
TpmBounded ==
    \A k \in Keys : lately[k].strict < Watched + Cardinality(Requests) * MaxTokens

\* What has been answered is charged once to each scope: it is in the ledger, or
\* about to be written, or its record is lost; refusals charge nothing.
Unwritten(s) ==
    {r \in Requests : /\ req[r].pc \in {"alerting", "posting", "recording"}
                      /\ s \in Charged(req[r].key)}

UnwrittenTokens(s) == {t \in Unwritten(s) \X (1 .. MaxTokens) : t[2] <= req[t[1]].tokens}

LedgerComplete ==
    \A s \in Scopes \ Windowed :
        consumed[s] = spent[s] + lost[s] + Cardinality(UnwrittenTokens(s))

\* "each level fires at most once per budget window, in-process"
AlertsOnce == \A s \in Scopes, level \in Levels : posted[s][level] <= 1

\* "a hard alert at 100%": once a request finds a budget used up, the alert is
\* posted sooner or later.  (A daily budget may start anew before it is.)
HardAlertAtLimit ==
    \A s \in Scopes \ Windowed, r \in Requests :
        req[r].pc = "resolved" /\ s \in Charged(req[r].key) /\ Exceeds(r, s)
            ~> posted[s]["hard"] > 0
===============================================================================
