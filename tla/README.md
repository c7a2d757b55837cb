# Verification of the Ingress AI gateway

TLA+ specifications of the parts of this gateway in which requests, replicas
and time interact, the TLC runs that check them on small instances, and
theorems about them that TLAPS checks for every value of the constants. Paths
are relative to the repository; line numbers refer to `app/`.

## 1. The system

A request to `/v1/chat/completions` resolves its virtual key (with the usage of
the key and its team), is admitted or refused by a series of limits, is turned
into a chain of candidates, and is sent upstream by a loop that retries and
fails over; the response goes out, and background tasks send alerts and write
the usage record. One process serves many requests on one event loop: code
between two `await`s is atomic, everything else interleaves. Several processes
(replicas) share the database and, if configured, Redis; breaker, statistics,
registries, response cache (unless Redis holds it), alerts memory and the
concurrency counter belong to the process. Requests to `/mcp` resolve the same
keys and write the same usage records, and pass tool listings and tool calls on
to upstream servers an administrator registers.

| Part (source) | State | Operations | What makes it correct | Hard because |
|---|---|---|---|---|
| Circuit breaker (`router/health.py`) | failures and opening time per provider | `is_open` (half-opens), `record_success`, `record_failure` | a down provider is left alone, a healthy one is not, and no circuit stays open for ever | all requests share it; verdicts come in late |
| Fallback and retries (`resilience/`) | position in the chain, attempt | `execute_with_fallback`, `with_retries` | a reliable candidate serves; bounded upstream calls; counts given back on every path | failures of other requests change the circuit between awaits |
| Rate limiter (`core/ratelimit.py`) | a bucket per key and model | `acquire` in memory or in Redis | no window grants more than burst and refill; Retry-After can be relied on | lazy refill, changing limits, clock readings that travel with calls |
| Concurrency limiter (`core/concurrency.py`) | a count per key | `acquire`, `release` | no slot lost, none given back twice, cap held | hand-off to a stream; cap changes in between |
| Budgets (`core/auth.py`), alerts, usage (`observability/`) | usage records; fired markers | `resolve_key`, `budget_exceeded`, `tokens_in_last_minute`, `check_key_budget`, `record_usage` | bounded overshoot of budget and minute; an alert per level and window; a record per answer | checked before, charged after the response; writes fail |
| Load balancer (`router/deployments.py`, `selector.py`) | deployments, in-flight counts, latency average | `ordered`, `note_start`, `note_end`, `set`, `reload` | counts are the calls under way; the chain holds each deployment once | reloads while calls are under way |
| Registries (`core/model_registry.py`, `router/deployments.py`, `mcp/registry.py`) and admin API (`api/admin.py`) | tables; a snapshot per process | CRUD followed by `reload` | snapshots agree with the tables in the end; references stay valid | check-then-act over awaits; reloads overtake each other; other replicas are not told |
| MCP gateway (`api/mcp.py`, `mcp/client.py`, `mcp/registry.py`) | server table and snapshot; a session id per client; usage records | `tools/list`, `tools/call`, the client's handshake, admin writes and `reload` | a namespaced tool reaches the server it names; one bad upstream does not hide the others; a disabled server is left alone; every call is recorded | name splitting, an await at every post, servers renamed meanwhile |
| Response cache (`core/cache.py`) and admission (`api/chat.py`) | entries with expiry; where a request is | `get`, `set`; the checks of `create_chat_completion` in order | an answer is served only for the tenant and model it was given for, and only in time; every way out gives the slot back | aliases repointed in mid-request; concurrent misses |
| Streaming (`api/chat.py`, `providers/`) | first chunk, usage holder, the adapter's counts | choice of a provider, first chunk, translation, relay, terminal error | usage and text are captured as they were said; a stream ends with its terminator; streams do not keep a circuit open | chunks cut anywhere, breaks, client disconnects |
| Startup (`main.py`, `db/session.py`, `db/migrate.py`, `db/seed.py`) | schema, seeded tables, where each replica is | create, migrate, seed, load | complete when serving, seeded once, deletions stick, all serve in the end | replicas start together, and die |
| Database sessions (`db/session.py`) | connection pool | `get_session` | no request waits for a connection only it could free | background tasks use further sessions |
| Schemas, guardrails, configuration, metrics, prices, dashboard | none that changes | conversions, output | not state machines | not modelled |

`PROJECT.json` lists every part with its status, and under "hazards" the lines
at which something could go wrong that a test would hardly reach.

## 2. Modules

| Module | Models | Composes / refines |
|---|---|---|
| `Breaker` | one provider's circuit as a record, and the operations on it | |
| `CircuitBreaker` | any callers driving the circuits of any providers | uses `Breaker` |
| `LoadBalancer` | `build_candidates` and `ordered`: the loop from a model and its fallbacks to the chains there may be, and what the docstring promises of them | |
| `Fallback` | `execute_with_fallback`, `with_retries`, the counts of the load balancer, reloads of the deployments | extends `Breaker` and `LoadBalancer`; implements `CircuitBreaker` |
| `Stream` | the streaming branch: choice of a provider, the streams of the three adapters, relay, capture | extends `Breaker` |
| `Bucket` | the arithmetic of a token bucket | |
| `IdealBucket` | what a bucket promises: topped up at every tick | uses `Bucket` |
| `TokenBucket` | `InMemoryTokenBucket` while limits change | implements `IdealBucket` |
| `RedisBucket` | `RedisTokenBucket`: calls that take time and overtake each other, the script, the expiry | uses `Bucket` |
| `RateLimiter` | the choice of one of the two backends at startup | extends both |
| `ConcurrencyLimiter` | the limiter, and how the chat endpoint takes, hands over and gives back a slot | |
| `ChatCompletion` | `create_chat_completion` from the door to the answer: alias, slot, response cache, ways out | extends `ConcurrencyLimiter`, and takes one of its actions along with each of its own |
| `BudgetLedger` | key resolution, budget and minute checks, embeddings, alerts, usage records that may get lost | |
| `Registry` | models, credentials and deployments in the database, the admin requests that write them, and the snapshots one process routes by | |
| `McpNames` | the names of tools behind the MCP gateway, put together and taken apart | |
| `McpGateway` | `tools/list` and `tools/call`, the client, the registry of servers and its admin writes, the ledger of calls | extends `McpNames` |
| `Startup` | replicas that create, migrate, seed and load over one database, and die | |
| `CircuitBreakerProofs`, `FallbackProofs`, `BudgetLedgerProofs`, `RegistryProofs`, `McpGatewayProofs`, `StartupProofs` | theorems | extend the module they are about |
| `ChatCompletionProofs` | theorems about `ConcurrencyLimiter`, `ChatCompletion` and `Stream` | extends the last two |
| `TokenBucketProofs` | theorems about `TokenBucket` and `RedisBucket` | extends both |
| `MC...` | instances for TLC | |

How the modules fit together. `create_chat_completion` touches nearly all parts;
one model of everything would be far beyond exploring, so it is cut where the
code passes values and shares no state. `ChatCompletion` has its order of
checks, its slot and its cache, and abstracts what the upstream call does to
"answered" or "failed". `Fallback` has that call for plain requests and `Stream`
for streams: both drive the same breaker, through the same `Breaker` operators.
`BudgetLedger` has what it reads when it is resolved and what it writes when it
is over; `TokenBucket` and `RedisBucket` what the rate limit says in between.
`Registry` shows what a snapshot may be, and `Fallback` takes any sequence of
them (`Reload`).

How state corresponds. Times are kept as ages relative to the present, so that
no clock grows: `opened_at` is the ticks since (`age`, -1 for `None`), a
bucket's stamp is `age` in `TokenBucket` and `lag` in `RedisBucket`, saturated
where older makes no difference, and a cache entry has the time `left` to it. A
tick is an arbitrary fraction of `reset_timeout`, of a minute or of the cache's
TTL. Tokens are scaled by `Minute` so that they are whole: a tick refills
`limit` units and a request costs `Minute`. The rounding of floating point is
not modelled. A dictionary without an entry is the value the code reads for it
(a closed circuit, a count of 0, a full bucket). Of a latency average only
whether there is one is kept; an order that chance or the table decides is a
set of chains.

How actions correspond. An action is the code between two suspension points. In
`Fallback`, `Build` ends where the cache is awaited, `Execute` is the way from
there to the first call, and `AttemptsExhausted` is the last failed attempt,
`note_end`, `record_failure` and the whole way through `continue` to the next
request being sent, skipped circuits included, because nothing in there awaits.
A retry's sleep and the call itself are two phases (`backoff`, `sending`). In
`BudgetLedger`, the key's usage and the team's are read in two steps, each query
being awaited; the webhook call lies between setting the marker and going on.
In `RedisBucket`, reading the clock and running the script are two steps, and
the script is one.

In `Registry` an admin request is a chain of such steps: the first query
(`Begin`), a second one where the handler has one (`Check`), the commit (an
action named after its handler), the refresh of the row, the queries of the
reload (`ReadModels`; `ReadCredentials`, then `ReadDeployments`) and the swap of
the snapshot (`Store`). Each request has its own session, so that a query sees
what the others have committed, and a commit may fail. `Refused` stands for all
ways of being turned away before anything is written (404, 409, a constraint of
the table, a lost connection), `ReloadFails` for a failing query afterwards. A
row that is created under the name or the id of a deleted one counts as that
row.

In `ChatCompletion` the checks before the first await are one step (`Checks`),
the awaited rate and token limits the pause before `Admitted`, which takes the
slot; the cache is asked (`Hit`, `Miss`), the upstream called (`Answered`,
`Fails`) or the slot handed to a stream (`StreamStarts`). In `McpGateway` every
post of a client is a step - initialize, the notification, the operation - and
a request's clients take them independently, as `gather` lets them. Requests
that are answered at once (initialize, ping, refusals) change nothing and are
no actions. In `Stream` an upstream stream is a script of events; a translated
one moves by whole events, a passed-through one by half lines, so that chunks
end anywhere. In `Startup` each step is a check and, an await later, a commit in
the same transaction; the database refuses what exists already, which makes the
startup raise and the replica exit.

History variables (`streak`, `leaked`, `forgotten`, `granted`, `elapsed`,
`grants`, `window`, `promise`, `renewed`, `posted`, `consumed`, `lost`, `rewound`,
`covers`, `passed`, `excused`, `raced`, `forwarded`, `raised`, `old`, `original`, and the fields
`age`, `tenant`, `model` of a cache entry and `dones`, `failed`, `split` of a
stream) are read by properties only, and by the guards that bound a run.

## 3. Runs

| Run | Question | Instance |
|---|---|---|
| `breaker` | Is an open circuit left alone (`BoundedHammering`), opened only for a series of failures (`OpenOnlyAfterStreak`), and opened up again (`ReopensForTrial`)? | 3 callers, 2 providers, threshold 2, timeout 2 |
| `fallback` | Are in-flight counts kept on every path (`AccountInv`), do they order the chains (`LeastBusyFirst`), are upstream calls bounded (`AmplificationBounded`), does a reliable provider serve (`HealthyServes`), is everything answered (`Answered`), is the breaker used as specified (`DrivesBreaker`)? | 2 requests; a model with two deployments at a flaky provider, one with the environment's key at a reliable one; fallback lists with repetitions; 2 attempts; deployments disabled, deleted and back |
| `stream` | Is what is captured what was said (`CaptureInv`), does a stream end with a terminator (`EndsOnce`), do streams let a circuit half-open (`TrialComes`)? | 2 streams, an adapter of each kind, two providers that may refuse, one of them with an alternative |
| `rate_limiter` | In memory: is the window bound kept while limits change (`WindowBound`), is Retry-After honest (`RetryAfterHonest`), is lazy refilling not observable (`ImplementsIdeal`)? In Redis: what do late and overtaken calls get at most (`SharedBound`)? | limits 1 to 3, windows of 6 ticks; 3 calls, limit 3, delays up to 2, windows of 5; a minute of 4 ticks |
| `redis_race` | Is no time credited twice, whatever the order of arrival (`NothingCreditedTwice`)? It is. | the same |
| `chat` | Is a slot ever lost (`NoGhostSlots`)? For a key that stays capped, is the count exact (`CounterExact`) and the cap held (`NoOverbooking`)? Does the cache answer for the right tenant and model only (`CacheScoped`), and in time (`CacheFresh`)? | 2 requests, 2 tenants, a key with caps 0 and 1 and one with 1 and 2, an alias of two models, a TTL of 2 |
| `budget` | Is the overshoot of budgets (`OvershootBounded`) and of the minute (`TpmBounded`) bounded, is no alert repeated (`AlertsOnce`), is every answer charged unless its write failed (`LedgerComplete`)? | 2 requests; a key with a daily budget, and no minute limit but its models', in a team whose budget a second key shares, which has one of its own and is used for embeddings too; a model with a limit and one without; 1 token a request, 1 lost record |
| `budget_hard_alert` | Is the hard alert sent at 100%? No. | 1 request, 1 key |
| `registry` | Does what a deployment refers to stay (`ReferencesHold`), and does the process route by the tables once all requests are answered (`SnapshotsFresh`)? | 2 admin requests at a time, any number in a row, over a new or an upgraded database; 1 model, 2 credentials with 2 secrets, 1 deployment; 1 raced deletion |
| `mcp` | Do names resolve to the servers that listed them (`ToolsNeverCollide`), are listings complete (`ListComplete`), calls recorded (`AccountInv`), disabled servers left alone (`DisabledLeftAlone`)? | a request and an admin request at a time, any number in a row; a stateful server that answers and one that fails in every way; a free and a restricted key; 2 calls |
| `mcp_namespace` | The same for a server whose name ends with an underscore: no. | its tool `b`, and a server without the underscore |
| `startup` | Is a serving replica complete (`StartupInv`), do deletions stick (`DeletionsStick`), do all serve in the end (`EventuallyServes`)? | 3 replicas, a new and an old database, 1 crash, 2 edits |

Bounds, and why they are enough. Two concurrent requests show every race
between two handlers; three callers (`breaker`) and three replicas (`startup`)
show that no property depends on there being two, and the theorems of section 4
that none does of those they state. A threshold of 2 is the least at which
"consecutive" means something; a timeout of 1 or 2 ticks separates "open",
"about to expire" and "expired". Two providers suffice for failing over, and two
keys of one provider for sharing a circuit and for an order by load. Windows
(`MaxElapsed`, `MaxWindow`) are longer than a minute, so that a bucket fills up, empties and
fills again within one; `Mark` starts a window at any moment, so all windows up
to that length are covered. `FailureCap` saturates the failure count above
anything the threshold looks at. `MaxLeaks` stops new requests once a count has
leaked, `MaxLost` failing writes once a record is lost: more adds nothing new.
Two credentials let a deployment move from one to the other while either is
rotated or deleted. `MaxRaced` ends a behaviour of `registry` once more than one
deletion has been raced, since what a raced reference excuses, it excuses for
good; `Upgraded` has it start from an old database too. One request at a time suffices in `mcp`
because requests meet only in the registry, which the admin changes under them,
and in the ledger, which is a sum; the clients within a listing are two. (With one
administrator no row is deleted under another's deletion; the theorems have any.)
`MaxCalls` of 2 leaves one record pending or lost while the next call is made.
The names of `mcp` include one with a separator, which must be refused. The
scripts of `stream` hold what the adapters treat differently: counts that come
one by one, repeated and replaced counts, events without a counterpart, an
empty stream, a usage after the last text. One crash in `startup` falls on any
replica at any step, with two others under way; two edits empty a table, or fill
one behind a replica that found it empty. Runs with symmetry check safety and
action properties only. `startup` does not check for deadlock: once all replicas
serve and the bound on edits is reached there is nothing left to do.

Fairness. `CircuitBreaker` and `Stream` assume time passes, no more: clients and
upstreams need not do anything, and `TrialComes` holds however many clients ask
for streams. `Fallback` assumes that the cache answers, that every upstream call
ends (the HTTP client has a timeout, `main.py` line 33) and that a sleep ends;
nothing is assumed of clients and reloads. `Startup` assumes that the database
answers and that whoever runs the replicas starts an exited one again; the
repository's compose file has no restart policy, so there an operator has to. The
number of crashes and of edits is bounded there, which is what "once no more of
them die" means. Each of these is weak fairness of one step, which the event
loop grants.

## 4. What is proved

For every number of callers, providers, keys, requests and replicas, every
chain, script, threshold, timeout, budget, cap, limit and resolution of time,
under the named assumptions on the constants (finite sets of requests, positive
threshold, timeout, minute and limits, and the shape of chains, scopes and
scripts; TLC evaluates them in every run):

* `CircuitBreakerProofs`: `TypeCorrect`, `HammeringBounded`,
  `OpensAfterStreak`. `BoundedHammering` is not inductive: it says nothing of
  who may still fail. `HammeringInv` counts the calls under way to an open
  provider together with its failures; an open circuit admits nobody, so their
  sum cannot grow, and when a circuit opens the sum is at most
  `FailThreshold - 1` and all callers. `StreakInv` ties the count of a closed
  circuit to the current series of failures.
* `FallbackProofs`: `TypeCorrect`, `AmplificationHolds`, `HealthyServesHolds`,
  `AccountHolds`, `LeastBusyHolds`, `DrivesBreakerSafely`. The invariant
  `Courses` says where a request is on its chain: it has sent at most `Attempts`
  to each backend before the present one, and every candidate it has passed is
  at a provider that may fail; and the circuit of one that never fails is
  untouched (`SparesReliable`), so that nobody passes over it for what others
  did elsewhere. That a chain names no backend twice (`Injective`) comes from
  the deduplication of `build_candidates` and makes positions backends:
  `CandidatesAsPromised` says of its loop, and of the key filter after it, that
  they make only chains in which each candidate of the models asked for stands
  once and in order, by adding one model, or one candidate, after the other to a
  chain in good order (`GoodOrderGoesOn`). That they make all of those is
  checked on the instance of `fallback` (`JustAsPromised`). A count is
  the calls under way and the leaked ones (`Balanced`, request by request in
  `OthersBalanced`), or less where a reload forgot it. `DrivesBreakerSafely`
  shows each step to be one of `CircuitBreaker` or none: a skipped circuit is
  not half-opened by being skipped, since only an expired one is not skipped.
* `BudgetLedgerProofs`: `TypeCorrect`, `OvershootHolds`, `MinuteHolds`,
  `LedgerIsComplete`, `AlertedOnce`. `OvershootBounded` is not inductive: what
  was consumed says nothing of who is about to consume more. `Reserved` sets an
  answer aside for each request that has seen the budget not exhausted, and says
  that with it the bound still holds; a request joins only when the records are
  below the budget, and then `Covered` (the consumed is recorded, lost or about to
  be recorded) bounds the consumed. `MinuteReserved` is the same argument for the
  minute, for any limit (`Watched`): it counts the records of completions that
  were admitted under that limit or a lower one, and the requests past that check;
  one joins only when all that the key was charged for is below. For the alerts, `MarkedFirst`: whoever may still post has set the
  marker alone, and it was not posted before. `Routed` says where a request is
  among the scopes of its key.
* `ChatCompletionProofs`, of the limiter: `TypeCorrect`, `NoSlotLost`,
  `CountExact`, `CapHolds`. Besides the counts the invariant needs `Snapshots`:
  a request under way carries a cap its key may have, so that one of an always
  capped key was counted. Cardinalities change by one with the request that
  joins or leaves (`Joining`, `Leaving`), and not otherwise (`Staying`).
* `TokenBucketProofs`: `TypeCorrect`, `WindowsBounded`, `RetryAfterIsHonest`,
  `RefillIsLazy`. `WindowBound` holds although limits change because what was
  granted is bounded together with what the bucket could still be credited at
  the largest limit (`GrantInv`), which changing the limit leaves alone.
  `PromiseInv` says that what is missing comes in by the end of the promise. The
  refinement rests on two facts about the refill: crediting n + 1 ticks is
  crediting n and topping up for one (`RefillByTicks`), and a minute fills any
  bucket (`MinuteFills`). Of the bucket in Redis, `RedisTypeCorrect` and
  `SharedBucketBounded`, whatever the order of arrival. `SharedInv` bounds what
  was granted and what may yet be credited together: a bucket is credited back to
  its stamp, which may be `MaxDelay` before the window, and comes back full and
  with such a stamp whenever its key has expired; a call that was overtaken puts
  the stamp back, and that time is credited again (`CreditAgain`), which
  `rewound` adds up and the bound grants (`MayGrantMore`).
* `RegistryProofs`: `TypeCorrect`, `ReferencesStay`, `SnapshotsStayFresh`. `ReferencesHold` is not
  inductive: a deletion whose check has passed commits without looking again.
  The invariant adds that when one request under way gives what
  another takes, the taking one is known to be `raced` (`Apart`), and that what a
  request has checked still holds when it commits, but for a target that is
  (`StillAllowed`). `SnapshotsFresh` speaks of answered
  requests; of those under way the invariant says which of them the process
  relies on. Reloads of one registry are ordered by what they have seen of each
  other (`Ordered`), and one that no later one has overtaken will store what is
  true now, or there is a request it has not seen that will store something
  later (`Witnessed`). Commits that leave a registry as it is (a credential no
  deployment uses) need no reload, and have none.
* `McpGatewayProofs`: `GatewayHolds`, `AccountHolds`, `NeverCollide`, `ListHolds`,
  `DisabledHolds`. `GatewayInv` has the types, that only checked names are
  routed by (`NamesChecked`), that a snapshot is the table unless a reload is under way
  or one came late (`SnapshotTrue`), that each client is where the answers to its
  posts have brought it (`AllOnTrack`), and the account. Two of the theorems
  assume `EndsClean`, that no server's name ends with an underscore: the code
  does not check that, and `mcp_namespace` shows what happens otherwise. Under it
  `Demuxed` says for names of any length that a name put together is taken apart
  where it was joined.
* `ChatCompletionProofs`: `DrivesLimiter`, and from it and the theorems about the
  limiter `ChatLosesNoSlot`, `ChatCountsExactly` and `ChatHoldsCap`: each step of
  the endpoint takes one step of `ConcurrencyLimiter` along, or none.
  `ChatTypeCorrect`, `CacheIsScoped`, `CacheIsFresh` come from `CacheInv`: an
  entry was given for the tenant and the model in its key, and the time left to
  it and its age add up to the TTL.
* `ChatCompletionProofs`, of streams: `StreamsEndOnce`, for any scripts of any
  length and chunks cut anywhere. The terminator of a translated stream is the
  last thing its adapter yields (`YieldedOnce`), and it may still be in the chunk
  that waits for the body to be asked for. `Flowing` counts both, so that the
  relay has sent one when the script is at its end, and none before, where it
  may be broken off.
* `ChatCompletionProofs`, of what is captured: `CapturedAsSaid`, which includes
  the types of `Stream`. `CaptureExact` speaks of streams that have ended
  or been left by their client; the
  invariant `Capturing` says at every point of a stream that what has been
  captured, once the chunk pulled ahead has been looked at (`Caught`), is what
  was said so far, and of a translated one that its adapter remembers what was
  reported (`Heard`). What a chunk adds is shown line by line: `_sniff_usage` is
  a fold, which `LineByLine` unfolds, what was said and reported grows event by
  event (`SaidSteps`, `ReportedSteps`), and the two are compared for chunks of
  any length (`WholeChunkHeard`, `AnyChunkHeard`). The induction behind these,
  and behind the loop of `build_candidates`, is `ByInduction`, over a set of
  numbers and by the well-foundedness of `<`; the library's own takes an operator
  as a parameter and cannot be instantiated.
* `StartupProofs`: `TypeCorrect`, `DeletionsStay`, `ServingIsComplete`. Only a
  seeding writes to a seeded table, and only where no name of the environment
  is (`OnlySeedingWrites`). `StartupInv` speaks of replicas that serve; the
  invariant `CompleteInv` says of every transaction what a replica past it relies
  on (`Past`), and of a replica in the middle of one that what it has found is
  still there, or will be refused.

Only model-checked: liveness, which is `ReopensForTrial`, `TrialComes`,
`Answered`, `EventuallyServes`, and the fairness part of `DrivesBreaker`. The
prover does not reason about fairness. Every other property of a passing run is
stated by a theorem.

## 5. Where the code and its documentation differ

Each of these was met while modelling. The first three have a run; the models
contain the others as they are, and the properties are stated so as to say what
holds all the same.

Shown by a run:

* A request over budget is refused before the alert task is added (`chat.py`
  line 242), and only requests within budget add one, so the hard alert is never
  sent. `budget_hard_alert`.
* A server whose name ends with an underscore is allowed (`admin.py` line 1021),
  and its tools are taken apart one character too early (`mcp.py` line 163): the
  tool `b` of `a_` is called as `_b` of `a`. `mcp_namespace`.
* The Redis script runs on the server "so concurrent replicas can't race"
  (`ratelimit.py` lines 7-8), but it stores the reading its caller took (line 96),
  even if it is older than the one it replaces (line 35). A call that was overtaken
  puts the stamp back, and the next one is credited the same time again.
  `redis_race`. `SharedBound` says what is to be gained by it: what is refilled in
  the time put back, `rewound`, and no more.

Circuits and streams:

* A half-open circuit lets everybody through (`health.py` lines 31-35); its
  docstring promises one trial.
* The streaming branch drives the breaker by rules of its own (`chat.py` lines
  333-355). A 4xx at the start counts as a failure of the provider, where
  `fallback.py` (lines 41-43) and `retry.py` (line 21) count transient ones only.
  It never records a success, so `OpenOnlyAfterStreak`, which holds of plain
  requests, does not hold with streams. With all circuits open it goes to the
  first candidate all the same and restarts the timeout when that fails; a
  provider that is somebody's only candidate may then stay open for ever. Hence
  `Spared` in `TrialComes`.
* Keys of one provider share its circuit (`fallback.py` line 50), so a failing
  key can take a healthy one with it. `HealthyServes` is therefore stated of
  reliable providers.
* Usage is looked for in single chunks (`chat.py` line 116). The usage line of a
  passed-through stream that is cut in two is not recognised, and the stream is
  recorded with the usage seen before, or 0. `CaptureExact` says so with `split`.
* A translated stream that breaks off is recorded with 0 tokens, whatever the
  upstream has reported: the adapter yields its counts at the end only. A
  passed-through one that breaks off after its own `[DONE]` gets a second one
  (`EndsOnce`).
* A stream that is refused at its start is not recorded (`chat.py` line 348),
  and a stream whose generator is never started never gives its slot back
  (line 376); the latter depends on the server and is not modelled.

Limits, budgets, alerts:

* In Redis the bound needs a term for the time a call is under way, besides: once
  for the window, and once more for each expiry of the key, since expiry counts
  from the script and the stamp from the reading.
* `release` does not know whether its request was counted (`concurrency.py` line
  23): a request admitted without a cap frees a slot of a key that has got one
  since. `CounterExact` and `NoOverbooking` are therefore stated of keys that
  stay capped; `NoGhostSlots` holds of all.
* The alert marker names the period, not the window (`alerts.py` line 67): a
  daily budget's soft alert is sent on one day only. `AlertsOnce` is what holds.
* A usage record that cannot be written is logged and forgotten (`usage.py` line
  90): that request is free. `LedgerComplete` counts it as `lost`.
* The tokens of a minute are summed over all of a key's models (`auth.py` lines
  127-130), and compared with the key's own limit or else with the default of the
  model asked for (`chat.py` line 291). A key without a limit of its own may
  therefore use far more in a minute than the limit of one of its models, through
  another model with a higher limit or none; it is then refused by the first.
  `TpmBounded` bounds, for every limit there is, the completions admitted under it
  or a lower one.
* Embeddings are not checked against the minute's limit, though they fill it,
  and schedule no alert. Requests that are refused after the door run the alert
  task but are not recorded.
* An exception that is neither transient nor a client error skips `note_end`
  (`fallback.py` lines 65-82). `InFlightAccounted` counts such calls in `leaked`.
* Under the latency strategy a deployment without a sample sorts first
  (`deployments.py` line 105), and a failure gives none, so one that always fails
  is always tried first.
* A deleted team is inactive (`admin.py` line 912), but keys are resolved
  without looking at that.
* `InMemoryCache` drops an entry only when it is asked for after its time.

Administration and MCP:

* Deployments are only created for models that are routed by themselves
  (`admin.py` lines 739-756), but a model that has deployments may be made an
  alias (line 553), and they are never routed to again.
* Deleting looks for references and then deletes, creating looks for the target
  and then creates (`admin.py` lines 569-578, 678-694, 779-786). When both looks
  pass, a deployment is left without its model or credential: `ReferencesHold` and
  `SnapshotsFresh` know such deletions as `raced`, and say that no other reference
  is lost. Nor does the deletion of a credential reload, so that the process goes
  on routing by the raced one until its next reload.
* A migrated database lets a deployment have no credential (`migrate.py` line 46,
  against `models.py` line 133): old ones have none, and a PATCH with a null
  commits (`admin.py` lines 806-810). `ReferencesHold` allows it there (`Upgraded`).
  Such a deployment is not routed to; the answer to that PATCH and to a listing
  that has one is a 500, since `DeploymentInfo` wants a number.
* A reload that began earlier and ends later puts its older snapshot in place of
  the newer one (`model_registry.py` line 38, `deployments.py` lines 56-84), where
  it stays until the next change; so does one whose queries fail. `excused` in
  `SnapshotsFresh` marks these two, and `SnapshotsFresh` says there is no other
  way to be out of date; `old` in `DisabledLeftAlone` does the same.
* A reload drops the counts of deleted deployments though calls to them are under
  way (`deployments.py` line 87); their later `note_end` stops at zero, so the
  count is too low if the id is given out again. `forgotten`.
* Other replicas are not told of a change: they route by what they loaded until
  they change something themselves or restart. `Registry` models one process.
* Renaming an MCP server to a name that is taken meets the constraint of the
  table and is a 500 (`admin.py` lines 1059-1061), where creating one is a 409.
* An upstream that sends something that is no JSON-RPC message fails a whole
  listing, while the other fetches go on for nobody (`mcp.py` line 144), and
  leaves a call without a record. `ListComplete` and `CallsAccounted` say so.
* A table whose rows an administrator deletes all is seeded again at the next
  start, against "deletions ... stick" (`seed.py`); a replica that found it empty
  seeds it even if it has got other names since. `DeletionsStick` holds as long
  as one of the environment's names is left.
* Replicas that start together on an empty or old database get into each other's
  way, and all but one exit (`migrate.py` line 61, `seed.py`). They end up serving
  only if something starts them again (`EventuallyServes`).

## 6. Not modelled, and the plan

Left out for good: schemas, guardrails, secrets, configuration, logging,
metrics, prices, the dashboard, scripts. They hold no state that changes; what
they convert is abstracted where a model needs it. Of the adapters the streams
are modelled; building requests and parsing whole answers is conversion without
state. Of the database sessions the schema is; the connection pool and what a
request holds while it waits for it belong to the library, and nothing in the
source shows it. Teams and keys are created, patched and deactivated by single
commits without a reload; what of them matters to a running request (limits,
caps, scopes) is in the modules that read it. Cost budgets repeat token budgets
with another unit.

Still to do: a second replica in `Registry`, to say how long a change may go
unnoticed.
