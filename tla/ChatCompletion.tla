---------------------------- MODULE ChatCompletion ----------------------------
(***************************************************************************)
(* create_chat_completion (app/api/chat.py) from the checks at the door to *)
(* the answer: the alias it resolves, the slot it holds (each action takes *)
(* one of ConcurrencyLimiter along), the exact-match response cache        *)
(* (app/core/cache.py), and the ways out of its try block.  Requests       *)
(* interleave at every await, and an admin repoints aliases meanwhile.     *)
(*                                                                         *)
(* Requests that differ in their text only are the same payload here but   *)
(* for their model.  What execute_with_fallback does is Fallback's         *)
(* subject, what a stream relays is Stream's, what is charged is           *)
(* BudgetLedger's.                                                         *)
(***************************************************************************)
EXTENDS ConcurrencyLimiter

CONSTANTS
    Tenants,
    TenantOf,    \* virtual_keys.tenant_id
    Models,      \* models that are no aliases
    Aliases,     \* registered names with an alias_of
    MayUse,      \* for each key, the names it may ask for
    Ttl,         \* settings.cache_ttl_seconds, in ticks
    NoModel

ASSUME ChatAssumption ==
    /\ TenantOf \in [Keys -> Tenants]
    /\ Models \cap Aliases = {} /\ NoModel \notin Models \cup Aliases
    /\ MayUse \in [Keys -> SUBSET (Models \cup Aliases)]
    /\ Ttl \in Nat

VARIABLES
    aliasOf,    \* ModelRegistry: what each alias resolves to
    chat,       \* the requests: the name asked for, the model resolved, how far
    cache       \* InMemoryCache._store: (tenant, model) -> entry

chatVars == <<aliasOf, chat, cache>>
allVars == <<vars, chatVars>>

Stages == {"idle", "door", "checked", "lookup", "calling", "streaming"}
Chat == [at : Stages, asked : Models \cup Aliases \cup {NoModel}, model : Models \cup {NoModel}]

\* An entry: the time left to it; and, as history, how long ago it was answered,
\* for whom and in place of which model.
Entry == [left : 0 .. Ttl, age : 0 .. Ttl, tenant : Tenants, model : Models]
CacheKeys == Tenants \X (Models \cup Aliases)

ChatTypeOK ==
    /\ TypeOK
    /\ aliasOf \in [Aliases -> Models]
    /\ chat \in [Requests -> Chat]
    /\ DOMAIN cache \subseteq CacheKeys /\ cache \in [DOMAIN cache -> Entry]

NoChat == [at |-> "idle", asked |-> NoModel, model |-> NoModel]

ChatInit ==
    /\ Init
    /\ aliasOf \in [Aliases -> Models]
    /\ chat = [r \in Requests |-> NoChat]
    /\ cache = [x \in {} |-> x]

-------------------------------------------------------------------------------
\* ModelRegistry.resolve_alias
Target(name) == IF name \in Aliases THEN aliasOf[name] ELSE name

Forget(r) == chat' = [chat EXCEPT ![r] = NoChat]
Moves(r, stage) == chat' = [chat EXCEPT ![r].at = stage]

\* require_key, then the handler is called.
Arrives(r, k, name) ==
    /\ Resolve(r, k)
    /\ chat' = [chat EXCEPT ![r] = [at |-> "door", asked |-> name, model |-> NoModel]]
    /\ UNCHANGED <<aliasOf, cache>>

\* The key may use the model, whatever the alias stands for; with its budget
\* and the guardrails this is all before the first await.
Checks(r) ==
    /\ chat[r].at = "door"
    /\ chat[r].asked \in MayUse[req[r].key]
    /\ chat' = [chat EXCEPT ![r].at = "checked", ![r].model = Target(chat[r].asked)]
    /\ UNCHANGED <<vars, aliasOf, cache>>

\* 403, 402, 400 or 429.
Refused(r) ==
    /\ Reject(r)
    /\ Forget(r)
    /\ UNCHANGED <<aliasOf, cache>>

\* Rate and token limits have been awaited; now the slot is taken.
Admitted(r) ==
    /\ chat[r].at = "checked"
    /\ Acquire(r)
    /\ Moves(r, "lookup")
    /\ UNCHANGED <<aliasOf, cache>>

-------------------------------------------------------------------------------
\* Mutant: the key is made of the name the client asked for.
CacheKey_Asked(r) == <<TenantOf[req[r].key], chat[r].asked>>

CacheKey(r) == <<TenantOf[req[r].key], chat[r].model>>

Live(entry) == entry.left > 0

Cached(r) == CacheKey(r) \in DOMAIN cache /\ Live(cache[CacheKey(r)])

\* Mutant: an entry that is used is given its full time again.
Hit_Renews(r) ==
    /\ chat[r].at = "lookup" /\ Cached(r)
    /\ Finish(r)
    /\ Forget(r)
    /\ cache' = [cache EXCEPT ![CacheKey(r)].left = Ttl]
    /\ UNCHANGED aliasOf

Hit(r) ==
    /\ chat[r].at = "lookup" /\ Cached(r)
    /\ Finish(r)
    /\ Forget(r)
    /\ UNCHANGED <<aliasOf, cache>>

\* An entry found expired is popped.
Miss(r) ==
    /\ chat[r].at = "lookup" /\ ~Cached(r)
    /\ cache' = [x \in DOMAIN cache \ {CacheKey(r)} |-> cache[x]]
    /\ Moves(r, "calling")
    /\ UNCHANGED <<vars, aliasOf>>

\* Success: stored under the model that was asked for, whichever candidate it
\* was that answered, and over what another request may have stored meanwhile.
Answered(r) ==
    LET entry == [left |-> Ttl, age |-> 0, tenant |-> TenantOf[req[r].key], model |-> chat[r].model]
    IN  /\ chat[r].at = "calling"
        /\ cache' = [x \in DOMAIN cache \cup {CacheKey(r)} |->
                        IF x = CacheKey(r) THEN entry ELSE cache[x]]
        /\ Finish(r)
        /\ Forget(r)
        /\ UNCHANGED aliasOf

\* The upstream's failure is relayed; or there is no candidate with a key, the
\* stream is refused, or an exception leaves the handler: nothing is stored.
Fails(r) ==
    /\ chat[r].at \in {"lookup", "calling"}
    /\ Finish(r)
    /\ Forget(r)
    /\ UNCHANGED <<aliasOf, cache>>

\* A request that streams neither reads nor fills the cache.
StreamStarts(r) ==
    /\ chat[r].at = "lookup"
    /\ HandOff(r)
    /\ Moves(r, "streaming")
    /\ UNCHANGED <<aliasOf, cache>>

StreamEnds(r) ==
    /\ chat[r].at = "streaming"
    /\ StreamDone(r)
    /\ Forget(r)
    /\ UNCHANGED <<aliasOf, cache>>

-------------------------------------------------------------------------------
\* PATCH /admin/keys, PATCH /admin/models
KeyPatched(k, limit) == Patch(k, limit) /\ UNCHANGED chatVars

Repoint(a, m) ==
    /\ aliasOf[a] # m
    /\ aliasOf' = [aliasOf EXCEPT ![a] = m]
    /\ UNCHANGED <<vars, chat, cache>>

\* Time passes.
Tick ==
    /\ \E x \in DOMAIN cache : cache[x].left > 0
    /\ cache' = [x \in DOMAIN cache |->
                    [cache[x] EXCEPT !.left = IF @ > 0 THEN @ - 1 ELSE 0,
                                     !.age = IF @ < Ttl THEN @ + 1 ELSE Ttl]]
    /\ UNCHANGED <<vars, aliasOf, chat>>

ChatNext ==
    \/ \E r \in Requests :
          \/ \E k \in Keys, name \in Models \cup Aliases : Arrives(r, k, name)
          \/ Checks(r) \/ Refused(r) \/ Admitted(r)
          \/ Hit(r) \/ Miss(r) \/ Answered(r) \/ Fails(r) \/ StreamStarts(r) \/ StreamEnds(r)
    \/ \E k \in Keys : \E limit \in LimitsOf[k] : KeyPatched(k, limit)
    \/ \E a \in Aliases, m \in Models : Repoint(a, m)
    \/ Tick

ChatSpec == ChatInit /\ [][ChatNext]_allVars

-------------------------------------------------------------------------------
\* "so a cache is never shared across tenants", and an "exact-match lookup": an
\* answer from the cache was given for the same tenant and in place of the very
\* model the alias stood for when this request was checked, however often the
\* alias was repointed while answers were under way.
CacheScoped ==
    [][\A r \in Requests : Hit(r) =>
          /\ cache[CacheKey(r)].tenant = TenantOf[req[r].key]
          /\ cache[CacheKey(r)].model = chat[r].model]_allVars

\* "per-entry TTL": no answer is served once it is Ttl old, however often it was
\* asked for - also one a fallback gave during an outage, which stands in for
\* the model asked for until then.
CacheFresh ==
    [][\A r \in Requests : Hit(r) => cache[CacheKey(r)].age < Ttl]_allVars
===============================================================================
