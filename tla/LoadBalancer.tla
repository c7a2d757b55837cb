----------------------------- MODULE LoadBalancer -----------------------------
(***************************************************************************)
(* From a model and its fallbacks to a chain of candidates: the operators  *)
(* behind build_candidates (app/router/selector.py) and the ordering       *)
(* strategies of DeploymentRegistry (app/router/deployments.py).           *)
(*                                                                         *)
(* A backend is a deployment, or a model without any together with its     *)
(* credential in the environment.  Where the order is left to chance -     *)
(* weighted random picks, equal loads in the order the table happens to    *)
(* have - the operators return all chains there may be.                    *)
(***************************************************************************)
EXTENDS Naturals, Sequences, FiniteSets, SequencesExt

CONSTANTS
    Models,        \* the names that are no aliases
    Deployments,
    EnvCredential, \* for each model: the backend it has without deployments
    ModelOf,       \* Candidate.model
    Configured,    \* the backends with an API key
    Strategy       \* settings.routing_strategy

Strategies == {"simple-shuffle", "least-busy", "latency"}

Backends == Deployments \cup {EnvCredential[m] : m \in Models}

ASSUME BalancerAssumption ==
    /\ IsFiniteSet(Deployments)
    /\ ModelOf \in [Backends -> Models]
    /\ \A m \in Models : EnvCredential[m] \notin Deployments /\ ModelOf[EnvCredential[m]] = m
    /\ Configured \subseteq Backends
    /\ Strategy \in Strategies

\* Enabled deployments of a model.
Pool(m, enabled) == {d \in enabled : ModelOf[d] = m}

Expanded(m, enabled) == IF Pool(m, enabled) # {} THEN Pool(m, enabled) ELSE {EnvCredential[m]}

\* Mutant: the busiest first.
InOrder_Reversed(d, e, load, sampled) ==
    CASE Strategy = "least-busy" -> load[d] >= load[e]
      [] Strategy = "latency"    -> e \notin sampled => d \notin sampled
      [] OTHER                   -> TRUE

\* May d come before e, another deployment of the model?  One without a latency
\* sorts first; how two latencies compare is left open.
InOrder(d, e, load, sampled) ==
    CASE Strategy = "least-busy" -> load[d] <= load[e]
      [] Strategy = "latency"    -> e \notin sampled => d \notin sampled
      [] OTHER                   -> TRUE

\* DeploymentRegistry.ordered, or the one credential: the orders there may be.
ordered(m, enabled, load, sampled) ==
    {pool \in SetToSeqs(Expanded(m, enabled)) :
        \A i, j \in DOMAIN pool : i < j => InOrder(pool[i], pool[j], load, sampled)}

Seen(ask, i) == \E j \in 1 .. i - 1 : ask[j] = ask[i]

\* The loop over the models asked for, with the pool each gets.
Expansion(ask, pools) ==
    LET chain[i \in 0 .. Len(ask)] ==
          IF i = 0 THEN <<>>
          ELSE IF Seen(ask, i) THEN chain[i - 1]
          ELSE chain[i - 1] \o pools[ask[i]]
    IN  chain[Len(ask)]

\* The candidates with an API key.
WithKey(chain) ==
    LET kept[i \in 0 .. Len(chain)] ==
          IF i = 0 THEN <<>>
          ELSE IF chain[i] \in Configured THEN Append(kept[i - 1], chain[i])
          ELSE kept[i - 1]
    IN  kept[Len(chain)]

\* The chains a request may get.
build_candidates(ask, enabled, load, sampled) ==
    LET orders(m) == ordered(m, enabled, load, sampled)
        choices == {pools \in [ToSet(ask) -> UNION {orders(m) : m \in ToSet(ask)}] :
                       \A m \in ToSet(ask) : pools[m] \in orders(m)}
    IN  {WithKey(Expansion(ask, pools)) : pools \in choices}

-------------------------------------------------------------------------------
\* Of two models asked for, m is named first; later mentions do not count.
NamedBefore(ask, m, n) ==
    \E i \in DOMAIN ask : ask[i] = m /\ \A j \in 1 .. i : ask[j] # n

\* Does candidate b come before candidate c?  Models go in the order they are
\* asked for, and a model's deployments in the order of the strategy.
Precedes(ask, b, c, load, sampled) ==
    \/ NamedBefore(ask, ModelOf[b], ModelOf[c])
    \/ ModelOf[b] = ModelOf[c] /\ InOrder(b, c, load, sampled)

\* A model's deployments or its credential in the environment, each model once,
\* and only those with a key.
CandidatesFor(ask, enabled) ==
    Configured \cap UNION {Expanded(m, enabled) : m \in ToSet(ask)}

\* What the docstring promises of a chain: "the requested model first, then any
\* fallback models", "one candidate per healthy deployment, ordered by the
\* load-balancing strategy", "duplicates are dropped, order preserved".
Promised(ask, enabled, load, sampled) ==
    {chain \in SetToSeqs(CandidatesFor(ask, enabled)) :
        \A i, j \in DOMAIN chain : i < j => Precedes(ask, chain[i], chain[j], load, sampled)}
===============================================================================
