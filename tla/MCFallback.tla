------------------------------ MODULE MCFallback ------------------------------
(***************************************************************************)
(* A small instance of Fallback: two requests; one model with two keys of  *)
(* a flaky provider, and one with the environment's credential for a       *)
(* provider that serves well.                                              *)
(***************************************************************************)
EXTENDS Fallback, TLC

CONSTANTS r1, r2,      \* two requests
          m1, m2,      \* two models
          d1, d2,      \* the deployments of m1
          e1, e2,      \* the credentials of the environment
          p1, p2       \* two providers

MCEnvCredential == (m1 :> e1) @@ (m2 :> e2)
MCModelOf == [b \in Backends |-> IF b = e2 THEN m2 ELSE m1]
MCProviderOf == [b \in Backends |-> IF b = e2 THEN p2 ELSE p1]

\* The environment has no key for the first provider.
MCConfigured == {d1, d2, e2}

\* A fallback list may name the model itself, or a model twice.
MCAsks == {<<m1, m1>>, <<m1, m2>>, <<m2, m1, m2>>}

\* All deployments there and enabled; one disabled; one deleted, and its row's
\* id given to a new deployment later.
MCTables ==
    {[live |-> {d1, d2}, enabled |-> {d1, d2}],
     [live |-> {d1, d2}, enabled |-> {d2}],
     [live |-> {d2}, enabled |-> {d2}]}

\* The keys of the first provider fail in all ways, the second provider never.
FlakyFirst ==
    [r \in Requests |->
        [b \in Backends |->
            CASE b = d1 -> {"ok", "transient"}
              [] b = d2 -> IF r = r1 THEN {"transient"} ELSE {"reject", "raise"}
              [] b = e1 -> {"transient"}
              [] b = e2 -> {"ok"}]]

\* On this instance the loop makes just the chains that are promised.
ASSUME JustAsPromised ==
    \A ask \in UNION {[1 .. n -> Models] : n \in 1 .. 3}, enabled \in SUBSET Deployments,
       load \in [Deployments -> 0 .. 2], samples \in SUBSET Deployments :
        build_candidates(ask, enabled, load, samples) = Promised(ask, enabled, load, samples)
===============================================================================
