--------------------------- MODULE MCChatCompletion ---------------------------
(* Two tenants with a key each, one at times without a cap and one always     *)
(* with one, that ask for an alias of two models.                             *)
EXTENDS ChatCompletion, TLC

CONSTANTS r1, r2, free, capped, t1, t2, m1, m2, a1

MCKeys == {free, capped}
MCLimitsOf == (free :> {0, 1}) @@ (capped :> {1, 2})
MCTenantOf == (free :> t1) @@ (capped :> t2)
MCMayUse == (free :> {a1}) @@ (capped :> {a1})
MCSymmetry == Permutations(Requests) \cup Permutations(Models)
===============================================================================
