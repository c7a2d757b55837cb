---------------------------- MODULE MCBudgetLedger ----------------------------
(***************************************************************************)
(* Small instances of BudgetLedger: a key with a daily budget, alone or in *)
(* a team whose budget a second key without one of its own shares.         *)
(***************************************************************************)
EXTENDS BudgetLedger, TLC

CONSTANTS r1, r2, k1, k2, team, m1, m2

MCSymmetry == Permutations(Requests)

MCScopes == {k1, team}
TeamScopes == (k1 :> <<k1, team>>) @@ (k2 :> <<team>>)
OwnScope == k1 :> <<k1>>

\* k1 has no minute limit but its models', and one of them has none.
MCKeyTpm == (k1 :> 0) @@ (k2 :> 1)
MCModelTpm == (m1 :> 1) @@ (m2 :> 0)
NoTpm == k1 :> 0
NoDefault == m2 :> 0

MCBudget == [s \in MCScopes |-> IF s = team THEN 2 ELSE 1]
MCSoftLimit == [s \in MCScopes |-> 1]
===============================================================================
