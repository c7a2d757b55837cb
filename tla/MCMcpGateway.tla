----------------------------- MODULE MCMcpGateway -----------------------------
(* Two upstreams: a stateful one that always answers and one that fails in   *)
(* every way; a key without restrictions and one with a scope.               *)
EXTENDS McpGateway, TLC

CONSTANTS r1, a1, s1, s2, k1, k2

A == <<"a">>
B == <<"b">>
A_ == <<"a", "_">>
A__B == <<"a", "_", "_", "b">>

MCIds == {s1, s2}
MCNamesOf == (s1 :> {A, A__B}) @@ (s2 :> {A, B})
MCNamesOfUnderscore == (s1 :> {A_}) @@ (s2 :> {A})
MCToolsOf == (s1 :> {<<"b">>, <<"_", "b">>}) @@ (s2 :> {<<"b">>})
MCOutcomes == (s1 :> {"ok"}) @@ (s2 :> AnOutcome)
MCScopeOf == (k1 :> [servers |-> {}, tools |-> {}])
          @@ (k2 :> [servers |-> {A}, tools |-> {Namespaced(A, <<"b">>)}])
MCScopeOfAll == [k \in {k1} |-> [servers |-> {}, tools |-> {}]]
===============================================================================
