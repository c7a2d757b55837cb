------------------------------ MODULE MCStartup ------------------------------
(* Three replicas; a new database, and one of an older version that lacks a  *)
(* table, a column, and all credentials.                                     *)
EXTENDS Startup

CONSTANTS a, b, c, m1, m2, m3, c1, c2, k1, k2

MCTables == {"models", "creds", "keys"}
MCColumns == {k1, k2}
MCTableOf == [k \in MCColumns |-> "keys"]

MCFromEnv == [t \in Seeded |-> IF t = "models" THEN {m1, m2} ELSE {c1, c2}]
MCNames == [t \in Seeded |-> IF t = "models" THEN {m1, m2, m3} ELSE {c1, c2}]

MCDatabases ==
    {[tables |-> {}, columns |-> {}, models |-> {}, creds |-> {}],
     [tables |-> {"models", "keys"}, columns |-> {k1}, models |-> {m3}, creds |-> {}]}
==============================================================================
