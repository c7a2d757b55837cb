------------------------------ MODULE MCRegistry ------------------------------
(***************************************************************************)
(* A small instance of Registry: two requests, one model that may become   *)
(* an alias, two credentials, one deployment.                              *)
(***************************************************************************)
EXTENDS Registry, TLC

Alike == Permutations(Admins) \cup Permutations(Credentials) \cup Permutations(Secrets)
===============================================================================
