----------------------------- MODULE MCApiKeys -----------------------------
(* A small instance of ApiKeys for TLC: all but one key share a prefix. *)
EXTENDS ApiKeys, TLC

CONSTANTS k1, k2, k3, guess

MCPrefixOf(k) == IF k = k3 THEN "b" ELSE "a"

Renaming == Permutations(Requests) \cup Permutations({k1, k2}) \cup Permutations(Projects)
=============================================================================
