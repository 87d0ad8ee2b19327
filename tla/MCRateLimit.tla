---------------------------- MODULE MCRateLimit ----------------------------
(* A small instance of RateLimit for TLC. *)
EXTENDS RateLimit, TLC

CONSTANTS i1, i2

Symmetry == Permutations(Identities)
=============================================================================
