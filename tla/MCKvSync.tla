------------------------------ MODULE MCKvSync ------------------------------
(***************************************************************************)
(* KvSync on small instances.                                              *)
(***************************************************************************)
EXTENDS KvSync, TLC

CONSTANTS a, b, k1, k2

Symmetry == Permutations(Clients)
==============================================================================
