------------------------------ MODULE MCSession ------------------------------
(***************************************************************************)
(* Session on small instances.                                             *)
(***************************************************************************)
EXTENDS Session, TLC

CONSTANTS me, c1, ch1, ch2, ch3, f1, f2

\* Successive tokens differ in mode, so every refresh changes what the app may do.
MCGrant == [t \in Tokens |-> IF t % 2 = 1 THEN "read-write" ELSE "read-only"]

Symmetry == Permutations(Channels) \cup Permutations(Fetches)
==============================================================================
