------------------------------- MODULE MCPage -------------------------------
(***************************************************************************)
(* Page on small instances.                                                *)
(***************************************************************************)
EXTENDS Page

CONSTANTS c1, c2, c3, h, m1, m2, m3, v1, v2

Setting(writers, swarm) == [writers |-> writers, swarm |-> swarm]

MCSettings == {Setting({1, 2}, FALSE), Setting({1}, FALSE), Setting({1}, TRUE)}
MCMemberOf == [t \in {1, 2} |-> t]
=============================================================================
