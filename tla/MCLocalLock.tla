---------------------------- MODULE MCLocalLock ----------------------------
(***************************************************************************)
(* LocalLock on small instances.                                           *)
(***************************************************************************)
EXTENDS LocalLock, TLC

CONSTANTS p1, p2

==============================================================================
