---------------------------- MODULE MCStateStore ----------------------------
(* Instances of StateStore for TLC: a daemon, a retry command for it, a      *)
(* daemon of another configuration with the same checkout, and one with the  *)
(* same state directory.                                                     *)
EXTENDS StateStore

CONSTANTS daemon, retry, sameCheckout, sameState

MCStateDir == [p \in Procs |-> IF p = sameCheckout THEN "state2" ELSE "state1"]
MCCheckout == [p \in Procs |-> IF p = sameState THEN "tree2" ELSE "tree1"]
=============================================================================
