------------------------------- MODULE Screen -------------------------------
(***************************************************************************)
(* What the views of the dashboard (cmd/brb/dashboard.go) share.           *)
(***************************************************************************)
EXTENDS Integers

CONSTANTS
  ActivityLimit, \* lines of activity that are kept
  Far            \* a scroll position beyond everything

ASSUME ScreenAssumption == ActivityLimit \in Nat \ {0} /\ Far \in Nat

LargerOf(a, b)  == IF a > b THEN a ELSE b
SmallerOf(a, b) == IF a < b THEN a ELSE b
=============================================================================
