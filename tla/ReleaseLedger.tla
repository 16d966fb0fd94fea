---------------------------- MODULE ReleaseLedger ----------------------------
(***************************************************************************)
(* What the release engine promises the reader of its durable record,      *)
(* with no daemon in sight: one job at a time; its target never changes    *)
(* and never lies behind the baseline; at most Attempts agent attempts     *)
(* charged to it unless the operator asks for more; and the job ends only  *)
(* by moving the baseline to a commit that includes its target and whose   *)
(* publication is public.  ReleaseJob implements it.                       *)
(***************************************************************************)
EXTENDS Integers

CONSTANTS
  Plans,        \* what can be published
  CommitOf,     \* the commit each plan publishes
  OldReleases,  \* what was public at the start
  Attempts,     \* attempts one job may use between two operator resets
  None          \* no job is open

VARIABLES
  baseline,  \* the commit of the last verified release
  target,    \* the commit the open job must release, or None
  charges,   \* attempts charged to the open job
  public     \* the plans whose publication is public

vars == <<baseline, target, charges, public>>

Init ==
  /\ baseline = 0
  /\ target \in {None, 1}
  /\ charges = 0
  /\ public = OldReleases

Open ==
  /\ target = None
  /\ target' \in Nat /\ target' >= baseline
  /\ charges' = 0
  /\ UNCHANGED <<baseline, public>>

Spend ==
  /\ target # None /\ charges < Attempts
  /\ charges' = charges + 1
  /\ UNCHANGED <<baseline, target, public>>

GiveBack ==
  /\ target # None /\ charges > 0
  /\ charges' = charges - 1
  /\ UNCHANGED <<baseline, target, public>>

Reset ==
  /\ target # None
  /\ charges' = 0
  /\ UNCHANGED <<baseline, target, public>>

Publish ==
  /\ public \subseteq public' /\ public' \subseteq Plans
  /\ UNCHANGED <<baseline, target, charges>>

Close ==
  /\ target # None
  /\ \E p \in public : CommitOf[p] >= target /\ baseline' = CommitOf[p]
  /\ target' = None /\ charges' = 0
  /\ UNCHANGED public

Next == Open \/ Spend \/ GiveBack \/ Reset \/ Publish \/ Close

Spec == Init /\ [][Next]_vars
=============================================================================
