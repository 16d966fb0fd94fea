------------------------------ MODULE MCCadence ------------------------------
(* Instances of Cadence for TLC.                                            *)
EXTENDS Cadence, TLC

Release(c, t) == [commit |-> c, at |-> t, tag |-> FALSE]
OffBranch == MaxCommits + 1

\* No release; one of an older commit; the newer one listed last, behind one
\* whose tag is not on the branch.
MCHistories ==
  {<<>>, <<Release(0, 0)>>,
   <<Release(0, 0), Release(OffBranch, 1), Release(1, 1)>>}
=============================================================================
