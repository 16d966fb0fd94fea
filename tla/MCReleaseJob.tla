---------------------------- MODULE MCReleaseJob ----------------------------
(* Instances of ReleaseJob for TLC.                                         *)
EXTENDS ReleaseJob, TLC

CONSTANTS old, a, b

MCPlans    == {old, a, b}
\* The old release precedes any target; a and b identify the same commit but
\* different destinations, b being the later one.
MCSameCommit == (old :> 0) @@ (a :> 1) @@ (b :> 1)
MCTwoCommits == (old :> 0) @@ (a :> 1) @@ (b :> 2)
MCNewPlans == {a, b}
MCOldAndNew == {old, a}
MCOldThenNew == (old :> 0) @@ (a :> 1)
MCNewCommit == (a :> 1) @@ (b :> 1)
MCOld      == {old}
MCChecks   == <<"build", "live">>
MCOneCheck == <<"build">>
MCSymmetry == Permutations(MCNewPlans)   \* a and b are interchangeable
MCOneError == {"tag"}
=============================================================================
