-------------------------- MODULE ReleaseJob_proofs --------------------------
(***************************************************************************)
(* Machine-checked proofs about ReleaseJob, for every value of its         *)
(* constants.  The operators on a job come first: what each of them does   *)
(* to the fields the invariants speak of.  The invariants use only those   *)
(* lemmas, so a job is never expanded into its fields again.               *)
(***************************************************************************)
EXTENDS ReleaseJob, TLAPS

JobMatters == {"resume", "reconcile", "charge", "enter", "prep", "gate",
               "reject", "publish", "verify", "finish", "failed"}
Attempting == {"enter", "prep", "gate", "reject", "publish", "verify", "failed"}

-----------------------------------------------------------------------------
(* What the operators on a job return.                                      *)

LEMMA JobFields ==
  ASSUME NEW j \in Job
  PROVE  /\ j.target \in Commits /\ j.tries \in Int /\ j.cooling \in BOOLEAN
         /\ j.failure \in Failures /\ j.candidate \in Plans \cup {NoPlan}
         /\ j.phase \in Phases /\ j.plan \in Plans \cup {NoPlan}
         /\ j.builds \subseteq BuildKeys /\ j.needsPrep \in BOOLEAN
  BY DEF Job

LEMMA NewJobIsJob ==
  ASSUME NEW t \in Commits
  PROVE  /\ NewJob(t) \in Job
         /\ NewJob(t).target = t /\ NewJob(t).tries = 0
         /\ NewJob(t).builds = {} /\ NewJob(t).failure = "none"
  BY DEF NewJob, Job, Phases, Failures

LEMMA LegacyJobIsJob ==
  ASSUME NEW t \in Commits
  PROVE  LegacyJob(t) \in Job /\ LegacyJob(t).tries = 1 /\ LegacyJob(t).builds = {}
  <1>1. NewJob(t) \in Job /\ NewJob(t).builds = {}
    BY NewJobIsJob
  <1>. DEFINE n == 1
             j == NewJob(t)
  <1>2. n \in Int
    OBVIOUS
  <1>3. LegacyJob(t) = [ j EXCEPT !.tries = n, !.failure = "legacy",
                                  !.phase = "preflight", !.needsPrep = TRUE ]
    BY DEF LegacyJob
  <1>. HIDE DEF n, j
  <1>4. j \in Job /\ j.builds = {}
    BY <1>1 DEF j
  <1>5. LegacyJob(t) \in Job /\ LegacyJob(t).tries = n /\ LegacyJob(t).builds = j.builds
    BY <1>2, <1>3, <1>4 DEF Job, Phases, Failures
  <1>. QED
    BY <1>4, <1>5 DEF n

\* A job that differs from j at most in the fields the budget does not read.
SameCharge(k, j) ==
  /\ k \in Job
  /\ k.target = j.target /\ k.tries = j.tries

LEMMA ChargedIsJob ==
  ASSUME NEW j \in Job
  PROVE  /\ Charged(j) \in Job /\ Charged(j).target = j.target
         /\ Charged(j).tries = j.tries + 1
         /\ Charged(j).builds = j.builds /\ Charged(j).failure = j.failure
         /\ Charged(j).plan = j.plan /\ Charged(j).phase = j.phase
  <1>. DEFINE n == j.tries + 1
  <1>1. n \in Int
    BY JobFields
  <1>2. Charged(j) = [ j EXCEPT !.tries = n, !.cooling = TRUE ]
    BY DEF Charged
  <1>. HIDE DEF n
  <1>3. /\ Charged(j) \in Job /\ Charged(j).target = j.target
        /\ Charged(j).tries = n
        /\ Charged(j).builds = j.builds /\ Charged(j).failure = j.failure
        /\ Charged(j).plan = j.plan /\ Charged(j).phase = j.phase
    BY <1>1, <1>2 DEF Job
  <1>. QED
    BY <1>3 DEF n

LEMMA RefundedIsJob ==
  ASSUME NEW j \in Job
  PROVE  /\ Refunded(j) \in Job /\ Refunded(j).target = j.target
         /\ Refunded(j).tries = j.tries - 1
         /\ Refunded(j).builds = j.builds /\ Refunded(j).failure = j.failure
         /\ Refunded(j).plan = j.plan /\ Refunded(j).phase = j.phase
  <1>. DEFINE n == j.tries - 1
  <1>1. n \in Int
    BY JobFields
  <1>2. Refunded(j) = [ j EXCEPT !.tries = n, !.cooling = FALSE ]
    BY DEF Refunded
  <1>. HIDE DEF n
  <1>3. /\ Refunded(j) \in Job /\ Refunded(j).target = j.target
        /\ Refunded(j).tries = n
        /\ Refunded(j).builds = j.builds /\ Refunded(j).failure = j.failure
        /\ Refunded(j).plan = j.plan /\ Refunded(j).phase = j.phase
    BY <1>1, <1>2 DEF Job
  <1>. QED
    BY <1>3 DEF n

LEMMA RecoveredIsJob ==
  ASSUME NEW j \in Job
  PROVE  /\ Recovered(j) \in Job /\ Recovered(j).target = j.target
         /\ Recovered(j).tries = IF j.tries > 0 THEN j.tries - 1 ELSE 0
         /\ Recovered(j).builds = j.builds /\ Recovered(j).failure = "none"
         /\ Recovered(j).plan = j.plan
  <1>. DEFINE n == IF j.tries > 0 THEN j.tries - 1 ELSE 0
  <1>1. n \in Int
    BY JobFields
  <1>2. Recovered(j) = [ j EXCEPT !.tries = n, !.failure = "none", !.cooling = FALSE ]
    BY DEF Recovered
  <1>. HIDE DEF n
  <1>3. /\ Recovered(j) \in Job /\ Recovered(j).target = j.target
        /\ Recovered(j).tries = n
        /\ Recovered(j).builds = j.builds /\ Recovered(j).failure = "none"
        /\ Recovered(j).plan = j.plan
    BY <1>1, <1>2 DEF Job, Failures
  <1>. QED
    BY <1>3 DEF n

LEMMA UndelayedIsJob ==
  ASSUME NEW j \in Job
  PROVE  /\ SameCharge(Undelayed(j), j)
         /\ Undelayed(j).builds = j.builds /\ Undelayed(j).failure = j.failure
         /\ Undelayed(j).plan = j.plan /\ Undelayed(j).phase = j.phase
  BY DEF Undelayed, Job, SameCharge

LEMMA FailedIsJob ==
  ASSUME NEW j \in Job, NEW e \in Failures
  PROVE  /\ SameCharge(Failed(j, e), j)
         /\ Failed(j, e).builds = j.builds /\ Failed(j, e).failure = e
  BY DEF Failed, Job, SameCharge

LEMMA NotPublishedIsJob ==
  ASSUME NEW j \in Job, NEW p, NEW e \in VerifyErrors
  PROVE  /\ SameCharge(NotPublished(j, p, e), j)
         /\ NotPublished(j, p, e).builds = j.builds
         /\ NotPublished(j, p, e).failure \in {j.failure, e}
         /\ NotPublished(j, p, e).plan = j.plan
  <1>1. e \in Failures
    BY DEF Failures
  <1>2. (IF p = j.candidate \/ j.failure = "none" THEN e ELSE j.failure) \in Failures
    BY <1>1, JobFields
  <1>3. (j.needsPrep \/ (p = j.candidate /\ j.candidate = j.plan /\ j.failure = e))
          \in BOOLEAN
    BY JobFields
  <1>. QED
    BY <1>2, <1>3 DEF NotPublished, Job, SameCharge

LEMMA NeedsRepairIsJob ==
  ASSUME NEW j \in Job
  PROVE  /\ SameCharge(NeedsRepair(j), j)
         /\ NeedsRepair(j).builds = j.builds /\ NeedsRepair(j).failure = j.failure
  BY DEF NeedsRepair, Job, SameCharge

LEMMA PreparingIsJob ==
  ASSUME NEW j \in Job, NEW keep
  PROVE  /\ SameCharge(Preparing(j, keep), j)
         /\ Preparing(j, keep).builds \subseteq j.builds
         /\ Preparing(j, keep).failure = j.failure
  BY DEF Preparing, Job, Phases, SameCharge

LEMMA PreparedIsJob ==
  ASSUME NEW j \in Job, NEW p \in Plans
  PROVE  /\ SameCharge(Prepared(j, p), j)
         /\ Prepared(j, p).builds = j.builds /\ Prepared(j, p).failure = j.failure
         /\ Prepared(j, p).plan = p
  BY DEF Prepared, Job, SameCharge

LEMMA ValidatingIsJob ==
  ASSUME NEW j \in Job
  PROVE  /\ SameCharge(Validating(j), j)
         /\ Validating(j).builds = j.builds /\ Validating(j).failure = j.failure
         /\ Validating(j).plan = j.plan
  BY DEF Validating, Job, Phases, SameCharge

LEMMA BuildsDroppedIsJob ==
  ASSUME NEW j \in Job
  PROVE  /\ SameCharge(BuildsDropped(j), j)
         /\ BuildsDropped(j).builds = {} /\ BuildsDropped(j).failure = j.failure
  BY DEF BuildsDropped, Job, SameCharge

LEMMA BuildSavedIsJob ==
  ASSUME NEW j \in Job, NEW k \in BuildKeys
  PROVE  /\ SameCharge(BuildSaved(j, k), j)
         /\ BuildSaved(j, k).builds = j.builds \cup {k}
         /\ BuildSaved(j, k).failure = j.failure
         /\ BuildSaved(j, k).plan = j.plan
  BY DEF BuildSaved, Job, SameCharge

LEMMA PublishingIsJob ==
  ASSUME NEW j \in Job
  PROVE  /\ SameCharge(Publishing(j), j)
         /\ Publishing(j).builds = j.builds /\ Publishing(j).failure = j.failure
         /\ Publishing(j).plan = j.plan /\ Publishing(j).phase = "publish"
  BY DEF Publishing, Job, Phases, SameCharge

LEMMA DeliveredIsJob ==
  ASSUME NEW j \in Job
  PROVE  /\ SameCharge(Delivered(j), j)
         /\ Delivered(j).builds = j.builds /\ Delivered(j).failure = j.failure
         /\ Delivered(j).plan = j.plan
  BY DEF Delivered, Job, SameCharge

LEMMA BudgetResetIsJob ==
  ASSUME NEW j \in Job
  PROVE  /\ BudgetReset(j) \in Job /\ BudgetReset(j).target = j.target
         /\ BudgetReset(j).tries = 0
         /\ BudgetReset(j).builds = j.builds /\ BudgetReset(j).failure = j.failure
         /\ BudgetReset(j).plan = j.plan /\ BudgetReset(j).phase = j.phase
  <1>. DEFINE n == 0
  <1>1. n \in Int
    BY JobFields
  <1>2. BudgetReset(j) = [ j EXCEPT !.tries = n, !.cooling = FALSE ]
    BY DEF BudgetReset
  <1>. HIDE DEF n
  <1>3. /\ BudgetReset(j) \in Job /\ BudgetReset(j).target = j.target
        /\ BudgetReset(j).tries = n
        /\ BudgetReset(j).builds = j.builds /\ BudgetReset(j).failure = j.failure
        /\ BudgetReset(j).plan = j.plan /\ BudgetReset(j).phase = j.phase
    BY <1>1, <1>2 DEF Job
  <1>. QED
    BY <1>3 DEF n

-----------------------------------------------------------------------------
(* Type correctness.  TypeOK alone is not inductive: an action that works   *)
(* on the job needs to know that there is one, that a plan is at hand, and  *)
(* that the attempt it gives back was charged.                              *)

Shape ==
  /\ pc \in JobMatters => saved \in Job /\ mem \in Job
  /\ pc \in Attempting => spent > 0
  /\ pc \in {"reconcile", "verify", "finish"} => subject \in Plans
  /\ pc \in {"gate", "publish"} => mem.plan \in Plans

TypeInv == TypeOK /\ Shape

LEMMA LengthIsNat == Len(Checks) \in Nat
  BY ConstantsAssumption

LEMMA NoErrorIsTyped == "none" \in Errors /\ 0 \in Steps
  <1>1. "none" \in Errors
    BY DEF Errors, Failures
  <1>2. 0 \in Steps
    BY LengthIsNat DEF Steps
  <1>. QED
    BY <1>1, <1>2

LEMMA LeavingsAreTrees == Leavings \subseteq Trees /\ Nat \subseteq Trees
  BY ConstantsAssumption DEF Leavings, Trees, Commits

LEMMA ForgetIsTyped ==
  ASSUME Forget
  PROVE  /\ mem' \in Job \cup {NoJob} /\ subject' \in Plans \cup {NoPlan}
         /\ step' \in Steps /\ err' \in Errors
         /\ passed' \subseteq 1 .. Len(Checks) /\ denied' \subseteq Plans
  BY NoErrorIsTyped DEF Forget

LEMMA TypeInit == Init => TypeInv
  <1>. SUFFICES ASSUME Init PROVE TypeInv
    OBVIOUS
  <1>1. saved \in Job \cup {NoJob}
    BY LegacyJobIsJob DEF Init, Commits
  <1>2. /\ released \in Commits /\ tree \in Trees /\ remote \in Commits
        /\ faults \in Nat /\ badWrites \in Nat /\ spent \in Nat
    BY DEF Init, Commits, Trees
  <1>3. step \in Steps /\ err \in Errors
    BY NoErrorIsTyped DEF Init
  <1>4. started \subseteq Plans /\ complete \subseteq started
    BY ConstantsAssumption DEF Init
  <1>. QED
    BY <1>1, <1>2, <1>3, <1>4
    DEF Init, TypeInv, TypeOK, Shape, JobMatters, Attempting

LEMMA TypeStep == TypeInv /\ [Next]_vars => TypeInv'
  <1>. SUFFICES ASSUME TypeInv, [Next]_vars PROVE TypeInv'
    OBVIOUS
  <1>. USE ConstantsAssumption, LengthIsNat
       DEF TypeInv, TypeOK, Shape, JobMatters, Attempting, Steps, disk, control,
           world, ghosts, bounds
  <1>1. CASE Wake
    BY <1>1, ForgetIsTyped DEF Wake
  <1>2. CASE Stop
    BY <1>2, ForgetIsTyped DEF Stop
  <1>3. CASE CycleFails
    BY <1>3 DEF CycleFails, Fault
  <1>4. CASE CycleIdle
    BY <1>4 DEF CycleIdle
  <1>5. CASE CycleBegins
    BY <1>5, NewJobIsJob, LeavingsAreTrees DEF CycleBegins, ReleaseHead, Commits, Trees, SaveJob, Save
  <1>6. CASE CycleResumes
    BY <1>6 DEF CycleResumes
  <1>7. CASE RecoverSetupFailure
    BY <1>7, RecoveredIsJob DEF RecoverSetupFailure, SaveJob, Save
  <1>8. CASE BackOff
    BY <1>8 DEF BackOff
  <1>9. CASE BeginReconcile
    BY <1>9, JobFields DEF BeginReconcile, FirstCandidate, PlanIsSpeculative
  <1>10. CASE ReconcileSucceeds
    BY <1>10 DEF ReconcileSucceeds
  <1>11. CASE ReconcileFails
    BY <1>11, JobFields, NotPublishedIsJob DEF ReconcileFails, NextCandidate, PlanIsSpeculative, VerificationFails, Fault, SameCharge
  <1>12. CASE ReconcileInterrupted
    BY <1>12, UndelayedIsJob DEF ReconcileInterrupted, SaveJob, Save, SameCharge
  <1>13. CASE Exhausted
    BY <1>13, UndelayedIsJob DEF Exhausted, SaveJob, Save, SameCharge, AfterExhaustion
  <1>14. CASE Charge
    BY <1>14, ChargedIsJob DEF Charge, SaveJob, Save
  <1>15. CASE ResumePrepared
    BY <1>15, ValidatingIsJob DEF ResumePrepared, EnterGate, SaveJob, Save, SameCharge, Usable, Errors, Failures
  <1>16. CASE EnterInterrupted
    BY <1>16 DEF EnterInterrupted, Errors, Failures
  <1>17. CASE BeginPreparation
    BY <1>17, PreparingIsJob DEF BeginPreparation, SaveJob, Save, SameCharge, Errors, Failures
  <1>18. CASE PreparationSucceeds
    BY <1>18, PreparedIsJob, ValidatingIsJob, LeavingsAreTrees DEF PreparationSucceeds, EnterGate, SaveJob, Save, SameCharge, Errors, Failures
  <1>19. CASE PreparationFails
    BY <1>19, LeavingsAreTrees DEF PreparationFails, Errors, Failures
  <1>20. CASE GateOpens
    BY <1>20 DEF GateOpens
  <1>21. CASE SkipCachedBuild
    BY <1>21 DEF SkipCachedBuild, AtCheck
  <1>22. CASE LiveCheckPasses
    <2>1. step \in 1 .. Len(Checks)
      BY <1>22 DEF LiveCheckPasses, AtCheck
    <2>2. step' \in Steps /\ passed' \subseteq 1 .. Len(Checks)
      BY <1>22, <2>1 DEF LiveCheckPasses
    <2>3. /\ pc = "gate" /\ pc' = pc
          /\ UNCHANGED <<disk, mem, starting, canceled, subject, err, world, bounds,
                         spent, built, denied>>
      BY <1>22 DEF LiveCheckPasses, AtCheck
    <2>4. TypeOK'
      BY <2>2, <2>3
    <2>5. Shape'
      BY <2>3
    <2>. QED
      BY <2>4, <2>5
  <1>23. CASE BuildCheckPasses
    BY <1>23, BuildSavedIsJob DEF BuildCheckPasses, AtCheck, SaveJob, Save, SameCharge, BuildKey, BuildKeys
  <1>24. CASE CheckDisturbsTree
    BY <1>24, BuildsDroppedIsJob DEF CheckDisturbsTree, AtCheck, SameCharge, Trees
  <1>25. CASE GateFails
    BY <1>25 DEF GateFails, Trees
  <1>26. CASE RejectPlan
    BY <1>26, NeedsRepairIsJob DEF RejectPlan, SaveJob, Save, SameCharge, Errors, Failures
  <1>27. CASE GatePasses
    BY <1>27, PublishingIsJob DEF GatePasses, SaveJob, Save, SameCharge, Errors, Failures
  <1>28. CASE ReceiptArrives
    BY <1>28, DeliveredIsJob DEF ReceiptArrives, SaveJob, Save, SameCharge, Trees
  <1>29. CASE ReceiptRejected
    BY <1>29, NeedsRepairIsJob DEF ReceiptRejected, SaveJob, Save, SameCharge, Errors, Failures, Trees
  <1>30. CASE PublisherFails
    BY <1>30 DEF PublisherFails, Errors, Failures, Trees
  <1>31. CASE VerifySucceeds
    BY <1>31 DEF VerifySucceeds
  <1>32. CASE VerifyFails
    BY <1>32 DEF VerifyFails, VerificationFails, Fault, Errors, Failures
  <1>33. CASE Finish
    <2>1. CommitOf[subject] \in Commits
      BY <1>33 DEF Finish
    <2>2. released' \in Commits /\ saved' \in Job \cup {NoJob} /\ pc' = "idle"
          /\ badWrites' \in Nat
      BY <1>33, <2>1 DEF Finish, Save
    <2>3. spent' \in Nat /\ built' \subseteq BuildKeys
          /\ passed' \subseteq 1 .. Len(Checks) /\ denied' \subseteq Plans
      <3>1. CASE saved' = NoJob
        BY <1>33, <3>1 DEF Finish
      <3>2. CASE saved' # NoJob
        BY <1>33, <3>2 DEF Finish
      <3>. QED
        BY <3>1, <3>2
    <2>. QED
      BY <1>33, <2>2, <2>3 DEF Finish
  <1>34. CASE AttemptInterrupted
    BY <1>34, RefundedIsJob DEF AttemptInterrupted, SaveJob, Save, Errors, Failures
  <1>35. CASE AttemptNotSetUp
    BY <1>35, RefundedIsJob DEF AttemptNotSetUp, SaveJob, Save, Errors, Failures
  <1>36. CASE AttemptFails
    <2>1. err \in Failures
      BY <1>36 DEF AttemptFails, Errors
    <2>2. Failed(mem, err) \in Job /\ err' \in Errors
      BY <1>36, <2>1, FailedIsJob, NoErrorIsTyped DEF AttemptFails, SameCharge
    <2>3. pc' \in {"down", "idle"}
      BY <1>36 DEF AttemptFails, SaveJob, Save, AfterExhaustion
    <2>4. /\ mem' = Failed(mem, err) /\ saved' \in {saved, Failed(mem, err)}
          /\ released' = released /\ badWrites' \in Nat
      BY <1>36 DEF AttemptFails, SaveJob, Save
    <2>5. UNCHANGED <<starting, canceled, subject, step, world, faults, ghosts>>
      BY <1>36 DEF AttemptFails
    <2>6. saved' \in Job \cup {NoJob} /\ mem' \in Job \cup {NoJob}
      BY <2>2, <2>4
    <2>7. TypeOK'
      BY <2>2, <2>3, <2>4, <2>5, <2>6
    <2>8. Shape'
      BY <2>3
    <2>. QED
      BY <2>7, <2>8
  <1>37. CASE Start
    BY <1>37, ForgetIsTyped DEF Start
  <1>38. CASE Cancel
    BY <1>38 DEF Cancel, Fault
  <1>39. CASE Crash
    <2>1. Forget /\ faults' \in Nat
      BY <1>39 DEF Crash, Fault
    <2>. QED
      BY <1>39, <2>1, ForgetIsTyped DEF Crash
  <1>40. CASE Retry
    BY <1>40, BudgetResetIsJob DEF Retry
  <1>41. CASE CoolDown
    BY <1>41, UndelayedIsJob DEF CoolDown, SameCharge
  <1>42. CASE PublisherActs
    BY <1>42 DEF PublisherActs
  <1>43. CASE PublicationCompletes
    BY <1>43 DEF PublicationCompletes
  <1>44. CASE Push
    BY <1>44 DEF Push, Commits
  <1>45. CASE Disturb
    BY <1>45, LeavingsAreTrees DEF Disturb
  <1>46. CASE UNCHANGED vars
    BY <1>46 DEF vars
  <1>47. CASE GateExpires
    <2>1. /\ mem' \in Job \cup {NoJob} /\ tree' \in Trees
          /\ pc' = "failed" /\ err' \in Errors
      BY <1>47, BuildsDroppedIsJob DEF GateExpires, SameCharge, Trees, Errors, Failures
    <2>2. saved \in Job /\ mem' \in Job
      BY <1>47, BuildsDroppedIsJob DEF GateExpires, SameCharge
    <2>. QED
      BY <1>47, <2>1, <2>2 DEF GateExpires
  <1>. QED
    BY <1>1, <1>2, <1>3, <1>4, <1>5, <1>6, <1>7, <1>8, <1>9, <1>10, <1>11,
       <1>12, <1>13, <1>14, <1>15, <1>16, <1>17, <1>18, <1>19, <1>20, <1>21,
       <1>22, <1>23, <1>24, <1>25, <1>26, <1>27, <1>28, <1>29, <1>30, <1>31,
       <1>32, <1>33, <1>34, <1>35, <1>36, <1>37, <1>38, <1>39, <1>40, <1>41,
       <1>42, <1>43, <1>44, <1>45, <1>46,
       <1>47 DEF Next, Daemon, Environment

\* Every reachable state has the type the module declares: each field of the
\* durable record and of the daemon's copy, whatever crashes and failed writes
\* intervene.
THEOREM TypeCorrectness == Spec => []TypeOK
  <1>1. TypeInv => TypeOK
    BY DEF TypeInv
  <1>. QED
    BY TypeInit, TypeStep, <1>1, PTL DEF Spec

-----------------------------------------------------------------------------
(* The daemon's copy and the record agree on what identifies and charges    *)
(* the job, whichever writes have failed.                                   *)

Linked ==
  /\ saved # NoJob => saved.tries >= 0
  /\ pc \in JobMatters => mem.tries = saved.tries /\ mem.target = saved.target
  /\ pc \in Attempting => mem.tries > 0

LEMMA LinkedInit == Init => Linked
  <1>. SUFFICES ASSUME Init PROVE Linked
    OBVIOUS
  <1>1. LegacyJob(1).tries >= 0
    BY LegacyJobIsJob DEF Commits
  <1>. QED
    BY <1>1, ConstantsAssumption DEF Init, Linked, JobMatters, Attempting

LEMMA LinkedStep == TypeInv /\ Linked /\ [Next]_vars => Linked'
  <1>. SUFFICES ASSUME TypeInv, Linked, [Next]_vars PROVE Linked'
    OBVIOUS
  <1>. USE ConstantsAssumption, LengthIsNat
       DEF TypeInv, TypeOK, Shape, Linked, JobMatters, Attempting, disk, control,
           world, ghosts, bounds
  <1>1. CASE Wake
    BY <1>1 DEF Wake
  <1>2. CASE Stop
    BY <1>2 DEF Stop
  <1>3. CASE CycleFails
    BY <1>3 DEF CycleFails, Fault
  <1>4. CASE CycleIdle
    BY <1>4 DEF CycleIdle
  <1>5. CASE CycleBegins
    BY <1>5, NewJobIsJob DEF CycleBegins, SaveJob, Save
  <1>6. CASE CycleResumes
    BY <1>6 DEF CycleResumes
  <1>7. CASE RecoverSetupFailure
    <2>1. mem \in Job /\ mem.tries \in Int /\ saved \in Job
      BY <1>7, JobFields DEF RecoverSetupFailure
    <2>2. Recovered(mem).tries >= 0 /\ Recovered(mem).target = mem.target
      BY <2>1, RecoveredIsJob
    <2>3. \/ pc' = "resume" /\ saved' = Recovered(mem) /\ mem' = Recovered(mem)
          \/ pc' = "idle" /\ saved' \in {saved, Recovered(mem)}
      BY <1>7 DEF RecoverSetupFailure, SaveJob, Save
    <2>. QED
      BY <2>1, <2>2, <2>3
  <1>8. CASE BackOff
    BY <1>8 DEF BackOff
  <1>9. CASE BeginReconcile
    BY <1>9, JobFields DEF BeginReconcile, FirstCandidate, PlanIsSpeculative
  <1>10. CASE ReconcileSucceeds
    BY <1>10 DEF ReconcileSucceeds
  <1>11. CASE ReconcileFails
    BY <1>11, JobFields, NotPublishedIsJob DEF ReconcileFails, NextCandidate, PlanIsSpeculative, VerificationFails, Fault, SameCharge
  <1>12. CASE ReconcileInterrupted
    BY <1>12, UndelayedIsJob DEF ReconcileInterrupted, SaveJob, Save, SameCharge
  <1>13. CASE Exhausted
    BY <1>13, UndelayedIsJob DEF Exhausted, SaveJob, Save, SameCharge, AfterExhaustion
  <1>14. CASE Charge
    <2>1. mem \in Job /\ mem.tries \in Int /\ saved \in Job /\ saved # NoJob
      BY <1>14, JobFields DEF Charge
    <2>2. Charged(mem).tries > 0 /\ Charged(mem).target = mem.target
      BY <1>14, <2>1, ChargedIsJob DEF Charge
    <2>3. \/ pc' = "enter" /\ saved' = Charged(mem) /\ mem' = Charged(mem)
          \/ pc' = "idle" /\ saved' \in {saved, Charged(mem)}
      BY <1>14 DEF Charge, SaveJob, Save
    <2>4. Charged(mem).tries >= 0
      BY <2>1, <2>2, ChargedIsJob, JobFields
    <2>. QED
      BY <1>14, <2>1, <2>2, <2>3, <2>4 DEF Charge
  <1>15. CASE ResumePrepared
    BY <1>15, ValidatingIsJob DEF ResumePrepared, EnterGate, SaveJob, Save, SameCharge, Usable
  <1>16. CASE EnterInterrupted
    BY <1>16 DEF EnterInterrupted
  <1>17. CASE BeginPreparation
    BY <1>17, PreparingIsJob DEF BeginPreparation, SaveJob, Save, SameCharge
  <1>18. CASE PreparationSucceeds
    BY <1>18, PreparedIsJob, ValidatingIsJob DEF PreparationSucceeds, EnterGate, SaveJob, Save, SameCharge
  <1>19. CASE PreparationFails
    BY <1>19 DEF PreparationFails
  <1>20. CASE GateOpens
    BY <1>20 DEF GateOpens
  <1>21. CASE SkipCachedBuild
    BY <1>21 DEF SkipCachedBuild, AtCheck
  <1>22. CASE LiveCheckPasses
    BY <1>22 DEF LiveCheckPasses, AtCheck
  <1>23. CASE BuildCheckPasses
    BY <1>23, BuildSavedIsJob DEF BuildCheckPasses, AtCheck, SaveJob, Save, SameCharge, BuildKey, BuildKeys
  <1>24. CASE CheckDisturbsTree
    BY <1>24, BuildsDroppedIsJob DEF CheckDisturbsTree, AtCheck, SameCharge
  <1>25. CASE GateFails
    BY <1>25 DEF GateFails
  <1>26. CASE RejectPlan
    BY <1>26, NeedsRepairIsJob DEF RejectPlan, SaveJob, Save, SameCharge
  <1>27. CASE GatePasses
    BY <1>27, PublishingIsJob DEF GatePasses, SaveJob, Save, SameCharge
  <1>28. CASE ReceiptArrives
    BY <1>28, DeliveredIsJob DEF ReceiptArrives, SaveJob, Save, SameCharge
  <1>29. CASE ReceiptRejected
    BY <1>29, NeedsRepairIsJob DEF ReceiptRejected, SaveJob, Save, SameCharge
  <1>30. CASE PublisherFails
    BY <1>30 DEF PublisherFails
  <1>31. CASE VerifySucceeds
    BY <1>31 DEF VerifySucceeds
  <1>32. CASE VerifyFails
    BY <1>32 DEF VerifyFails, VerificationFails, Fault
  <1>33. CASE Finish
    BY <1>33 DEF Finish, Save
  <1>34. CASE AttemptInterrupted
    <2>1. mem \in Job /\ mem.tries \in Int /\ mem.tries > 0
      BY <1>34, JobFields DEF AttemptInterrupted
    <2>2. Refunded(mem).tries >= 0
      BY <2>1, RefundedIsJob
    <2>3. pc' \in {"idle"} /\ saved' \in {saved, Refunded(mem)}
      BY <1>34 DEF AttemptInterrupted, SaveJob, Save
    <2>. QED
      BY <2>1, <2>2, <2>3
  <1>35. CASE AttemptNotSetUp
    <2>1. mem \in Job /\ mem.tries \in Int /\ mem.tries > 0
      BY <1>35, JobFields DEF AttemptNotSetUp
    <2>2. Refunded(mem).tries >= 0
      BY <2>1, RefundedIsJob
    <2>3. pc' \in {"down", "idle"} /\ saved' \in {saved, Refunded(mem)}
      BY <1>35 DEF AttemptNotSetUp, SaveJob, Save
    <2>. QED
      BY <2>1, <2>2, <2>3
  <1>36. CASE AttemptFails
    <2>1. mem \in Job /\ mem.tries \in Int /\ mem.tries > 0 /\ err \in Failures
      BY <1>36, JobFields DEF AttemptFails, Errors
    <2>2. Failed(mem, err).tries >= 0
      BY <2>1, FailedIsJob DEF SameCharge
    <2>3. pc' \in {"down", "idle"} /\ saved' \in {saved, Failed(mem, err)}
      BY <1>36 DEF AttemptFails, SaveJob, Save, AfterExhaustion
    <2>. QED
      BY <2>1, <2>2, <2>3
  <1>37. CASE Start
    BY <1>37 DEF Start
  <1>38. CASE Cancel
    BY <1>38 DEF Cancel, Fault
  <1>39. CASE Crash
    BY <1>39 DEF Crash, Fault
  <1>40. CASE Retry
    BY <1>40, BudgetResetIsJob DEF Retry
  <1>41. CASE CoolDown
    BY <1>41, UndelayedIsJob DEF CoolDown, SameCharge
  <1>42. CASE PublisherActs
    BY <1>42 DEF PublisherActs
  <1>43. CASE PublicationCompletes
    BY <1>43 DEF PublicationCompletes
  <1>44. CASE Push
    BY <1>44 DEF Push
  <1>45. CASE Disturb
    BY <1>45 DEF Disturb
  <1>46. CASE UNCHANGED vars
    BY <1>46 DEF vars
  <1>47. CASE GateExpires
    BY <1>47, BuildsDroppedIsJob DEF GateExpires, SameCharge
  <1>. QED
    BY <1>1, <1>2, <1>3, <1>4, <1>5, <1>6, <1>7, <1>8, <1>9, <1>10, <1>11,
       <1>12, <1>13, <1>14, <1>15, <1>16, <1>17, <1>18, <1>19, <1>20, <1>21,
       <1>22, <1>23, <1>24, <1>25, <1>26, <1>27, <1>28, <1>29, <1>30, <1>31,
       <1>32, <1>33, <1>34, <1>35, <1>36, <1>37, <1>38, <1>39, <1>40, <1>41,
       <1>42, <1>43, <1>44, <1>45, <1>46,
       <1>47 DEF Next, Daemon, Environment

-----------------------------------------------------------------------------
(* The budget.  A record no older version wrote never holds a setup failure *)
(* of the old kind, so the refund of RecoverSetupFailure never applies.     *)

Budget ==
  /\ saved = NoJob => spent = 0
  /\ saved # NoJob =>
       /\ spent <= saved.tries /\ saved.tries <= spent + badWrites
       /\ saved.tries <= Attempts
       /\ saved.failure # "legacy"
  /\ pc \in JobMatters => mem.failure # "legacy"
  /\ err # "legacy"

LEMMA BudgetInit ==
  ASSUME Upgraded = FALSE
  PROVE  Init => Budget
  BY DEF Init, Budget, JobMatters

\* A save that charges nothing, whether or not it reports an error.
LEMMA SavedKeepsBudget ==
  ASSUME TypeInv, Linked, Budget, pc \in JobMatters, NEW j \in Job,
         j.tries = mem.tries, j.failure # "legacy",
         saved' \in {saved, j}, mem' = j, spent' = spent,
         badWrites' \in {badWrites, badWrites + 1}, err' # "legacy"
  PROVE  Budget'
  <1>1. saved \in Job /\ mem \in Job /\ spent \in Nat /\ badWrites \in Nat
    BY DEF TypeInv, TypeOK, Shape
  <1>2. saved.tries \in Int /\ saved.tries = mem.tries
    BY <1>1, JobFields DEF Linked
  <1>3. saved # NoJob /\ j # NoJob
    BY <1>1, ConstantsAssumption
  <1>4. /\ spent <= saved.tries /\ saved.tries <= spent + badWrites
        /\ saved.tries <= Attempts /\ saved.failure # "legacy"
    BY <1>3 DEF Budget
  <1>5. saved' # NoJob /\ saved'.tries = saved.tries /\ saved'.failure # "legacy"
    BY <1>2, <1>3, <1>4
  <1>. QED
    BY <1>1, <1>2, <1>4, <1>5 DEF Budget

LEMMA BudgetStep == TypeInv /\ Linked /\ Budget /\ [Next]_vars => Budget'
  <1>. SUFFICES ASSUME TypeInv, Linked, Budget, [Next]_vars PROVE Budget'
    OBVIOUS
  <1>. USE ConstantsAssumption, LengthIsNat
       DEF TypeInv, TypeOK, Shape, Linked, Budget, JobMatters, Attempting, disk,
           control, world, ghosts, bounds
  <1>1. CASE Wake
    BY <1>1 DEF Wake, Forget
  <1>2. CASE Stop
    BY <1>2 DEF Stop, Forget
  <1>3. CASE CycleFails
    BY <1>3 DEF CycleFails, Fault
  <1>4. CASE CycleIdle
    BY <1>4 DEF CycleIdle
  <1>5. CASE CycleBegins
    BY <1>5, NewJobIsJob DEF CycleBegins, SaveJob, Save
  <1>6. CASE CycleResumes
    BY <1>6 DEF CycleResumes
  <1>7. CASE RecoverSetupFailure
    BY <1>7 DEF RecoverSetupFailure, RecoveryDue
  <1>8. CASE BackOff
    BY <1>8 DEF BackOff
  <1>9. CASE BeginReconcile
    BY <1>9, JobFields DEF BeginReconcile, FirstCandidate, PlanIsSpeculative
  <1>10. CASE ReconcileSucceeds
    BY <1>10 DEF ReconcileSucceeds
  <1>11. CASE ReconcileFails
    BY <1>11, JobFields, NotPublishedIsJob DEF ReconcileFails, NextCandidate, PlanIsSpeculative, VerificationFails, Fault, SameCharge
  <1>12. CASE ReconcileInterrupted
    <2>1. pc \in JobMatters /\ mem \in Job
      BY <1>12 DEF ReconcileInterrupted
    <2>2. Undelayed(mem) \in Job /\ Undelayed(mem).tries = mem.tries /\ Undelayed(mem).failure # "legacy"
      BY <2>1, UndelayedIsJob DEF SameCharge
    <2>3. saved' \in {saved, Undelayed(mem)} /\ spent' = spent
          /\ badWrites' \in {badWrites, badWrites + 1}
      BY <1>12 DEF ReconcileInterrupted, SaveJob, Save
    <2>4. mem' = Undelayed(mem) /\ err' # "legacy"
      BY <1>12 DEF ReconcileInterrupted, SaveJob, Save
    <2>. QED
      BY <2>1, <2>2, <2>3, <2>4, SavedKeepsBudget
  <1>13. CASE Exhausted
    <2>1. pc \in JobMatters /\ mem \in Job
      BY <1>13 DEF Exhausted, AfterExhaustion
    <2>2. Undelayed(mem) \in Job /\ Undelayed(mem).tries = mem.tries /\ Undelayed(mem).failure # "legacy"
      BY <2>1, UndelayedIsJob DEF SameCharge
    <2>3. saved' \in {saved, Undelayed(mem)} /\ spent' = spent
          /\ badWrites' \in {badWrites, badWrites + 1}
      BY <1>13 DEF Exhausted, AfterExhaustion, SaveJob, Save
    <2>4. mem' = Undelayed(mem) /\ err' # "legacy"
      BY <1>13 DEF Exhausted, AfterExhaustion, SaveJob, Save
    <2>. QED
      BY <2>1, <2>2, <2>3, <2>4, SavedKeepsBudget
  <1>14. CASE Charge
    <2>1. mem \in Job /\ mem.tries \in Int /\ mem.tries < Attempts /\ saved \in Job
      BY <1>14, JobFields DEF Charge
    <2>2. /\ Charged(mem) \in Job /\ Charged(mem).tries = mem.tries + 1
          /\ Charged(mem).failure # "legacy"
      BY <1>14, <2>1, ChargedIsJob DEF Charge
    <2>3. \/ /\ pc' = "enter" /\ saved' = Charged(mem)
             /\ spent' = spent + 1 /\ badWrites' = badWrites
          \/ /\ pc' = "idle" /\ saved' \in {saved, Charged(mem)}
             /\ spent' = spent /\ badWrites' = badWrites + 1
      BY <1>14 DEF Charge, SaveJob, Save
    <2>4. mem' = Charged(mem) /\ err' = err
      BY <1>14 DEF Charge, SaveJob
    <2>5. /\ spent <= mem.tries /\ mem.tries <= spent + badWrites
          /\ saved.tries = mem.tries /\ saved.failure # "legacy" /\ saved # NoJob
      BY <1>14, <2>1 DEF Charge
    <2>. QED
      BY <2>1, <2>2, <2>3, <2>4, <2>5
  <1>15. CASE ResumePrepared
    <2>1. pc \in JobMatters /\ mem \in Job
      BY <1>15 DEF ResumePrepared, EnterGate
    <2>2. Validating(mem) \in Job /\ Validating(mem).tries = mem.tries /\ Validating(mem).failure # "legacy"
      BY <2>1, ValidatingIsJob DEF SameCharge
    <2>3. saved' \in {saved, Validating(mem)} /\ spent' = spent
          /\ badWrites' \in {badWrites, badWrites + 1}
      BY <1>15 DEF ResumePrepared, EnterGate, SaveJob, Save
    <2>4. mem' = Validating(mem) /\ err' # "legacy"
      BY <1>15 DEF ResumePrepared, EnterGate, SaveJob, Save
    <2>. QED
      BY <2>1, <2>2, <2>3, <2>4, SavedKeepsBudget
  <1>16. CASE EnterInterrupted
    BY <1>16 DEF EnterInterrupted
  <1>17. CASE BeginPreparation
    <2>. DEFINE j == Preparing(mem, mem.plan = NoPlan \/ KeepsBuilds(mem))
    <2>1. pc \in JobMatters /\ mem \in Job
      BY <1>17 DEF BeginPreparation
    <2>2. j \in Job /\ j.tries = mem.tries /\ j.failure # "legacy"
      BY <2>1, PreparingIsJob DEF SameCharge
    <2>3. saved' \in {saved, j} /\ spent' = spent
          /\ badWrites' \in {badWrites, badWrites + 1}
      BY <1>17 DEF BeginPreparation, SaveJob, Save
    <2>4. mem' = j /\ err' # "legacy"
      BY <1>17 DEF BeginPreparation, SaveJob, Save
    <2>. QED
      BY <2>1, <2>2, <2>3, <2>4, SavedKeepsBudget
  <1>18. CASE PreparationSucceeds
    <2>0. PICK p \in ValidPlans : EnterGate(Prepared(mem, p))
      BY <1>18 DEF PreparationSucceeds
    <2>. DEFINE j == Validating(Prepared(mem, p))
    <2>1. pc \in JobMatters /\ mem \in Job
      BY <1>18 DEF PreparationSucceeds
    <2>2. j \in Job /\ j.tries = mem.tries /\ j.failure # "legacy"
      BY <2>1, PreparedIsJob, ValidatingIsJob DEF SameCharge
    <2>3. saved' \in {saved, j} /\ badWrites' \in {badWrites, badWrites + 1}
      BY <2>0 DEF EnterGate, SaveJob, Save
    <2>4. mem' = j /\ err' # "legacy" /\ spent' = spent
      BY <1>18, <2>0 DEF PreparationSucceeds, EnterGate, SaveJob, Save
    <2>. QED
      BY <2>1, <2>2, <2>3, <2>4, SavedKeepsBudget
  <1>19. CASE PreparationFails
    BY <1>19 DEF PreparationFails
  <1>20. CASE GateOpens
    BY <1>20 DEF GateOpens
  <1>21. CASE SkipCachedBuild
    BY <1>21 DEF SkipCachedBuild, AtCheck
  <1>22. CASE LiveCheckPasses
    BY <1>22 DEF LiveCheckPasses, AtCheck
  <1>23. CASE BuildCheckPasses
    <2>0. BuildKey(mem.plan, step) \in BuildKeys
      BY <1>23 DEF BuildCheckPasses, AtCheck, BuildKey, BuildKeys
    <2>. DEFINE j == BuildSaved(mem, BuildKey(mem.plan, step))
    <2>1. pc \in JobMatters /\ mem \in Job
      BY <1>23 DEF BuildCheckPasses, AtCheck
    <2>2. j \in Job /\ j.tries = mem.tries /\ j.failure # "legacy"
      BY <2>1, BuildSavedIsJob, <2>0 DEF SameCharge
    <2>3. saved' \in {saved, j} /\ spent' = spent
          /\ badWrites' \in {badWrites, badWrites + 1}
      BY <1>23 DEF BuildCheckPasses, AtCheck, SaveJob, Save
    <2>4. mem' = j /\ err' # "legacy"
      BY <1>23 DEF BuildCheckPasses, AtCheck, SaveJob, Save
    <2>. QED
      BY <2>1, <2>2, <2>3, <2>4, SavedKeepsBudget
  <1>24. CASE CheckDisturbsTree
    BY <1>24, BuildsDroppedIsJob DEF CheckDisturbsTree, AtCheck, SameCharge
  <1>25. CASE GateFails
    BY <1>25 DEF GateFails
  <1>26. CASE RejectPlan
    <2>. SUFFICES ASSUME ~ canceled PROVE Budget'
      BY <1>26 DEF RejectPlan
    <2>1. pc \in JobMatters /\ mem \in Job
      BY <1>26 DEF RejectPlan
    <2>2. NeedsRepair(mem) \in Job /\ NeedsRepair(mem).tries = mem.tries /\ NeedsRepair(mem).failure # "legacy"
      BY <2>1, NeedsRepairIsJob DEF SameCharge
    <2>3. saved' \in {saved, NeedsRepair(mem)} /\ spent' = spent
          /\ badWrites' \in {badWrites, badWrites + 1}
      BY <1>26 DEF RejectPlan, SaveJob, Save
    <2>4. mem' = NeedsRepair(mem) /\ err' # "legacy"
      BY <1>26 DEF RejectPlan, SaveJob, Save
    <2>. QED
      BY <2>1, <2>2, <2>3, <2>4, SavedKeepsBudget
  <1>27. CASE GatePasses
    <2>1. pc \in JobMatters /\ mem \in Job
      BY <1>27 DEF GatePasses
    <2>2. Publishing(mem) \in Job /\ Publishing(mem).tries = mem.tries /\ Publishing(mem).failure # "legacy"
      BY <2>1, PublishingIsJob DEF SameCharge
    <2>3. saved' \in {saved, Publishing(mem)} /\ spent' = spent
          /\ badWrites' \in {badWrites, badWrites + 1}
      BY <1>27 DEF GatePasses, SaveJob, Save
    <2>4. mem' = Publishing(mem) /\ err' # "legacy"
      BY <1>27 DEF GatePasses, SaveJob, Save
    <2>. QED
      BY <2>1, <2>2, <2>3, <2>4, SavedKeepsBudget
  <1>28. CASE ReceiptArrives
    <2>1. pc \in JobMatters /\ mem \in Job
      BY <1>28 DEF ReceiptArrives
    <2>2. Delivered(mem) \in Job /\ Delivered(mem).tries = mem.tries /\ Delivered(mem).failure # "legacy"
      BY <2>1, DeliveredIsJob DEF SameCharge
    <2>3. saved' \in {saved, Delivered(mem)} /\ spent' = spent
          /\ badWrites' \in {badWrites, badWrites + 1}
      BY <1>28 DEF ReceiptArrives, SaveJob, Save
    <2>4. mem' = Delivered(mem) /\ err' # "legacy"
      BY <1>28 DEF ReceiptArrives, SaveJob, Save
    <2>. QED
      BY <2>1, <2>2, <2>3, <2>4, SavedKeepsBudget
  <1>29. CASE ReceiptRejected
    <2>1. pc \in JobMatters /\ mem \in Job
      BY <1>29 DEF ReceiptRejected
    <2>2. NeedsRepair(mem) \in Job /\ NeedsRepair(mem).tries = mem.tries /\ NeedsRepair(mem).failure # "legacy"
      BY <2>1, NeedsRepairIsJob DEF SameCharge
    <2>3. saved' \in {saved, NeedsRepair(mem)} /\ spent' = spent
          /\ badWrites' \in {badWrites, badWrites + 1}
      BY <1>29 DEF ReceiptRejected, SaveJob, Save
    <2>4. mem' = NeedsRepair(mem) /\ err' # "legacy"
      BY <1>29 DEF ReceiptRejected, SaveJob, Save
    <2>. QED
      BY <2>1, <2>2, <2>3, <2>4, SavedKeepsBudget
  <1>30. CASE PublisherFails
    BY <1>30 DEF PublisherFails
  <1>31. CASE VerifySucceeds
    BY <1>31 DEF VerifySucceeds
  <1>32. CASE VerifyFails
    BY <1>32 DEF VerifyFails, VerificationFails, Fault
  <1>33. CASE Finish
    <2>1. pc' = "idle" /\ err' = err
      BY <1>33 DEF Finish, Save
    <2>2. \/ saved' = NoJob /\ spent' = 0
          \/ saved' = saved /\ saved # NoJob /\ spent' = spent
             /\ badWrites' \in {badWrites, badWrites + 1}
      BY <1>33 DEF Finish, Save
    <2>3. saved \in Job /\ saved.tries \in Int
      BY <1>33, JobFields DEF Finish
    <2>. QED
      BY <2>1, <2>2, <2>3
  <1>34. CASE AttemptInterrupted
    <2>1. mem \in Job /\ mem.tries \in Int /\ saved \in Job /\ spent > 0
      BY <1>34, JobFields DEF AttemptInterrupted
    <2>2. /\ Refunded(mem) \in Job /\ Refunded(mem).tries = mem.tries - 1
          /\ Refunded(mem).failure # "legacy"
      BY <1>34, <2>1, RefundedIsJob DEF AttemptInterrupted
    <2>3. /\ pc' \in {"idle"} /\ spent' = spent - 1
          /\ \/ saved' = Refunded(mem) /\ badWrites' = badWrites
             \/ saved' \in {saved, Refunded(mem)} /\ badWrites' = badWrites + 1
      BY <1>34 DEF AttemptInterrupted, SaveJob, Save
    <2>4. err' = "none"
      BY <1>34 DEF AttemptInterrupted
    <2>5. /\ spent <= mem.tries /\ mem.tries <= spent + badWrites
          /\ saved.tries = mem.tries /\ saved.failure # "legacy" /\ saved # NoJob
          /\ saved.tries <= Attempts
      BY <1>34, <2>1 DEF AttemptInterrupted
    <2>. QED
      BY <2>1, <2>2, <2>3, <2>4, <2>5
  <1>35. CASE AttemptNotSetUp
    <2>1. mem \in Job /\ mem.tries \in Int /\ saved \in Job /\ spent > 0
      BY <1>35, JobFields DEF AttemptNotSetUp
    <2>2. /\ Refunded(mem) \in Job /\ Refunded(mem).tries = mem.tries - 1
          /\ Refunded(mem).failure # "legacy"
      BY <1>35, <2>1, RefundedIsJob DEF AttemptNotSetUp
    <2>3. /\ pc' \in {"down", "idle"} /\ spent' = spent - 1
          /\ \/ saved' = Refunded(mem) /\ badWrites' = badWrites
             \/ saved' \in {saved, Refunded(mem)} /\ badWrites' = badWrites + 1
      BY <1>35 DEF AttemptNotSetUp, SaveJob, Save
    <2>4. err' = "none"
      BY <1>35 DEF AttemptNotSetUp
    <2>5. /\ spent <= mem.tries /\ mem.tries <= spent + badWrites
          /\ saved.tries = mem.tries /\ saved.failure # "legacy" /\ saved # NoJob
          /\ saved.tries <= Attempts
      BY <1>35, <2>1 DEF AttemptNotSetUp
    <2>. QED
      BY <2>1, <2>2, <2>3, <2>4, <2>5
  <1>36. CASE AttemptFails
    <2>0. err \in Failures
      BY <1>36 DEF AttemptFails, Errors
    <2>1. pc \in JobMatters /\ mem \in Job
      BY <1>36 DEF AttemptFails, AfterExhaustion
    <2>2. Failed(mem, err) \in Job /\ Failed(mem, err).tries = mem.tries /\ Failed(mem, err).failure # "legacy"
      BY <2>1, FailedIsJob, <2>0 DEF SameCharge
    <2>3. saved' \in {saved, Failed(mem, err)} /\ spent' = spent
          /\ badWrites' \in {badWrites, badWrites + 1}
      BY <1>36 DEF AttemptFails, AfterExhaustion, SaveJob, Save
    <2>4. mem' = Failed(mem, err) /\ err' # "legacy"
      BY <1>36 DEF AttemptFails, AfterExhaustion, SaveJob, Save
    <2>. QED
      BY <2>1, <2>2, <2>3, <2>4, SavedKeepsBudget
  <1>37. CASE Start
    BY <1>37 DEF Start, Forget
  <1>38. CASE Cancel
    BY <1>38 DEF Cancel, Fault
  <1>39. CASE Crash
    BY <1>39 DEF Crash, Forget, Fault
  <1>40. CASE Retry
    BY <1>40, BudgetResetIsJob DEF Retry
  <1>41. CASE CoolDown
    BY <1>41, UndelayedIsJob DEF CoolDown, SameCharge
  <1>42. CASE PublisherActs
    BY <1>42 DEF PublisherActs
  <1>43. CASE PublicationCompletes
    BY <1>43 DEF PublicationCompletes
  <1>44. CASE Push
    BY <1>44 DEF Push
  <1>45. CASE Disturb
    BY <1>45 DEF Disturb
  <1>46. CASE UNCHANGED vars
    BY <1>46 DEF vars
  <1>47. CASE GateExpires
    BY <1>47, BuildsDroppedIsJob DEF GateExpires
  <1>. QED
    BY <1>1, <1>2, <1>3, <1>4, <1>5, <1>6, <1>7, <1>8, <1>9, <1>10, <1>11,
       <1>12, <1>13, <1>14, <1>15, <1>16, <1>17, <1>18, <1>19, <1>20, <1>21,
       <1>22, <1>23, <1>24, <1>25, <1>26, <1>27, <1>28, <1>29, <1>30, <1>31,
       <1>32, <1>33, <1>34, <1>35, <1>36, <1>37, <1>38, <1>39, <1>40, <1>41,
       <1>42, <1>43, <1>44, <1>45, <1>46,
       <1>47 DEF Next, Daemon, Environment

\* The durable count of attempts and the attempts truly begun agree up to the
\* writes that reported an error, and never exceed the configured number, for
\* every record this version wrote: crashes, cancellations and restarts neither
\* lose nor buy an attempt.
THEOREM BudgetKept ==
  ASSUME Upgraded = FALSE
  PROVE  Spec => []AttemptsAccounted
  <1>1. Init => Budget
    BY BudgetInit
  <1>2. Budget => AttemptsAccounted
    BY DEF Budget, AttemptsAccounted
  <1>. QED
    BY <1>1, <1>2, TypeInit, TypeStep, LinkedInit, LinkedStep, BudgetStep, PTL
    DEF Spec

-----------------------------------------------------------------------------
(* The gate.  Progress through its checks is only evidence together with    *)
(* the truth of the cached builds, on disk and in memory.                   *)

CheckedTo(n) ==
  \A i \in 1 .. n :
    IF Checks[i] = "live" THEN i \in passed ELSE <<mem.plan, i>> \in built

GateInv ==
  /\ saved # NoJob => saved.builds \subseteq built
  /\ pc \in JobMatters => mem.builds \subseteq built
  /\ pc \in {"gate", "publish"} => mem.plan \in ValidPlans
  /\ (pc = "gate" /\ step >= 1) => OnBranch(mem.plan, mem.target) /\ CheckedTo(step - 1)
  /\ pc = "publish" =>
       /\ OnBranch(mem.plan, mem.target) /\ TreeOk(mem.plan)
       /\ CheckedTo(Len(Checks))
       /\ saved.phase = "publish" /\ saved.plan = mem.plan

LEMMA GateInit == Init => GateInv
  <1>1. LegacyJob(1).builds = {}
    BY LegacyJobIsJob DEF Commits
  <1>. QED
    BY <1>1 DEF Init, GateInv, JobMatters

\* A save that adds no build result, outside the gate.
LEMMA SavedKeepsGate ==
  ASSUME TypeInv, GateInv, pc \in JobMatters, NEW j \in Job,
         j.builds \subseteq mem.builds, saved' \in {saved, j}, mem' = j,
         built' = built, pc' \notin {"gate", "publish"}
  PROVE  GateInv'
  <1>1. mem.builds \subseteq built /\ (saved # NoJob => saved.builds \subseteq built)
    BY DEF GateInv
  <1>2. mem'.builds \subseteq built' /\ (saved' # NoJob => saved'.builds \subseteq built')
    BY <1>1
  <1>. QED
    BY <1>2 DEF GateInv

\* One more check passed, cached, live or built.
LEMMA OneMoreCheck ==
  ASSUME step \in 1 .. Len(Checks), CheckedTo(step - 1),
         mem'.plan = mem.plan, passed \subseteq passed', built \subseteq built',
         IF Checks[step] = "live" THEN step \in passed' ELSE <<mem.plan, step>> \in built'
  PROVE  \A i \in 1 .. step :
           IF Checks[i] = "live" THEN i \in passed' ELSE <<mem'.plan, i>> \in built'
  <1>. SUFFICES ASSUME NEW i \in 1 .. step
                PROVE  IF Checks[i] = "live" THEN i \in passed'
                                             ELSE <<mem'.plan, i>> \in built'
    OBVIOUS
  <1>1. CASE i = step
    BY <1>1
  <1>2. CASE i # step
    <2>1. i \in 1 .. step - 1
      BY <1>2, LengthIsNat
    <2>. QED
      BY <2>1 DEF CheckedTo
  <1>. QED
    BY <1>1, <1>2

LEMMA GateStep == TypeInv /\ Linked /\ GateInv /\ [Next]_vars => GateInv'
  <1>. SUFFICES ASSUME TypeInv, Linked, GateInv, [Next]_vars PROVE GateInv'
    OBVIOUS
  <1>. USE ConstantsAssumption, LengthIsNat
       DEF TypeInv, TypeOK, Shape, Linked, GateInv, JobMatters, Attempting, disk,
           control, world, ghosts, bounds
  <1>1. CASE Wake
    BY <1>1 DEF Wake, Forget
  <1>2. CASE Stop
    BY <1>2 DEF Stop, Forget
  <1>3. CASE CycleFails
    BY <1>3 DEF CycleFails, Fault
  <1>4. CASE CycleIdle
    BY <1>4 DEF CycleIdle
  <1>5. CASE CycleBegins
    BY <1>5, NewJobIsJob DEF CycleBegins, SaveJob, Save
  <1>6. CASE CycleResumes
    BY <1>6 DEF CycleResumes
  <1>7. CASE RecoverSetupFailure
    <2>1. pc \in JobMatters /\ mem \in Job
      BY <1>7 DEF RecoverSetupFailure
    <2>2. Recovered(mem) \in Job /\ Recovered(mem).builds \subseteq mem.builds
      BY <2>1, RecoveredIsJob DEF SameCharge
    <2>3. saved' \in {saved, Recovered(mem)} /\ mem' = Recovered(mem) /\ built' = built
      BY <1>7 DEF RecoverSetupFailure, SaveJob, Save
    <2>4. pc' \notin {"gate", "publish"}
      BY <1>7 DEF RecoverSetupFailure, SaveJob, Save
    <2>. QED
      BY <2>1, <2>2, <2>3, <2>4, SavedKeepsGate
  <1>8. CASE BackOff
    BY <1>8 DEF BackOff
  <1>9. CASE BeginReconcile
    BY <1>9, JobFields DEF BeginReconcile, FirstCandidate, PlanIsSpeculative
  <1>10. CASE ReconcileSucceeds
    BY <1>10 DEF ReconcileSucceeds
  <1>11. CASE ReconcileFails
    BY <1>11, JobFields, NotPublishedIsJob DEF ReconcileFails, NextCandidate, PlanIsSpeculative, VerificationFails, Fault, SameCharge
  <1>12. CASE ReconcileInterrupted
    <2>1. pc \in JobMatters /\ mem \in Job
      BY <1>12 DEF ReconcileInterrupted
    <2>2. Undelayed(mem) \in Job /\ Undelayed(mem).builds \subseteq mem.builds
      BY <2>1, UndelayedIsJob DEF SameCharge
    <2>3. saved' \in {saved, Undelayed(mem)} /\ mem' = Undelayed(mem) /\ built' = built
      BY <1>12 DEF ReconcileInterrupted, SaveJob, Save
    <2>4. pc' \notin {"gate", "publish"}
      BY <1>12 DEF ReconcileInterrupted, SaveJob, Save
    <2>. QED
      BY <2>1, <2>2, <2>3, <2>4, SavedKeepsGate
  <1>13. CASE Exhausted
    <2>1. pc \in JobMatters /\ mem \in Job
      BY <1>13 DEF Exhausted, AfterExhaustion
    <2>2. Undelayed(mem) \in Job /\ Undelayed(mem).builds \subseteq mem.builds
      BY <2>1, UndelayedIsJob DEF SameCharge
    <2>3. saved' \in {saved, Undelayed(mem)} /\ mem' = Undelayed(mem) /\ built' = built
      BY <1>13 DEF Exhausted, AfterExhaustion, SaveJob, Save
    <2>4. pc' \notin {"gate", "publish"}
      BY <1>13 DEF Exhausted, AfterExhaustion, SaveJob, Save
    <2>. QED
      BY <2>1, <2>2, <2>3, <2>4, SavedKeepsGate
  <1>14. CASE Charge
    <2>1. pc \in JobMatters /\ mem \in Job
      BY <1>14 DEF Charge
    <2>2. Charged(mem) \in Job /\ Charged(mem).builds \subseteq mem.builds
      BY <2>1, ChargedIsJob DEF SameCharge
    <2>3. saved' \in {saved, Charged(mem)} /\ mem' = Charged(mem) /\ built' = built
      BY <1>14 DEF Charge, SaveJob, Save
    <2>4. pc' \notin {"gate", "publish"}
      BY <1>14 DEF Charge, SaveJob, Save
    <2>. QED
      BY <2>1, <2>2, <2>3, <2>4, SavedKeepsGate
  <1>15. CASE ResumePrepared
    <2>1. EnterGate(mem) /\ mem.plan \in ValidPlans
      BY <1>15 DEF ResumePrepared, Usable
    <2>2. pc \in JobMatters /\ mem \in Job
      BY <1>15 DEF ResumePrepared
    <2>3. /\ Validating(mem) \in Job /\ Validating(mem).builds = mem.builds
          /\ Validating(mem).plan \in ValidPlans
      BY <2>1, <2>2, ValidatingIsJob DEF SameCharge
    <2>4. /\ saved' \in {saved, Validating(mem)} /\ mem' = Validating(mem) /\ pc' \in {"gate", "failed"}
          /\ step' = 0
      BY <2>1 DEF EnterGate, SaveJob, Save
    <2>5. built' = built
      BY <1>15 DEF ResumePrepared
    <2>6. mem.builds \subseteq built /\ (saved # NoJob => saved.builds \subseteq built)
      BY <2>2
    <2>. QED
      BY <2>3, <2>4, <2>5, <2>6 DEF CheckedTo
  <1>16. CASE EnterInterrupted
    BY <1>16 DEF EnterInterrupted
  <1>17. CASE BeginPreparation
    <2>. DEFINE j == Preparing(mem, mem.plan = NoPlan \/ KeepsBuilds(mem))
    <2>1. pc \in JobMatters /\ mem \in Job
      BY <1>17 DEF BeginPreparation
    <2>2. j \in Job /\ j.builds \subseteq mem.builds
      BY <2>1, PreparingIsJob DEF SameCharge
    <2>3. saved' \in {saved, j} /\ mem' = j /\ built' = built
      BY <1>17 DEF BeginPreparation, SaveJob, Save
    <2>4. pc' \notin {"gate", "publish"}
      BY <1>17 DEF BeginPreparation, SaveJob, Save
    <2>. QED
      BY <2>1, <2>2, <2>3, <2>4, SavedKeepsGate
  <1>18. CASE PreparationSucceeds
    <2>1. PICK p \in ValidPlans : EnterGate(Prepared(mem, p))
      BY <1>18 DEF PreparationSucceeds
    <2>. DEFINE j == Validating(Prepared(mem, p))
    <2>2. pc \in JobMatters /\ mem \in Job
      BY <1>18 DEF PreparationSucceeds
    <2>3. /\ j \in Job /\ j.builds = mem.builds
          /\ j.plan \in ValidPlans
      BY <2>1, <2>2, PreparedIsJob, ValidatingIsJob DEF SameCharge
    <2>4. /\ saved' \in {saved, j} /\ mem' = j /\ pc' \in {"gate", "failed"}
          /\ step' = 0
      BY <2>1 DEF EnterGate, SaveJob, Save
    <2>5. built' = built
      BY <1>18 DEF PreparationSucceeds
    <2>6. mem.builds \subseteq built /\ (saved # NoJob => saved.builds \subseteq built)
      BY <2>2
    <2>. QED
      BY <2>3, <2>4, <2>5, <2>6 DEF CheckedTo
  <1>19. CASE PreparationFails
    BY <1>19 DEF PreparationFails
  <1>20. CASE GateOpens
    <2>1. step' = 1 /\ pc' = "gate" /\ OnBranch(mem.plan, mem.target)
      BY <1>20 DEF GateOpens
    <2>2. UNCHANGED <<saved, mem, tree, remote, built, passed>>
      BY <1>20 DEF GateOpens
    <2>3. OnBranch(mem.plan, mem.target)'
      BY <2>1, <2>2 DEF OnBranch
    <2>4. CheckedTo(0)'
      BY DEF CheckedTo
    <2>. QED
      BY <1>20, <2>1, <2>2, <2>3, <2>4 DEF GateOpens
  <1>21. CASE SkipCachedBuild
    <2>1. step \in 1 .. Len(Checks) /\ pc = "gate" /\ mem \in Job
      BY <1>21 DEF SkipCachedBuild, AtCheck
    <2>2. CheckedTo(step - 1) /\ OnBranch(mem.plan, mem.target)
      BY <2>1
    <2>3. UNCHANGED <<pc, saved, mem, tree, remote, built, passed>> /\ step' = step + 1
      BY <1>21 DEF SkipCachedBuild
    <2>4. Checks[step] = "build" /\ <<mem.plan, step>> \in built
      BY <1>21, <2>1 DEF SkipCachedBuild, Cached, BuildKey
    <2>5. \A i \in 1 .. step :
             IF Checks[i] = "live" THEN i \in passed' ELSE <<mem'.plan, i>> \in built'
      BY <2>1, <2>2, <2>3, <2>4, OneMoreCheck
    <2>6. CheckedTo(step - 1)'
      BY <2>1, <2>3, <2>5 DEF CheckedTo
    <2>. QED
      BY <2>1, <2>2, <2>3, <2>6 DEF OnBranch
  <1>22. CASE LiveCheckPasses
    <2>1. step \in 1 .. Len(Checks) /\ pc = "gate" /\ mem \in Job
      BY <1>22 DEF LiveCheckPasses, AtCheck
    <2>2. CheckedTo(step - 1) /\ OnBranch(mem.plan, mem.target)
      BY <2>1
    <2>3. /\ UNCHANGED <<pc, saved, mem, tree, remote, built>> /\ step' = step + 1
          /\ passed' = passed \cup {step}
      BY <1>22 DEF LiveCheckPasses, AtCheck
    <2>4. Checks[step] = "live"
      BY <1>22 DEF LiveCheckPasses
    <2>5. \A i \in 1 .. step :
             IF Checks[i] = "live" THEN i \in passed' ELSE <<mem'.plan, i>> \in built'
      BY <2>1, <2>2, <2>3, <2>4, OneMoreCheck
    <2>6. CheckedTo(step - 1)'
      BY <2>1, <2>3, <2>5 DEF CheckedTo
    <2>. QED
      BY <2>1, <2>2, <2>3, <2>6 DEF OnBranch
  <1>23. CASE BuildCheckPasses
    <2>1. step \in 1 .. Len(Checks) /\ pc = "gate" /\ mem \in Job
      BY <1>23 DEF BuildCheckPasses, AtCheck
    <2>2. CheckedTo(step - 1) /\ OnBranch(mem.plan, mem.target)
      BY <2>1
    <2>. DEFINE k == <<mem.plan, step>>
               j == BuildSaved(mem, k)
    <2>3. k \in BuildKeys /\ BuildKey(mem.plan, step) = k
      BY <2>1 DEF BuildKey, BuildKeys
    <2>4. /\ j \in Job /\ j.builds = mem.builds \cup {k}
          /\ j.plan = mem.plan /\ j.target = mem.target
      BY <2>1, <2>3, BuildSavedIsJob DEF SameCharge
    <2>5. /\ saved' \in {saved, j} /\ mem' = j /\ pc' \in {"gate", "reject"}
          /\ step' = (IF pc' = "gate" THEN step + 1 ELSE step)
          /\ built' = built \cup {k} /\ UNCHANGED <<tree, remote, passed>>
      BY <1>23, <2>3 DEF BuildCheckPasses, SaveJob, Save
    <2>6. Checks[step] = "build"
      BY <1>23 DEF BuildCheckPasses
    <2>7. \A i \in 1 .. step :
             IF Checks[i] = "live" THEN i \in passed' ELSE <<mem'.plan, i>> \in built'
      BY <2>1, <2>2, <2>4, <2>5, <2>6, OneMoreCheck
    <2>8. mem.builds \subseteq built /\ (saved # NoJob => saved.builds \subseteq built)
      BY <2>1
    <2>9. mem'.builds \subseteq built' /\ (saved' # NoJob => saved'.builds \subseteq built')
      BY <2>4, <2>5, <2>8
    <2>10. OnBranch(mem.plan, mem.target)'
      BY <2>2, <2>4, <2>5 DEF OnBranch
    <2>11. mem'.plan \in ValidPlans
      BY <2>1, <2>4, <2>5
    <2>12. ASSUME pc' = "gate" PROVE CheckedTo(step - 1)'
      <3>1. step' - 1 = step
        BY <2>1, <2>5, <2>12
      <3>. QED
        BY <2>7, <3>1 DEF CheckedTo
    <2>. QED
      BY <2>5, <2>9, <2>10, <2>11, <2>12
  <1>24. CASE CheckDisturbsTree
    BY <1>24, BuildsDroppedIsJob DEF CheckDisturbsTree, AtCheck, SameCharge
  <1>25. CASE GateFails
    BY <1>25 DEF GateFails
  <1>26. CASE RejectPlan
    <2>. SUFFICES ASSUME ~ canceled PROVE GateInv'
      BY <1>26 DEF RejectPlan
    <2>1. pc \in JobMatters /\ mem \in Job
      BY <1>26 DEF RejectPlan
    <2>2. NeedsRepair(mem) \in Job /\ NeedsRepair(mem).builds \subseteq mem.builds
      BY <2>1, NeedsRepairIsJob DEF SameCharge
    <2>3. saved' \in {saved, NeedsRepair(mem)} /\ mem' = NeedsRepair(mem) /\ built' = built
      BY <1>26 DEF RejectPlan, SaveJob, Save
    <2>4. pc' \notin {"gate", "publish"}
      BY <1>26 DEF RejectPlan, SaveJob, Save
    <2>. QED
      BY <2>1, <2>2, <2>3, <2>4, SavedKeepsGate
  <1>27. CASE GatePasses
    <2>1. pc = "gate" /\ step = Len(Checks) + 1 /\ step >= 1 /\ mem \in Job
      BY <1>27 DEF GatePasses
    <2>2. CheckedTo(Len(Checks)) /\ OnBranch(mem.plan, mem.target) /\ TreeOk(mem.plan)
      BY <1>27, <2>1 DEF GatePasses
    <2>. DEFINE j == Publishing(mem)
    <2>3. /\ j \in Job /\ j.builds = mem.builds /\ j.plan = mem.plan
          /\ j.target = mem.target /\ j.phase = "publish"
      BY <2>1, PublishingIsJob DEF SameCharge
    <2>4. /\ mem' = j
          /\ \/ pc' = "publish" /\ saved' = j
             \/ pc' = "failed" /\ saved' \in {saved, j}
      BY <1>27 DEF GatePasses, SaveJob, Save
    <2>5. UNCHANGED <<tree, remote, built, passed, step>>
      BY <1>27 DEF GatePasses
    <2>6. CheckedTo(Len(Checks))' /\ OnBranch(mem.plan, mem.target)' /\ TreeOk(mem.plan)'
      BY <2>2, <2>3, <2>4, <2>5 DEF CheckedTo, OnBranch, TreeOk
    <2>7. mem.builds \subseteq built /\ (saved # NoJob => saved.builds \subseteq built)
          /\ mem.plan \in ValidPlans
      BY <2>1
    <2>. QED
      BY <2>3, <2>4, <2>5, <2>6, <2>7
  <1>28. CASE ReceiptArrives
    <2>1. pc \in JobMatters /\ mem \in Job
      BY <1>28 DEF ReceiptArrives
    <2>2. Delivered(mem) \in Job /\ Delivered(mem).builds \subseteq mem.builds
      BY <2>1, DeliveredIsJob DEF SameCharge
    <2>3. saved' \in {saved, Delivered(mem)} /\ mem' = Delivered(mem) /\ built' = built
      BY <1>28 DEF ReceiptArrives, SaveJob, Save
    <2>4. pc' \notin {"gate", "publish"}
      BY <1>28 DEF ReceiptArrives, SaveJob, Save
    <2>. QED
      BY <2>1, <2>2, <2>3, <2>4, SavedKeepsGate
  <1>29. CASE ReceiptRejected
    <2>1. pc \in JobMatters /\ mem \in Job
      BY <1>29 DEF ReceiptRejected
    <2>2. NeedsRepair(mem) \in Job /\ NeedsRepair(mem).builds \subseteq mem.builds
      BY <2>1, NeedsRepairIsJob DEF SameCharge
    <2>3. saved' \in {saved, NeedsRepair(mem)} /\ mem' = NeedsRepair(mem) /\ built' = built
      BY <1>29 DEF ReceiptRejected, SaveJob, Save
    <2>4. pc' \notin {"gate", "publish"}
      BY <1>29 DEF ReceiptRejected, SaveJob, Save
    <2>. QED
      BY <2>1, <2>2, <2>3, <2>4, SavedKeepsGate
  <1>30. CASE PublisherFails
    BY <1>30 DEF PublisherFails
  <1>31. CASE VerifySucceeds
    BY <1>31 DEF VerifySucceeds
  <1>32. CASE VerifyFails
    BY <1>32 DEF VerifyFails, VerificationFails, Fault
  <1>33. CASE Finish
    <2>1. pc' = "idle" /\ saved' \in {saved, NoJob}
      BY <1>33 DEF Finish, Save
    <2>2. saved' = saved => saved' = NoJob \/ built' = built
      BY <1>33 DEF Finish
    <2>. QED
      BY <2>1, <2>2
  <1>34. CASE AttemptInterrupted
    <2>1. pc \in JobMatters /\ mem \in Job
      BY <1>34 DEF AttemptInterrupted
    <2>2. Refunded(mem) \in Job /\ Refunded(mem).builds \subseteq mem.builds
      BY <2>1, RefundedIsJob DEF SameCharge
    <2>3. saved' \in {saved, Refunded(mem)} /\ mem' = Refunded(mem) /\ built' = built
      BY <1>34 DEF AttemptInterrupted, SaveJob, Save
    <2>4. pc' \notin {"gate", "publish"}
      BY <1>34 DEF AttemptInterrupted, SaveJob, Save
    <2>. QED
      BY <2>1, <2>2, <2>3, <2>4, SavedKeepsGate
  <1>35. CASE AttemptNotSetUp
    <2>1. pc \in JobMatters /\ mem \in Job
      BY <1>35 DEF AttemptNotSetUp
    <2>2. Refunded(mem) \in Job /\ Refunded(mem).builds \subseteq mem.builds
      BY <2>1, RefundedIsJob DEF SameCharge
    <2>3. saved' \in {saved, Refunded(mem)} /\ mem' = Refunded(mem) /\ built' = built
      BY <1>35 DEF AttemptNotSetUp, SaveJob, Save
    <2>4. pc' \notin {"gate", "publish"}
      BY <1>35 DEF AttemptNotSetUp, SaveJob, Save
    <2>. QED
      BY <2>1, <2>2, <2>3, <2>4, SavedKeepsGate
  <1>36. CASE AttemptFails
    <2>0. err \in Failures
      BY <1>36 DEF AttemptFails, Errors
    <2>1. pc \in JobMatters /\ mem \in Job
      BY <1>36 DEF AttemptFails, AfterExhaustion
    <2>2. Failed(mem, err) \in Job /\ Failed(mem, err).builds \subseteq mem.builds
      BY <2>1, FailedIsJob, <2>0 DEF SameCharge
    <2>3. saved' \in {saved, Failed(mem, err)} /\ mem' = Failed(mem, err) /\ built' = built
      BY <1>36 DEF AttemptFails, AfterExhaustion, SaveJob, Save
    <2>4. pc' \notin {"gate", "publish"}
      BY <1>36 DEF AttemptFails, AfterExhaustion, SaveJob, Save
    <2>. QED
      BY <2>1, <2>2, <2>3, <2>4, SavedKeepsGate
  <1>37. CASE Start
    BY <1>37 DEF Start, Forget
  <1>38. CASE Cancel
    BY <1>38 DEF Cancel, Fault, OnBranch, TreeOk, CheckedTo
  <1>39. CASE Crash
    BY <1>39 DEF Crash, Forget, Fault
  <1>40. CASE Retry
    BY <1>40, BudgetResetIsJob DEF Retry
  <1>41. CASE CoolDown
    BY <1>41, UndelayedIsJob DEF CoolDown, SameCharge, OnBranch, TreeOk, CheckedTo
  <1>42. CASE PublisherActs
    BY <1>42 DEF PublisherActs, OnBranch, TreeOk, CheckedTo
  <1>43. CASE PublicationCompletes
    BY <1>43 DEF PublicationCompletes, OnBranch, TreeOk, CheckedTo
  <1>44. CASE Push
    <2>1. /\ UNCHANGED <<saved, mem, pc, step, tree, built, passed>>
          /\ remote' = remote + 1
      BY <1>44 DEF Push
    <2>2. ASSUME mem.plan \in ValidPlans, OnBranch(mem.plan, mem.target)
          PROVE  OnBranch(mem.plan, mem.target)'
      BY <2>1, <2>2 DEF OnBranch, Commits
    <2>. QED
      BY <2>1, <2>2 DEF TreeOk, CheckedTo
  <1>45. CASE Disturb
    BY <1>45 DEF Disturb
  <1>46. CASE UNCHANGED vars
    BY <1>46 DEF vars, OnBranch, TreeOk, CheckedTo
  <1>47. CASE GateExpires
    BY <1>47, BuildsDroppedIsJob DEF GateExpires
  <1>. QED
    BY <1>1, <1>2, <1>3, <1>4, <1>5, <1>6, <1>7, <1>8, <1>9, <1>10, <1>11,
       <1>12, <1>13, <1>14, <1>15, <1>16, <1>17, <1>18, <1>19, <1>20, <1>21,
       <1>22, <1>23, <1>24, <1>25, <1>26, <1>27, <1>28, <1>29, <1>30, <1>31,
       <1>32, <1>33, <1>34, <1>35, <1>36, <1>37, <1>38, <1>39, <1>40, <1>41,
       <1>42, <1>43, <1>44, <1>45, <1>46,
       <1>47 DEF Next, Daemon, Environment

\* A publisher session only ever runs for a plan the gate has passed whole: the
\* record says so, the attempt is charged, the checkout is the plan's commit,
\* every live check passed in this very gate and every build check has passed
\* for this very plan, however many crashes and sessions lie in between.
THEOREM GateIsWhole == Spec => []GateBeforePublishing
  <1>1. TypeInv /\ Linked /\ GateInv => GateBeforePublishing
    <2>. SUFFICES ASSUME TypeInv, Linked, GateInv, pc = "publish"
                  PROVE  GateBeforePublishing
      BY DEF GateBeforePublishing
    <2>1. saved \in Job /\ mem \in Job /\ saved # NoJob
      BY ConstantsAssumption DEF TypeInv, Shape, JobMatters
    <2>2. /\ saved.tries = mem.tries /\ saved.target = mem.target
          /\ mem.tries > 0 /\ mem.tries \in Int
      BY <2>1, JobFields DEF Linked, JobMatters, Attempting
    <2>. QED
      BY <2>1, <2>2 DEF GateBeforePublishing, GateInv, CheckedTo
  <1>. QED
    BY <1>1, TypeInit, TypeStep, LinkedInit, LinkedStep, GateInit, GateStep, PTL
    DEF Spec

-----------------------------------------------------------------------------
(* The refinement.  The baseline never leads the remote branch, and what    *)
(* finish is about to record has been verified: nobody retracts it.         *)

Verified ==
  /\ released <= remote
  /\ pc = "finish" => Verifies(subject, saved.target)

LEMMA VerifiedInit == Init => Verified
  BY DEF Init, Verified

LEMMA VerifiedStep == TypeInv /\ Linked /\ Verified /\ [Next]_vars => Verified'
  <1>. SUFFICES ASSUME TypeInv, Linked, Verified, [Next]_vars PROVE Verified'
    OBVIOUS
  <1>. USE ConstantsAssumption, LengthIsNat
       DEF TypeInv, TypeOK, Shape, Linked, Verified, Verifies, JobMatters, disk,
           control, world, ghosts, bounds, Commits
  <1>1. CASE Wake
    BY <1>1 DEF Wake, Forget
  <1>2. CASE Stop
    BY <1>2 DEF Stop, Forget
  <1>3. CASE CycleFails
    BY <1>3 DEF CycleFails, Fault
  <1>4. CASE CycleIdle
    BY <1>4 DEF CycleIdle
  <1>5. CASE CycleBegins
    BY <1>5, NewJobIsJob DEF CycleBegins, SaveJob, Save
  <1>6. CASE CycleResumes
    BY <1>6 DEF CycleResumes
  <1>7. CASE RecoverSetupFailure
    BY <1>7, RecoveredIsJob DEF RecoverSetupFailure, SaveJob, Save
  <1>8. CASE BackOff
    BY <1>8 DEF BackOff
  <1>9. CASE BeginReconcile
    BY <1>9, JobFields DEF BeginReconcile, FirstCandidate, PlanIsSpeculative
  <1>10. CASE ReconcileSucceeds
    BY <1>10 DEF ReconcileSucceeds
  <1>11. CASE ReconcileFails
    BY <1>11, JobFields, NotPublishedIsJob DEF ReconcileFails, NextCandidate, PlanIsSpeculative, VerificationFails, Fault, SameCharge
  <1>12. CASE ReconcileInterrupted
    BY <1>12, UndelayedIsJob DEF ReconcileInterrupted, SaveJob, Save, SameCharge
  <1>13. CASE Exhausted
    BY <1>13, UndelayedIsJob DEF Exhausted, SaveJob, Save, SameCharge, AfterExhaustion
  <1>14. CASE Charge
    BY <1>14, ChargedIsJob DEF Charge, SaveJob, Save
  <1>15. CASE ResumePrepared
    BY <1>15, ValidatingIsJob DEF ResumePrepared, EnterGate, SaveJob, Save, SameCharge, Usable
  <1>16. CASE EnterInterrupted
    BY <1>16 DEF EnterInterrupted
  <1>17. CASE BeginPreparation
    BY <1>17, PreparingIsJob DEF BeginPreparation, SaveJob, Save, SameCharge
  <1>18. CASE PreparationSucceeds
    BY <1>18, PreparedIsJob, ValidatingIsJob DEF PreparationSucceeds, EnterGate, SaveJob, Save, SameCharge
  <1>19. CASE PreparationFails
    BY <1>19 DEF PreparationFails
  <1>20. CASE GateOpens
    BY <1>20 DEF GateOpens
  <1>21. CASE SkipCachedBuild
    BY <1>21 DEF SkipCachedBuild, AtCheck
  <1>22. CASE LiveCheckPasses
    BY <1>22 DEF LiveCheckPasses, AtCheck
  <1>23. CASE BuildCheckPasses
    BY <1>23, BuildSavedIsJob DEF BuildCheckPasses, AtCheck, SaveJob, Save, SameCharge, BuildKey, BuildKeys
  <1>24. CASE CheckDisturbsTree
    BY <1>24, BuildsDroppedIsJob DEF CheckDisturbsTree, AtCheck, SameCharge
  <1>25. CASE GateFails
    BY <1>25 DEF GateFails
  <1>26. CASE GateExpires
    BY <1>26, BuildsDroppedIsJob DEF GateExpires, AtCheck, SameCharge
  <1>27. CASE RejectPlan
    BY <1>27, NeedsRepairIsJob DEF RejectPlan, SaveJob, Save, SameCharge
  <1>28. CASE GatePasses
    BY <1>28, PublishingIsJob DEF GatePasses, SaveJob, Save, SameCharge
  <1>29. CASE ReceiptArrives
    BY <1>29, DeliveredIsJob DEF ReceiptArrives, SaveJob, Save, SameCharge
  <1>30. CASE ReceiptRejected
    BY <1>30, NeedsRepairIsJob DEF ReceiptRejected, SaveJob, Save, SameCharge
  <1>31. CASE PublisherFails
    BY <1>31 DEF PublisherFails
  <1>32. CASE VerifySucceeds
    BY <1>32 DEF VerifySucceeds
  <1>33. CASE VerifyFails
    BY <1>33 DEF VerifyFails, VerificationFails, Fault
  <1>34. CASE Finish
    BY <1>34 DEF Finish, Save
  <1>35. CASE AttemptInterrupted
    BY <1>35, RefundedIsJob DEF AttemptInterrupted, SaveJob, Save
  <1>36. CASE AttemptNotSetUp
    BY <1>36, RefundedIsJob DEF AttemptNotSetUp, SaveJob, Save
  <1>37. CASE AttemptFails
    BY <1>37, FailedIsJob DEF AttemptFails, SaveJob, Save, SameCharge, AfterExhaustion
  <1>38. CASE Start
    BY <1>38 DEF Start, Forget
  <1>39. CASE Cancel
    BY <1>39 DEF Cancel, Fault
  <1>40. CASE Crash
    BY <1>40 DEF Crash, Forget, Fault
  <1>41. CASE Retry
    BY <1>41, BudgetResetIsJob DEF Retry
  <1>42. CASE CoolDown
    BY <1>42, UndelayedIsJob DEF CoolDown, SameCharge
  <1>43. CASE PublisherActs
    BY <1>43 DEF PublisherActs
  <1>44. CASE PublicationCompletes
    BY <1>44 DEF PublicationCompletes
  <1>45. CASE Push
    BY <1>45 DEF Push
  <1>46. CASE Disturb
    BY <1>46 DEF Disturb
  <1>47. CASE UNCHANGED vars
    BY <1>47 DEF vars
  <1>. QED
    BY <1>1, <1>2, <1>3, <1>4, <1>5, <1>6, <1>7, <1>8, <1>9, <1>10, <1>11,
       <1>12, <1>13, <1>14, <1>15, <1>16, <1>17, <1>18, <1>19, <1>20, <1>21,
       <1>22, <1>23, <1>24, <1>25, <1>26, <1>27, <1>28, <1>29, <1>30, <1>31,
       <1>32, <1>33, <1>34, <1>35, <1>36, <1>37, <1>38, <1>39, <1>40, <1>41,
       <1>42, <1>43, <1>44, <1>45, <1>46, <1>47 DEF Next, Daemon, Environment

\* The target the ledger sees.
Target == IF saved = NoJob THEN NoJob ELSE saved.target

LEMMA Stutters ==
  ASSUME UNCHANGED <<released, complete, spent>>,
         saved = NoJob => saved' = NoJob,
         saved # NoJob => saved' # NoJob /\ saved'.target = saved.target
  PROVE  [Ledger!Next]_Ledger!vars
  BY DEF Ledger!vars

LEMMA SameTarget ==
  ASSUME TypeInv, Linked, pc \in JobMatters, NEW j \in Job,
         j.target = mem.target, saved' \in {saved, j}
  PROVE  /\ saved # NoJob /\ saved' # NoJob /\ saved'.target = saved.target
         /\ Target' = Target /\ Target # NoJob
  <1>1. saved \in Job /\ saved.target = mem.target /\ saved.target \in Commits
    BY JobFields DEF TypeInv, Shape, Linked
  <1>2. saved # NoJob /\ saved' # NoJob /\ saved'.target = saved.target
    BY <1>1, ConstantsAssumption
  <1>. QED
    BY <1>1, <1>2, ConstantsAssumption DEF Target

LEMMA SavedStutters ==
  ASSUME TypeInv, Linked, pc \in JobMatters, NEW j \in Job,
         j.target = mem.target, saved' \in {saved, j},
         UNCHANGED <<released, complete, spent>>
  PROVE  [Ledger!Next]_Ledger!vars
  BY SameTarget, Stutters

LEMMA LedgerInit ==
  ASSUME Upgraded = FALSE
  PROVE  Init => Ledger!Init
  BY DEF Init, Ledger!Init

LEMMA LedgerStep ==
  TypeInv /\ Linked /\ Budget /\ Verified /\ [Next]_vars
    => [Ledger!Next]_Ledger!vars
  <1>. SUFFICES ASSUME TypeInv, Linked, Budget, Verified, [Next]_vars
                PROVE  [Ledger!Next]_Ledger!vars
    OBVIOUS
  <1>. USE ConstantsAssumption, LengthIsNat
       DEF TypeInv, TypeOK, Shape, Linked, JobMatters, Attempting, disk, control,
           world, ghosts, bounds
  <1>1. CASE Wake
    BY <1>1, Stutters DEF Wake, Forget
  <1>2. CASE Stop
    BY <1>2, Stutters DEF Stop, Forget
  <1>3. CASE CycleFails
    BY <1>3, Stutters DEF CycleFails
  <1>4. CASE CycleIdle
    BY <1>4, Stutters DEF CycleIdle
  <1>5. CASE CycleBegins
    <2>. DEFINE j == NewJob(remote)
    <2>1. j \in Job /\ j # NoJob /\ j.target = remote
      BY NewJobIsJob
    <2>2. saved = NoJob /\ saved' \in {NoJob, j} /\ UNCHANGED <<released, complete, spent>>
      BY <1>5 DEF CycleBegins, SaveJob, Save
    <2>3. spent = 0 /\ released <= remote /\ remote \in Nat
      BY <2>2 DEF Budget, Verified, Commits
    <2>4. CASE saved' = NoJob
      BY <2>2, <2>4, Stutters
    <2>5. CASE saved' = j
      <3>1. Ledger!Open
        BY <2>1, <2>2, <2>3, <2>5 DEF Ledger!Open
      <3>. QED
        BY <3>1 DEF Ledger!Next
    <2>. QED
      BY <2>2, <2>4, <2>5
  <1>6. CASE CycleResumes
    BY <1>6, Stutters DEF CycleResumes
  <1>7. CASE RecoverSetupFailure
    <2>1. pc \in JobMatters /\ mem \in Job
      BY <1>7 DEF RecoverSetupFailure
    <2>. DEFINE j == Recovered(mem)
    <2>2. j \in Job /\ j.target = mem.target
      BY <2>1, RecoveredIsJob DEF SameCharge
    <2>3. saved' \in {saved, j} /\ UNCHANGED <<released, complete, spent>>
      BY <1>7 DEF RecoverSetupFailure, SaveJob, Save
    <2>. QED
      BY <2>1, <2>2, <2>3, SavedStutters
  <1>8. CASE BackOff
    BY <1>8, Stutters DEF BackOff
  <1>9. CASE BeginReconcile
    BY <1>9, Stutters DEF BeginReconcile
  <1>10. CASE ReconcileSucceeds
    BY <1>10, Stutters DEF ReconcileSucceeds
  <1>11. CASE ReconcileFails
    BY <1>11, Stutters DEF ReconcileFails
  <1>12. CASE ReconcileInterrupted
    <2>1. pc \in JobMatters /\ mem \in Job
      BY <1>12 DEF ReconcileInterrupted
    <2>. DEFINE j == Undelayed(mem)
    <2>2. j \in Job /\ j.target = mem.target
      BY <2>1, UndelayedIsJob DEF SameCharge
    <2>3. saved' \in {saved, j} /\ UNCHANGED <<released, complete, spent>>
      BY <1>12 DEF ReconcileInterrupted, SaveJob, Save
    <2>. QED
      BY <2>1, <2>2, <2>3, SavedStutters
  <1>13. CASE Exhausted
    <2>1. pc \in JobMatters /\ mem \in Job
      BY <1>13 DEF Exhausted
    <2>. DEFINE j == Undelayed(mem)
    <2>2. j \in Job /\ j.target = mem.target
      BY <2>1, UndelayedIsJob DEF SameCharge
    <2>3. saved' \in {saved, j} /\ UNCHANGED <<released, complete, spent>>
      BY <1>13 DEF Exhausted, SaveJob, Save
    <2>. QED
      BY <2>1, <2>2, <2>3, SavedStutters
  <1>14. CASE Charge
    <2>1. pc \in JobMatters /\ mem \in Job /\ mem.tries < Attempts
      BY <1>14 DEF Charge
    <2>. DEFINE j == Charged(mem)
    <2>2. j \in Job /\ j.target = mem.target
      BY <2>1, ChargedIsJob
    <2>3. /\ saved' \in {saved, j} /\ UNCHANGED <<released, complete>>
          /\ spent' \in {spent, spent + 1}
      BY <1>14 DEF Charge, SaveJob, Save
    <2>4. CASE spent' = spent
      BY <2>1, <2>2, <2>3, <2>4, SavedStutters
    <2>5. CASE spent' = spent + 1
      <3>1. Target' = Target /\ Target # NoJob
        BY <2>1, <2>2, <2>3, SameTarget
      <3>2. spent < Attempts
        BY <2>1, JobFields DEF Budget
      <3>3. Ledger!Spend
        BY <2>3, <2>5, <3>1, <3>2 DEF Ledger!Spend, Target
      <3>. QED
        BY <3>3 DEF Ledger!Next
    <2>. QED
      BY <2>3, <2>4, <2>5
  <1>15. CASE ResumePrepared
    <2>1. pc \in JobMatters /\ mem \in Job
      BY <1>15 DEF ResumePrepared
    <2>. DEFINE j == Validating(mem)
    <2>2. j \in Job /\ j.target = mem.target
      BY <2>1, ValidatingIsJob DEF SameCharge
    <2>3. saved' \in {saved, j} /\ UNCHANGED <<released, complete, spent>>
      BY <1>15 DEF ResumePrepared, EnterGate, SaveJob, Save
    <2>. QED
      BY <2>1, <2>2, <2>3, SavedStutters
  <1>16. CASE EnterInterrupted
    BY <1>16, Stutters DEF EnterInterrupted
  <1>17. CASE BeginPreparation
    <2>1. pc \in JobMatters /\ mem \in Job
      BY <1>17 DEF BeginPreparation
    <2>. DEFINE j == Preparing(mem, mem.plan = NoPlan \/ KeepsBuilds(mem))
    <2>2. j \in Job /\ j.target = mem.target
      BY <2>1, PreparingIsJob DEF SameCharge
    <2>3. saved' \in {saved, j} /\ UNCHANGED <<released, complete, spent>>
      BY <1>17 DEF BeginPreparation, SaveJob, Save
    <2>. QED
      BY <2>1, <2>2, <2>3, SavedStutters
  <1>18. CASE PreparationSucceeds
    <2>1. pc \in JobMatters /\ mem \in Job
      BY <1>18 DEF PreparationSucceeds
    <2>2. PICK p \in ValidPlans : EnterGate(Prepared(mem, p))
      BY <1>18 DEF PreparationSucceeds
    <2>. DEFINE j == Validating(Prepared(mem, p))
    <2>3. j \in Job /\ j.target = mem.target
      BY <2>1, PreparedIsJob, ValidatingIsJob DEF SameCharge
    <2>4. saved' \in {saved, j} /\ UNCHANGED <<released, complete, spent>>
      BY <1>18, <2>2 DEF PreparationSucceeds, EnterGate, SaveJob, Save
    <2>. QED
      BY <2>1, <2>3, <2>4, SavedStutters
  <1>19. CASE PreparationFails
    BY <1>19, Stutters DEF PreparationFails
  <1>20. CASE GateOpens
    BY <1>20, Stutters DEF GateOpens
  <1>21. CASE SkipCachedBuild
    BY <1>21, Stutters DEF SkipCachedBuild
  <1>22. CASE LiveCheckPasses
    BY <1>22, Stutters DEF LiveCheckPasses
  <1>23. CASE BuildCheckPasses
    <2>1. pc \in JobMatters /\ mem \in Job
      BY <1>23 DEF BuildCheckPasses, AtCheck
    <2>0. BuildKey(mem.plan, step) \in BuildKeys
      BY <1>23 DEF BuildCheckPasses, AtCheck, BuildKey, BuildKeys
    <2>. DEFINE j == BuildSaved(mem, BuildKey(mem.plan, step))
    <2>2. j \in Job /\ j.target = mem.target
      BY <2>0, <2>1, BuildSavedIsJob DEF SameCharge
    <2>3. saved' \in {saved, j} /\ UNCHANGED <<released, complete, spent>>
      BY <1>23 DEF BuildCheckPasses, SaveJob, Save
    <2>. QED
      BY <2>1, <2>2, <2>3, SavedStutters
  <1>24. CASE CheckDisturbsTree
    BY <1>24, Stutters DEF CheckDisturbsTree
  <1>25. CASE GateFails
    BY <1>25, Stutters DEF GateFails
  <1>26. CASE GateExpires
    BY <1>26, Stutters DEF GateExpires
  <1>27. CASE RejectPlan
    <2>1. pc \in JobMatters /\ mem \in Job
      BY <1>27 DEF RejectPlan
    <2>. DEFINE j == NeedsRepair(mem)
    <2>2. j \in Job /\ j.target = mem.target
      BY <2>1, NeedsRepairIsJob DEF SameCharge
    <2>3. saved' \in {saved, j} /\ UNCHANGED <<released, complete, spent>>
      BY <1>27 DEF RejectPlan, SaveJob, Save
    <2>. QED
      BY <2>1, <2>2, <2>3, SavedStutters
  <1>28. CASE GatePasses
    <2>1. pc \in JobMatters /\ mem \in Job
      BY <1>28 DEF GatePasses
    <2>. DEFINE j == Publishing(mem)
    <2>2. j \in Job /\ j.target = mem.target
      BY <2>1, PublishingIsJob DEF SameCharge
    <2>3. saved' \in {saved, j} /\ UNCHANGED <<released, complete, spent>>
      BY <1>28 DEF GatePasses, SaveJob, Save
    <2>. QED
      BY <2>1, <2>2, <2>3, SavedStutters
  <1>29. CASE ReceiptArrives
    <2>1. pc \in JobMatters /\ mem \in Job
      BY <1>29 DEF ReceiptArrives
    <2>. DEFINE j == Delivered(mem)
    <2>2. j \in Job /\ j.target = mem.target
      BY <2>1, DeliveredIsJob DEF SameCharge
    <2>3. saved' \in {saved, j} /\ UNCHANGED <<released, complete, spent>>
      BY <1>29 DEF ReceiptArrives, SaveJob, Save
    <2>. QED
      BY <2>1, <2>2, <2>3, SavedStutters
  <1>30. CASE ReceiptRejected
    <2>1. pc \in JobMatters /\ mem \in Job
      BY <1>30 DEF ReceiptRejected
    <2>. DEFINE j == NeedsRepair(mem)
    <2>2. j \in Job /\ j.target = mem.target
      BY <2>1, NeedsRepairIsJob DEF SameCharge
    <2>3. saved' \in {saved, j} /\ UNCHANGED <<released, complete, spent>>
      BY <1>30 DEF ReceiptRejected, SaveJob, Save
    <2>. QED
      BY <2>1, <2>2, <2>3, SavedStutters
  <1>31. CASE PublisherFails
    BY <1>31, Stutters DEF PublisherFails
  <1>32. CASE VerifySucceeds
    BY <1>32, Stutters DEF VerifySucceeds
  <1>33. CASE VerifyFails
    BY <1>33, Stutters DEF VerifyFails
  <1>34. CASE Finish
    <2>1. saved \in Job /\ saved # NoJob /\ saved.target \in Commits /\ UNCHANGED complete
      BY <1>34, JobFields DEF Finish
    <2>2. /\ subject \in complete /\ saved.target <= CommitOf[subject]
          /\ saved.target # NoJob
      BY <1>34, <2>1 DEF Finish, Verified, Verifies
    <2>3. \/ saved' = saved /\ released' = released
          \/ saved' = NoJob /\ released' = CommitOf[subject]
      BY <1>34 DEF Finish, Save
    <2>4. CASE saved' = NoJob
      <3>1. spent' = 0 /\ released' = CommitOf[subject]
        BY <1>34, <2>1, <2>3, <2>4 DEF Finish
      <3>2. CommitOf[subject] >= saved.target
        BY <1>34, <2>1, <2>2 DEF Finish, Commits
      <3>3. Ledger!Close
        BY <2>1, <2>2, <2>4, <3>1, <3>2 DEF Ledger!Close
      <3>. QED
        BY <3>3 DEF Ledger!Next
    <2>5. CASE saved' # NoJob
      <3>1. saved' = saved /\ UNCHANGED <<released, complete, spent>>
        BY <1>34, <2>1, <2>3, <2>5 DEF Finish
      <3>. QED
        BY <3>1, Stutters
    <2>. QED
      BY <2>4, <2>5
  <1>35. CASE AttemptInterrupted
    <2>1. pc \in JobMatters /\ mem \in Job /\ spent > 0
      BY <1>35 DEF AttemptInterrupted
    <2>. DEFINE j == Refunded(mem)
    <2>2. j \in Job /\ j.target = mem.target
      BY <2>1, RefundedIsJob
    <2>3. /\ saved' \in {saved, j} /\ UNCHANGED <<released, complete>>
          /\ spent' = spent - 1
      BY <1>35 DEF AttemptInterrupted, SaveJob, Save
    <2>4. Target' = Target /\ Target # NoJob
      BY <2>1, <2>2, <2>3, SameTarget
    <2>5. Ledger!GiveBack
      BY <2>1, <2>3, <2>4 DEF Ledger!GiveBack, Target
    <2>. QED
      BY <2>5 DEF Ledger!Next
  <1>36. CASE AttemptNotSetUp
    <2>1. pc \in JobMatters /\ mem \in Job /\ spent > 0
      BY <1>36 DEF AttemptNotSetUp
    <2>. DEFINE j == Refunded(mem)
    <2>2. j \in Job /\ j.target = mem.target
      BY <2>1, RefundedIsJob
    <2>3. /\ saved' \in {saved, j} /\ UNCHANGED <<released, complete>>
          /\ spent' = spent - 1
      BY <1>36 DEF AttemptNotSetUp, SaveJob, Save
    <2>4. Target' = Target /\ Target # NoJob
      BY <2>1, <2>2, <2>3, SameTarget
    <2>5. Ledger!GiveBack
      BY <2>1, <2>3, <2>4 DEF Ledger!GiveBack, Target
    <2>. QED
      BY <2>5 DEF Ledger!Next
  <1>37. CASE AttemptFails
    <2>1. pc \in JobMatters /\ mem \in Job /\ err \in Failures
      BY <1>37 DEF AttemptFails, Errors
    <2>. DEFINE j == Failed(mem, err)
    <2>2. j \in Job /\ j.target = mem.target
      BY <2>1, FailedIsJob DEF SameCharge
    <2>3. saved' \in {saved, j} /\ UNCHANGED <<released, complete, spent>>
      BY <1>37 DEF AttemptFails, SaveJob, Save
    <2>. QED
      BY <2>1, <2>2, <2>3, SavedStutters
  <1>38. CASE Start
    BY <1>38, Stutters DEF Start, Forget
  <1>39. CASE Cancel
    BY <1>39, Stutters DEF Cancel
  <1>40. CASE Crash
    BY <1>40, Stutters DEF Crash, Forget
  <1>41. CASE Retry
    <2>. DEFINE j == BudgetReset(saved)
    <2>1. saved \in Job /\ saved' = j /\ spent' = 0 /\ UNCHANGED <<released, complete>>
      BY <1>41 DEF Retry
    <2>2. j \in Job /\ j.target = saved.target
      BY <2>1, BudgetResetIsJob
    <2>3. Target' = Target /\ Target # NoJob
      BY <2>1, <2>2, JobFields DEF Target
    <2>4. Ledger!Reset
      BY <2>1, <2>3 DEF Ledger!Reset, Target
    <2>. QED
      BY <2>4 DEF Ledger!Next
  <1>42. CASE CoolDown
    <2>1. UNCHANGED <<released, complete, spent>>
      BY <1>42 DEF CoolDown
    <2>2. saved = NoJob => saved' = NoJob
      BY <1>42 DEF CoolDown
    <2>3. saved # NoJob => saved' \in {saved, Undelayed(saved)}
      BY <1>42 DEF CoolDown
    <2>4. ASSUME saved # NoJob PROVE saved' # NoJob /\ saved'.target = saved.target
      BY <2>3, <2>4, UndelayedIsJob DEF SameCharge
    <2>. QED
      BY <2>1, <2>2, <2>4, Stutters
  <1>43. CASE PublisherActs
    BY <1>43, Stutters DEF PublisherActs
  <1>44. CASE PublicationCompletes
    <2>1. UNCHANGED <<released, saved, spent>> /\ complete \subseteq complete'
      BY <1>44 DEF PublicationCompletes
    <2>2. complete' \subseteq Plans
      BY <1>44 DEF PublicationCompletes
    <2>3. Ledger!Publish
      BY <2>1, <2>2 DEF Ledger!Publish
    <2>. QED
      BY <2>3 DEF Ledger!Next
  <1>45. CASE Push
    BY <1>45, Stutters DEF Push
  <1>46. CASE Disturb
    BY <1>46, Stutters DEF Disturb
  <1>47. CASE UNCHANGED vars
    BY <1>47, Stutters DEF vars
  <1>. QED
    BY <1>1, <1>2, <1>3, <1>4, <1>5, <1>6, <1>7, <1>8, <1>9, <1>10, <1>11,
       <1>12, <1>13, <1>14, <1>15, <1>16, <1>17, <1>18, <1>19, <1>20, <1>21,
       <1>22, <1>23, <1>24, <1>25, <1>26, <1>27, <1>28, <1>29, <1>30, <1>31,
       <1>32, <1>33, <1>34, <1>35, <1>36, <1>37, <1>38, <1>39, <1>40, <1>41,
       <1>42, <1>43, <1>44, <1>45, <1>46, <1>47 DEF Next, Daemon, Environment

\* The engine keeps the promises of the ledger: one job at a time with a target
\* that never changes, a budget that only the operator renews, and a baseline
\* that moves only to a commit including the target whose publication is public,
\* whatever crashes, failed writes and failed verifications intervene.
THEOREM EngineImplementsLedger ==
  ASSUME Upgraded = FALSE
  PROVE  Spec => LedgerSpec
  <1>1. Init => Budget /\ Ledger!Init
    BY BudgetInit, LedgerInit
  <1>. QED
    BY <1>1, TypeInit, TypeStep, LinkedInit, LinkedStep, BudgetStep, VerifiedInit,
       VerifiedStep, LedgerStep, PTL
    DEF Spec, LedgerSpec, Ledger!Spec


-----------------------------------------------------------------------------
(* Nothing is done again blindly.  While the record's publications are      *)
(* being looked for, the receipt comes first: the plan is at hand only once *)
(* the receipt, if it is another publication, has been found missing.       *)

LEMMA CandidateKept ==
  ASSUME NEW j \in Job, NEW p, NEW e, NEW keep
  PROVE  /\ Charged(j).candidate = j.candidate /\ Charged(j).plan = j.plan
         /\ Undelayed(j).candidate = j.candidate /\ Undelayed(j).plan = j.plan
         /\ Preparing(j, keep).candidate = j.candidate
         /\ Preparing(j, keep).plan = j.plan
         /\ NotPublished(j, p, e).candidate = j.candidate
         /\ NotPublished(j, p, e).plan = j.plan
  BY DEF Job, Charged, Undelayed, Preparing, NotPublished

LEMMA RepairKept ==
  ASSUME NEW j \in Job, NEW e
  PROVE  /\ NeedsRepair(j).needsPrep
         /\ Undelayed(j).needsPrep = j.needsPrep
         /\ Failed(j, e).needsPrep = j.needsPrep
  BY DEF Job, NeedsRepair, Undelayed, Failed

Searched(p, found) == p \in ValidPlans => p \in found

Denials ==
  /\ pc = "reconcile" =>
       \/ subject = mem.candidate
       \/ subject = mem.plan /\ Searched(mem.candidate, denied)
  /\ pc \in {"charge", "enter", "prep"} =>
       Searched(mem.candidate, denied) /\ Searched(mem.plan, denied)

\* A rejection that nobody cancelled has already asked for a repair.
Repairs == pc = "failed" /\ err = "rejected" /\ ~ canceled => mem.needsPrep

Searching == {"reconcile", "charge", "enter", "prep"}

LEMMA DenialsInit == Init => Denials /\ Repairs
  BY DEF Init, Denials, Repairs

LEMMA DenialsStep == TypeInv /\ Denials /\ [Next]_vars => Denials'
  <1>. SUFFICES ASSUME TypeInv, Denials, [Next]_vars PROVE Denials'
    OBVIOUS
  <1>0. pc \in Searching => mem \in Job
    BY DEF TypeInv, Shape, JobMatters, Searching
  <1>1. CASE BeginReconcile
    <2>1. /\ mem \in Job /\ mem' = mem /\ denied' = {}
          /\ subject' = FirstCandidate(mem)
          /\ pc' = IF subject' = NoPlan THEN "charge" ELSE "reconcile"
      BY <1>1 DEF BeginReconcile, TypeInv, Shape, JobMatters
    <2>2. NoPlan \notin ValidPlans
      BY ConstantsAssumption
    <2>3. CASE mem.candidate # NoPlan
      <3>1. subject' = mem.candidate /\ pc' = "reconcile"
        BY <2>1, <2>3 DEF FirstCandidate
      <3>. QED
        BY <2>1, <3>1 DEF Denials
    <2>4. CASE mem.candidate = NoPlan /\ PlanIsSpeculative(mem)
      <3>1. subject' = mem.plan /\ pc' = "reconcile"
        BY <2>1, <2>2, <2>4 DEF FirstCandidate, PlanIsSpeculative
      <3>. QED
        BY <2>1, <2>2, <2>4, <3>1 DEF Denials, Searched
    <2>5. CASE mem.candidate = NoPlan /\ ~ PlanIsSpeculative(mem)
      <3>1. pc' = "charge"
        BY <2>1, <2>5 DEF FirstCandidate
      <3>2. mem.plan \notin ValidPlans
        BY <2>2, <2>5 DEF PlanIsSpeculative
      <3>. QED
        BY <2>1, <2>2, <2>5, <3>1, <3>2 DEF Denials, Searched
    <2>. QED
      BY <2>3, <2>4, <2>5
  <1>2. CASE ReconcileFails
    <2>1. /\ mem \in Job /\ pc = "reconcile"
          /\ mem'.candidate = mem.candidate /\ mem'.plan = mem.plan
          /\ denied' = denied \cup {subject}
          /\ subject' = NextCandidate(mem, subject)
          /\ pc' = IF subject' = NoPlan THEN "charge" ELSE "reconcile"
      BY <1>2, <1>0, CandidateKept DEF ReconcileFails, Searching
    <2>2. Searched(mem.candidate, denied')
      BY <2>1 DEF Denials, Searched
    <2>3. NoPlan \notin ValidPlans
      BY ConstantsAssumption
    <2>4. CASE subject = mem.candidate /\ PlanIsSpeculative(mem)
      <3>1. subject' = mem'.plan /\ pc' = "reconcile"
        BY <2>1, <2>3, <2>4 DEF NextCandidate, PlanIsSpeculative
      <3>. QED
        BY <2>1, <2>2, <3>1 DEF Denials
    <2>5. CASE subject = mem.candidate /\ ~ PlanIsSpeculative(mem)
      <3>1. pc' = "charge"
        BY <2>1, <2>5 DEF NextCandidate
      <3>2. Searched(mem.plan, denied')
        BY <2>1, <2>5 DEF PlanIsSpeculative, Searched
      <3>. QED
        BY <2>1, <2>2, <3>1, <3>2 DEF Denials
    <2>6. CASE subject # mem.candidate
      <3>1. subject = mem.plan /\ pc' = "charge"
        BY <2>1, <2>6 DEF Denials, NextCandidate
      <3>2. Searched(mem.plan, denied')
        BY <2>1, <3>1 DEF Searched
      <3>. QED
        BY <2>1, <2>2, <3>1, <3>2 DEF Denials
    <2>. QED
      BY <2>4, <2>5, <2>6
  <1>3. CASE Charge
    <2>1. /\ mem' = Charged(mem) /\ pc = "charge" /\ denied' = denied
          /\ pc' \in {"enter", "idle"}
      BY <1>3 DEF Charge, SaveJob, Save
    <2>2. mem'.candidate = mem.candidate /\ mem'.plan = mem.plan
      BY <1>0, <2>1, CandidateKept DEF Searching
    <2>. QED
      BY <2>1, <2>2 DEF Denials
  <1>4. CASE BeginPreparation
    <2>. DEFINE keep == mem.plan = NoPlan \/ KeepsBuilds(mem)
    <2>1. /\ mem' = Preparing(mem, keep) /\ pc = "enter" /\ denied' = denied
          /\ pc' \in {"prep", "failed"}
      BY <1>4 DEF BeginPreparation, SaveJob, Save, ghosts
    <2>2. mem'.candidate = mem.candidate /\ mem'.plan = mem.plan
      BY <1>0, <2>1, CandidateKept DEF Searching
    <2>. QED
      BY <2>1, <2>2 DEF Denials
  <1>5. CASE CoolDown
    <2>1. mem' \in {mem, Undelayed(mem)} /\ UNCHANGED <<pc, subject, denied>>
      BY <1>5 DEF CoolDown, control, ghosts
    <2>2. pc \in Searching => mem'.candidate = mem.candidate /\ mem'.plan = mem.plan
      BY <1>0, <2>1, CandidateKept
    <2>. QED
      BY <2>1, <2>2 DEF Denials, Searching
  <1>6. CASE \/ Cancel \/ Retry \/ PublisherActs \/ PublicationCompletes \/ Push
             \/ Disturb \/ UNCHANGED vars
    <2>1. UNCHANGED <<pc, mem, subject, denied>>
      BY <1>6 DEF Cancel, Retry, PublisherActs, PublicationCompletes, Push, Disturb,
                  vars, control, ghosts
    <2>. QED
      BY <2>1 DEF Denials
  <1>7. CASE \/ Start \/ Crash \/ Wake \/ Stop \/ CycleFails \/ CycleIdle
             \/ CycleBegins \/ CycleResumes \/ RecoverSetupFailure \/ BackOff
             \/ ReconcileSucceeds \/ ReconcileInterrupted \/ Exhausted
    <2>1. pc' \in {"down", "idle", "cycle", "resume", "finish"}
      BY <1>7 DEF Start, Crash, Wake, Stop, CycleFails, CycleIdle, CycleBegins,
                  CycleResumes, RecoverSetupFailure, BackOff, ReconcileSucceeds,
                  ReconcileInterrupted, Exhausted, SaveJob, Save, AfterExhaustion
    <2>. QED
      BY <2>1 DEF Denials
  <1>8. CASE \/ ResumePrepared \/ EnterInterrupted \/ PreparationSucceeds
             \/ PreparationFails \/ GateOpens \/ SkipCachedBuild \/ LiveCheckPasses
             \/ BuildCheckPasses \/ CheckDisturbsTree \/ GateFails \/ GateExpires
             \/ RejectPlan \/ GatePasses
    <2>1. pc' \in {"gate", "reject", "failed", "publish"}
      BY <1>8 DEF ResumePrepared, EnterInterrupted, PreparationSucceeds,
                  PreparationFails, GateOpens, SkipCachedBuild, LiveCheckPasses,
                  BuildCheckPasses, CheckDisturbsTree, GateFails, GateExpires,
                  RejectPlan, GatePasses, EnterGate, AtCheck, SaveJob, Save
    <2>. QED
      BY <2>1 DEF Denials
  <1>9. CASE \/ ReceiptArrives \/ ReceiptRejected \/ PublisherFails \/ VerifySucceeds
             \/ VerifyFails \/ Finish \/ AttemptInterrupted \/ AttemptNotSetUp
             \/ AttemptFails
    <2>1. pc' \in {"verify", "idle", "failed", "finish", "down"}
      BY <1>9 DEF ReceiptArrives, ReceiptRejected, PublisherFails, VerifySucceeds,
                  VerifyFails, Finish, AttemptInterrupted, AttemptNotSetUp,
                  AttemptFails, SaveJob, Save, AfterExhaustion
    <2>. QED
      BY <2>1 DEF Denials
  <1>. QED
    BY <1>1, <1>2, <1>3, <1>4, <1>5, <1>6, <1>7, <1>8, <1>9
    DEF Next, Daemon, Environment

\* No agent session of an attempt begins before every publication the record
\* names has been looked for and found missing since the job was resumed.
THEOREM NothingIsDoneAgainBlindly == Spec => []ReconciledFirst
  <1>1. Denials => ReconciledFirst
    BY DEF Denials, ReconciledFirst, Searched
  <1>. QED
    BY <1>1, TypeInit, TypeStep, DenialsInit, DenialsStep, PTL DEF Spec

LEMMA RepairsStep == TypeInv /\ Repairs /\ [Next]_vars => Repairs'
  <1>. SUFFICES ASSUME TypeInv, Repairs, [Next]_vars PROVE Repairs'
    OBVIOUS
  <1>0. pc \in {"reject", "publish", "failed"} => mem \in Job
    BY DEF TypeInv, Shape, JobMatters
  <1>1. CASE RejectPlan
    <2>1. CASE canceled
      BY <1>1, <2>1 DEF RejectPlan, Repairs
    <2>2. CASE ~ canceled
      <3>1. mem' = NeedsRepair(mem) /\ mem \in Job
        BY <1>0, <1>1, <2>2 DEF RejectPlan, SaveJob
      <3>. QED
        BY <3>1, RepairKept DEF Repairs
    <2>. QED
      BY <2>1, <2>2
  <1>2. CASE ReceiptRejected
    <2>1. mem' = NeedsRepair(mem) /\ mem \in Job
      BY <1>0, <1>2 DEF ReceiptRejected, SaveJob
    <2>. QED
      BY <2>1, RepairKept DEF Repairs
  <1>3. CASE CoolDown
    <2>1. mem' \in {mem, Undelayed(mem)} /\ UNCHANGED <<pc, err, canceled>>
      BY <1>3 DEF CoolDown, control
    <2>2. pc = "failed" => mem'.needsPrep = mem.needsPrep
      BY <1>0, <2>1, RepairKept
    <2>. QED
      BY <2>1, <2>2 DEF Repairs
  <1>4. CASE \/ Cancel \/ Retry \/ PublisherActs \/ PublicationCompletes \/ Push
             \/ Disturb \/ UNCHANGED vars
    <2>1. UNCHANGED <<pc, mem, err>> /\ (canceled => canceled')
      BY <1>4 DEF Cancel, Retry, PublisherActs, PublicationCompletes, Push, Disturb,
                  vars, control
    <2>. QED
      BY <2>1 DEF Repairs
  <1>5. CASE \/ EnterInterrupted \/ PreparationFails \/ GateExpires \/ PublisherFails
             \/ VerifyFails
    <2>1. err' \in {"attempt", "setup"} \cup VerifyErrors
      BY <1>5 DEF EnterInterrupted, PreparationFails, GateExpires, PublisherFails,
                  VerifyFails
    <2>2. err' # "rejected"
      BY <2>1, ConstantsAssumption
    <2>. QED
      BY <2>2 DEF Repairs
  <1>6. CASE \/ ResumePrepared \/ BeginPreparation \/ PreparationSucceeds \/ GatePasses
    <2>1. pc' = "failed" => err' = "attempt"
      BY <1>6 DEF ResumePrepared, BeginPreparation, PreparationSucceeds, GatePasses,
                  EnterGate
    <2>. QED
      BY <2>1 DEF Repairs
  <1>7. CASE \/ Start \/ Crash \/ Wake \/ Stop \/ CycleFails \/ CycleIdle
             \/ CycleBegins \/ CycleResumes \/ RecoverSetupFailure \/ BackOff
             \/ BeginReconcile \/ ReconcileSucceeds \/ ReconcileFails
             \/ ReconcileInterrupted \/ Exhausted \/ Charge
    <2>1. pc' \in {"down", "idle", "cycle", "resume", "reconcile", "charge", "enter",
                   "finish"}
      BY <1>7 DEF Start, Crash, Wake, Stop, CycleFails, CycleIdle, CycleBegins,
                  CycleResumes, RecoverSetupFailure, BackOff, BeginReconcile,
                  ReconcileSucceeds, ReconcileFails, ReconcileInterrupted, Exhausted,
                  Charge, SaveJob, Save, AfterExhaustion
    <2>. QED
      BY <2>1 DEF Repairs
  <1>8. CASE \/ GateOpens \/ SkipCachedBuild \/ LiveCheckPasses \/ BuildCheckPasses
             \/ CheckDisturbsTree \/ GateFails \/ ReceiptArrives \/ VerifySucceeds
             \/ Finish \/ AttemptInterrupted \/ AttemptNotSetUp \/ AttemptFails
    <2>1. pc' \in {"gate", "reject", "verify", "idle", "finish", "down"}
      BY <1>8 DEF GateOpens, SkipCachedBuild, LiveCheckPasses, BuildCheckPasses,
                  CheckDisturbsTree, GateFails, ReceiptArrives, VerifySucceeds, Finish,
                  AttemptInterrupted, AttemptNotSetUp, AttemptFails, AtCheck, SaveJob,
                  Save, AfterExhaustion
    <2>. QED
      BY <2>1 DEF Repairs
  <1>. QED
    BY <1>1, <1>2, <1>3, <1>4, <1>5, <1>6, <1>7, <1>8 DEF Next, Daemon, Environment

\* Only the outcome of the attempt, or the end of its delay, writes the record
\* of a rejected attempt.
LEMMA RejectionStep ==
  ASSUME TypeInv, Repairs, [Next]_vars
  PROVE  (pc = "failed" /\ err = "rejected" /\ ~ canceled /\ saved' # saved)
           => saved'.needsPrep \/ saved' = Undelayed(saved)
  <1>. SUFFICES ASSUME pc = "failed", err = "rejected", ~ canceled, saved' # saved
                PROVE  saved'.needsPrep \/ saved' = Undelayed(saved)
    OBVIOUS
  <1>1. mem \in Job /\ mem.needsPrep
    BY DEF TypeInv, Shape, JobMatters, Repairs
  <1>2. CASE AttemptFails
    <2>1. saved' = Failed(mem, err)
      BY <1>2 DEF AttemptFails, SaveJob, Save, disk
    <2>. QED
      BY <1>1, <2>1, RepairKept
  <1>3. CASE CoolDown
    BY <1>3 DEF CoolDown
  <1>4. CASE \/ Start \/ Cancel \/ Crash \/ PublisherActs \/ PublicationCompletes
             \/ Push \/ Disturb \/ Retry \/ UNCHANGED vars
    BY <1>4 DEF Start, Cancel, Crash, PublisherActs, PublicationCompletes, Push,
                Disturb, Retry, vars, disk
  <1>5. ~ (AttemptInterrupted \/ AttemptNotSetUp)
    BY DEF AttemptInterrupted, AttemptNotSetUp
  <1>6. ~ \/ Wake \/ Stop \/ CycleFails \/ CycleIdle \/ CycleBegins \/ CycleResumes
          \/ RecoverSetupFailure \/ BackOff \/ BeginReconcile \/ ReconcileSucceeds
          \/ ReconcileFails \/ ReconcileInterrupted \/ Exhausted \/ Charge
    BY DEF Wake, Stop, CycleFails, CycleIdle, CycleBegins, CycleResumes,
           RecoverSetupFailure, BackOff, BeginReconcile, ReconcileSucceeds,
           ReconcileFails, ReconcileInterrupted, Exhausted, Charge
  <1>7. ~ \/ ResumePrepared \/ EnterInterrupted \/ BeginPreparation
          \/ PreparationSucceeds \/ PreparationFails \/ GateOpens \/ SkipCachedBuild
          \/ LiveCheckPasses \/ BuildCheckPasses \/ CheckDisturbsTree \/ GateFails
          \/ GateExpires \/ RejectPlan \/ GatePasses
    BY DEF ResumePrepared, EnterInterrupted, BeginPreparation, PreparationSucceeds,
           PreparationFails, GateOpens, SkipCachedBuild, LiveCheckPasses,
           BuildCheckPasses, CheckDisturbsTree, GateFails, GateExpires, RejectPlan,
           GatePasses, AtCheck
  <1>8. ~ \/ ReceiptArrives \/ ReceiptRejected \/ PublisherFails \/ VerifySucceeds
          \/ VerifyFails \/ Finish
    BY DEF ReceiptArrives, ReceiptRejected, PublisherFails, VerifySucceeds,
           VerifyFails, Finish
  <1>. QED
    BY <1>2, <1>3, <1>4, <1>5, <1>6, <1>7, <1>8 DEF Next, Daemon, Environment

\* When an attempt rejected by the gate or by the publisher's receipt has been
\* recorded as a failure, the next attempt is obliged to prepare again.
THEOREM RejectionIsRepaired == Spec => RejectedNeedsPreparation
  <1>1. TypeInv /\ Repairs /\ [Next]_vars =>
          [ (pc = "failed" /\ err = "rejected" /\ ~ canceled /\ saved' # saved)
              => saved'.needsPrep \/ saved' = Undelayed(saved) ]_vars
    BY RejectionStep
  <1>2. Init => Repairs
    BY DenialsInit
  <1>. QED
    BY <1>1, <1>2, TypeInit, TypeStep, RepairsStep, PTL
    DEF Spec, RejectedNeedsPreparation

=============================================================================
