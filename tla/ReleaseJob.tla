----------------------------- MODULE ReleaseJob -----------------------------
(***************************************************************************)
(* The release engine: one daemon driving one pending release from the     *)
(* moment it becomes due until its publication has been verified.          *)
(* Run / cycle / resume / publishAttempt / validatePublicationChecks /     *)
(* verify / finish / interrupted (release.go, preflight.go) over the       *)
(* durable record of state.go.                                             *)
(*                                                                         *)
(* The daemon is a sequential process (pc).  What makes it hard is that    *)
(* everything it knows is lost whenever it stops, except the last record   *)
(* it managed to write, while agent sessions, hosted workflows, operators  *)
(* and other pushers keep changing the world around it.                    *)
(*                                                                         *)
(* Abstractions.  A commit is its position on the release branch, so       *)
(* "contains" is >=; one beyond `remote' is local work not pushed yet, and *)
(* histories never diverge.  A plan stands for its commit, tag and     *)
(* destinations; a receipt the daemon accepts always names its plan, so a  *)
(* candidate is a plan.  Error texts are kept only as far as the code      *)
(* compares them.  RetryAt is kept as `cooling', "now is before RetryAt".  *)
(* SetupFailure, Interruption, ValidatedAt and WorkBranch are only shown   *)
(* to the operator or the agent and are left out.                          *)
(***************************************************************************)
EXTENDS Integers, Sequences, FiniteSets

CONSTANTS
  Plans,        \* the publication plans a preparation agent may return
  ValidPlans,   \* those that validatePlan accepts
  OldReleases,  \* plans whose publication was complete before the first job
  CommitOf,     \* the commit a plan identifies
  Checks,       \* the kinds of a plan's publishability checks, in order
  VerifyErrors, \* the distinct messages of a failed verification
  Attempts,     \* config.Attempts
  Upgraded,     \* TRUE: the record may come from a version without SetupFailure
  NoPlan,       \* the absence of a plan
  NoJob,        \* the absence of a pending job
  MaxCommit,    \* bound: last position of the release branch
  MaxFaults,    \* bound: crashes, cancellations and transient errors
  MaxBadWrites  \* bound: writes of the record that report an error

Commits  == Nat
Dirty    == -1                        \* a checkout with uncommitted changes
Trees    == {Dirty} \cup Commits
\* Where an agent or a user may leave the checkout.
Leavings == {Dirty, 0} \cup {CommitOf[p] : p \in Plans}
Phases   == {"pending", "preflight", "validating", "publish"}
Kinds    == {"build", "live"}         \* only build results may be cached
Steps    == 0 .. Len(Checks) + 1      \* progress through the gate
BuildKeys == Plans \X (1 .. Len(Checks))
Failures == {"none", "legacy", "attempt", "rejected"} \cup VerifyErrors
Errors   == Failures \cup {"setup"}

\* The persisted Job (state.go), as far as the engine reads it back.
Job == [ target    : Commits,                \* the release must contain it
         tries     : Int,                    \* attempts charged so far
         cooling   : BOOLEAN,                \* now is before RetryAt
         failure   : Failures,
         candidate : Plans \cup {NoPlan},    \* receipt awaiting verification
         phase     : Phases,
         plan      : Plans \cup {NoPlan},
         builds    : SUBSET BuildKeys,       \* BuildChecks
         needsPrep : BOOLEAN ]               \* NeedsPreparation

ASSUME ConstantsAssumption ==
  /\ ValidPlans \subseteq Plans
  /\ OldReleases \subseteq Plans
  /\ CommitOf \in [Plans -> Commits]
  /\ Checks \in Seq(Kinds)
  /\ Attempts \in Nat \ {0}
  /\ Upgraded \in BOOLEAN
  /\ NoPlan \notin Plans
  /\ NoJob \notin Job /\ NoJob \notin Commits
  /\ VerifyErrors # {}
  /\ "setup" \notin VerifyErrors
  /\ VerifyErrors \cap {"none", "legacy", "attempt", "rejected"} = {}
  /\ MaxCommit \in Nat
  /\ MaxFaults \in Nat
  /\ MaxBadWrites \in Nat

VARIABLES
  released,  \* durable: the baseline, State.Released
  saved,     \* durable: State.Job, or NoJob
  pc,        \* where the daemon is; "down" when no process runs
  mem,       \* the daemon's copy of the job, or NoJob
  starting,  \* this is the first cycle of the process
  canceled,  \* the run context has been cancelled
  subject,   \* the publication being verified
  step,      \* progress through the checks of the gate
  err,       \* the error the running attempt returned
  tree,      \* checkout: its HEAD commit when clean, else Dirty
  remote,    \* tip of the remote release branch
  started,   \* plans whose tag and workflows some publisher has pushed
  complete,  \* plans whose publication is wholly public
  faults,    \* bound: crashes, cancellations and transient errors so far
  badWrites, \* bound: writes of the record that have reported an error
  spent,     \* ghost: attempts begun and not refunded since the last reset
  built,     \* ghost: build checks that truly passed on their plan's commit
  passed,    \* ghost: live checks that passed in the current gate
  denied     \* ghost: plans found unpublished since the job was resumed

disk    == <<released, saved>>
control == <<pc, starting, canceled, subject, step, err>>
world   == <<tree, remote, started, complete>>
ghosts  == <<spent, built, passed, denied>>
bounds  == <<faults, badWrites>>
vars    == <<disk, mem, control, world, bounds, ghosts>>

-----------------------------------------------------------------------------
(* Operators on a job: one per group of assignments in the code.            *)

NewJob(t) ==
  [ target |-> t, tries |-> 0, cooling |-> FALSE, failure |-> "none",
    candidate |-> NoPlan, phase |-> "pending", plan |-> NoPlan,
    builds |-> {}, needsPrep |-> FALSE ]

\* Left by a version that charged an attempt for an unknown model or effort.
LegacyJob(t) ==
  [ NewJob(t) EXCEPT !.tries = 1, !.failure = "legacy", !.phase = "preflight",
                     !.needsPrep = TRUE ]

\* j.Tries++ and the next RetryAt, in the order resume sets them.
Charged(j) == [ j EXCEPT !.tries = @ + 1, !.cooling = TRUE ]

\* RetryAt is cleared and nothing else.
Undelayed(j) == [ j EXCEPT !.cooling = FALSE ]

\* An attempt that was interrupted, or never reached an agent, is given back.
Refunded(j) == [ j EXCEPT !.tries = @ - 1, !.cooling = FALSE ]

\* The old setup failure is moved aside and its attempt given back.
Recovered(j) ==
  [ j EXCEPT !.tries = IF @ > 0 THEN @ - 1 ELSE 0, !.failure = "none",
             !.cooling = FALSE ]

Failed(j, e) == [ j EXCEPT !.failure = e, !.cooling = TRUE ]

\* Run returns errAttemptsExhausted instead of polling on.
\* (PollsOn is a faulty form of it, for the mutation check.)
PollsOn         == "idle"
AfterExhaustion == "down"

\* A publication found missing or unhealthy while reconciling.  The same
\* error twice for the receipt of the current plan asks for a repair; a
\* speculative plan never hides the publisher's own failure.
NotPublished(j, p, e) ==
  [ j EXCEPT
      !.needsPrep = @ \/ /\ p = j.candidate
                         /\ j.candidate = j.plan
                         /\ j.failure = e,
      !.failure   = IF p = j.candidate \/ @ = "none" THEN e ELSE @ ]

\* The plan may not be used again without preparation (RetriedAsIs: faulty).
RetriedAsIs(j) == j
NeedsRepair(j) == [ j EXCEPT !.needsPrep = TRUE ]

\* The two ways into the gate (Unprepared: faulty, a misspelt phase).
Unprepared(j, keep) ==
  [ j EXCEPT !.phase = "prep", !.needsPrep = TRUE,
             !.builds = IF keep THEN @ ELSE {} ]
Preparing(j, keep) ==
  [ j EXCEPT !.phase = "preflight", !.needsPrep = TRUE,
             !.builds = IF keep THEN @ ELSE {} ]
Prepared(j, p) == [ j EXCEPT !.plan = p, !.needsPrep = FALSE ]

\* The gate's progress, and the receipt it leads to.
Validating(j)     == [ j EXCEPT !.phase = "validating" ]
BuildsDropped(j)  == [ j EXCEPT !.builds = {} ]
BuildSaved(j, k)  == [ j EXCEPT !.builds = @ \cup {k} ]
Publishing(j)     == [ j EXCEPT !.phase = "publish" ]
Delivered(j)      == [ j EXCEPT !.candidate = j.plan ]

\* The operator's retry.
BudgetReset(j) == [ j EXCEPT !.tries = 0, !.cooling = FALSE ]

Usable(j) ==
  /\ j.phase \in {"validating", "publish"}
  /\ ~ j.needsPrep
  /\ j.plan \in ValidPlans

\* A cached build success is bound to the whole plan and the check's position.
\* (The job's target, also part of the key, never changes within a job.
\* BuildKeyByPosition is a faulty form.)
BuildKeyByPosition(p, i) == <<CHOOSE q \in Plans : TRUE, i>>
BuildKey(p, i)           == <<p, i>>

\* The saved publications resume verifies, receipt first, the plan only when
\* it differs from the receipt's (NeverSpeculative: faulty).
NeverSpeculative(j)  == FALSE
PlanIsSpeculative(j) == j.plan \in ValidPlans /\ j.plan # j.candidate

-----------------------------------------------------------------------------
(* The durable record and the outside world.                                *)

\* writeState replaces the whole record by one rename.  An error is reported
\* before the rename (the old record stays) or after it, when the directory
\* cannot be synced (the new record is there all the same).
Save(r, j, next, onError) ==
  \/ released' = r /\ saved' = j /\ pc' = next /\ UNCHANGED badWrites
  \/ /\ badWrites < MaxBadWrites /\ badWrites' = badWrites + 1
     /\ UNCHANGED disk \/ (released' = r /\ saved' = j)
     /\ pc' = onError

SaveJob(j, next, onError) == mem' = j /\ Save(released, j, next, onError)

Fault == faults < MaxFaults /\ faults' = faults + 1

TreeOk(p) == tree = CommitOf[p]       \* checkPreparedTree

\* Everything engine.verify checks: the remote tag, hosted workflows, release
\* and destinations are public, the commit contains the target and is on the
\* release branch, and the receipt's plan is valid (VerifiesForAnyTarget: faulty).
VerifiesForAnyTarget(p, t) ==
  p \in complete /\ p \in ValidPlans /\ CommitOf[p] <= remote
Verifies(p, t) ==
  p \in complete /\ p \in ValidPlans /\ CommitOf[p] <= remote /\ t <= CommitOf[p]

\* A verification that fails although everything is public is a transient
\* error of the network or of a verification command.
VerificationFails(p, t) ==
  \/ ~ Verifies(p, t) /\ UNCHANGED faults
  \/ Verifies(p, t) /\ Fault

Init ==
  /\ released = 0
  /\ saved \in {NoJob} \cup (IF Upgraded THEN {LegacyJob(1)} ELSE {})
  /\ pc = "down" /\ mem = NoJob
  /\ starting = FALSE /\ canceled = FALSE
  /\ subject = NoPlan /\ step = 0 /\ err = "none"
  /\ tree = 0 /\ remote \in {0, 1} /\ (saved # NoJob => remote = 1)
  /\ started = OldReleases /\ complete = OldReleases
  /\ faults = 0 /\ badWrites = 0
  /\ spent = 0 /\ built = {} /\ passed = {} /\ denied = {}

-----------------------------------------------------------------------------
(* The process: start, poll timer, cancellation, crash.                     *)

\* A new cycle knows only what it reads back from the record.
Forget ==
  /\ mem' = NoJob /\ subject' = NoPlan /\ step' = 0 /\ err' = "none"
  /\ passed' = {} /\ denied' = {}

\* Run: lockConfig admits one daemon; its first cycle is a `starting' one.
Start ==
  /\ pc = "down"
  /\ pc' = "cycle" /\ starting' = TRUE /\ canceled' = FALSE /\ Forget
  /\ UNCHANGED <<disk, world, bounds, spent, built>>

\* The poll timer fires (a `once' run returns instead: that is Stop).
Wake ==
  /\ pc = "idle" /\ ~ canceled
  /\ pc' = "cycle" /\ starting' = FALSE /\ Forget
  /\ UNCHANGED <<disk, canceled, world, bounds, spent, built>>

\* Run returns once its context is done.
Stop ==
  /\ pc = "idle" /\ canceled
  /\ pc' = "down" /\ starting' = FALSE /\ canceled' = FALSE /\ Forget
  /\ UNCHANGED <<disk, world, bounds, spent, built>>

\* A signal or a closed dashboard cancels the context at any moment.
Cancel ==
  /\ pc # "down" /\ ~ canceled /\ Fault
  /\ canceled' = TRUE
  /\ UNCHANGED <<disk, mem, pc, starting, subject, step, err, world, badWrites,
                 ghosts>>

\* The process dies: only the record and the world remain.
Crash ==
  /\ pc # "down" /\ Fault
  /\ pc' = "down" /\ starting' = FALSE /\ canceled' = FALSE /\ Forget
  /\ UNCHANGED <<disk, world, badWrites, spent, built>>

-----------------------------------------------------------------------------
(* cycle and resume, up to the start of an attempt.                         *)

\* Reading the record or opening the checkout fails.
CycleFails ==
  /\ pc = "cycle"
  /\ \/ canceled /\ UNCHANGED faults
     \/ ~ canceled /\ Fault
  /\ pc' = "idle"
  /\ UNCHANGED <<disk, mem, starting, canceled, subject, step, err, world,
                 badWrites, ghosts>>

\* No job, and none is due (or advance refuses unfinished edits).
CycleIdle ==
  /\ pc = "cycle" /\ ~ canceled /\ saved = NoJob
  /\ pc' = "idle"
  /\ UNCHANGED <<disk, mem, starting, canceled, subject, step, err, world,
                 bounds, ghosts>>

\* What is to be released: the remote head, or the local work ahead of it.
ReleaseHead == IF tree <= remote THEN remote ELSE tree

\* A release is due: the checkout moves to the release head, but the job's
\* target is the remote head, which local work alone leaves at the baseline.
CycleBegins ==
  /\ pc = "cycle" /\ ~ canceled /\ saved = NoJob
  /\ tree # Dirty /\ ReleaseHead > released
  /\ tree' = ReleaseHead
  /\ SaveJob(NewJob(remote), "resume", "idle")
  /\ UNCHANGED <<starting, canceled, subject, step, err, remote, started, complete,
                 faults, ghosts>>

\* A pending job is taken up from the record, whatever a previous cycle of
\* this process held in memory.
CycleResumes ==
  /\ pc = "cycle" /\ ~ canceled /\ saved # NoJob
  /\ mem' = saved /\ pc' = "resume"
  /\ UNCHANGED <<disk, starting, canceled, subject, step, err, world, bounds,
                 ghosts>>

RecoveryDue == starting /\ mem.failure = "legacy"

RecoverSetupFailure ==
  /\ pc = "resume" /\ RecoveryDue
  /\ SaveJob(Recovered(mem), "resume", "idle")
  /\ UNCHANGED <<starting, canceled, subject, step, err, world, faults, ghosts>>

BackOff ==
  /\ pc = "resume" /\ ~ RecoveryDue
  /\ mem.cooling /\ ~ starting
  /\ pc' = "idle"
  /\ UNCHANGED <<disk, mem, starting, canceled, subject, step, err, world,
                 bounds, ghosts>>

\* The candidates still to verify after p, NoPlan when there are none
\* (ReceiptOnly: faulty).
FirstCandidate(j) ==
  IF j.candidate # NoPlan THEN j.candidate
  ELSE IF PlanIsSpeculative(j) THEN j.plan ELSE NoPlan
ReceiptOnly(j, p) == NoPlan
NextCandidate(j, p) ==
  IF p = j.candidate /\ PlanIsSpeculative(j) THEN j.plan ELSE NoPlan

BeginReconcile ==
  /\ pc = "resume" /\ ~ RecoveryDue /\ (mem.cooling => starting)
  /\ subject' = FirstCandidate(mem)
  /\ pc' = IF subject' = NoPlan THEN "charge" ELSE "reconcile"
  /\ denied' = {}
  /\ UNCHANGED <<disk, mem, starting, canceled, step, err, world, bounds, spent,
                 built, passed>>

ReconcileSucceeds ==
  /\ pc = "reconcile" /\ ~ canceled
  /\ Verifies(subject, mem.target)
  /\ pc' = "finish"
  /\ UNCHANGED <<disk, mem, starting, canceled, subject, step, err, world,
                 bounds, ghosts>>

ReconcileFails ==
  /\ pc = "reconcile" /\ ~ canceled
  /\ VerificationFails(subject, mem.target)
  /\ \E e \in VerifyErrors : mem' = NotPublished(mem, subject, e)
  /\ denied' = denied \cup {subject}
  /\ subject' = NextCandidate(mem, subject)
  /\ pc' = IF subject' = NoPlan THEN "charge" ELSE "reconcile"
  /\ UNCHANGED <<disk, starting, canceled, step, err, world, badWrites, spent,
                 built, passed>>

\* interrupted without a refund: no attempt has been charged yet.
ReconcileInterrupted ==
  /\ pc = "reconcile" /\ canceled
  /\ SaveJob(Undelayed(mem), "idle", "idle")
  /\ UNCHANGED <<starting, canceled, subject, step, err, world, faults, ghosts>>

\* The budget is used up: save, and leave the process to the operator.
Exhausted ==
  /\ pc = "charge" /\ mem.tries >= Attempts
  /\ SaveJob(Undelayed(mem), AfterExhaustion, "idle")
  /\ UNCHANGED <<starting, canceled, subject, step, err, world, faults, ghosts>>

\* The charge is durable before any agent runs.
Charge ==
  /\ pc = "charge" /\ mem.tries < Attempts
  /\ SaveJob(Charged(mem), "enter", "idle")
  /\ spent' = IF pc' = "enter" THEN spent + 1 ELSE spent
  /\ UNCHANGED <<starting, canceled, subject, step, err, world, faults, built,
                 passed, denied>>

-----------------------------------------------------------------------------
(* publishAttempt: preparation, the gate, publication.                      *)

\* The gate is entered with the phase saved and no live check passed yet.
EnterGate(j) ==
  /\ SaveJob(Validating(j), "gate", "failed")
  /\ err' = IF pc' = "failed" THEN "attempt" ELSE "none"
  /\ step' = 0 /\ passed' = {}

\* A usable checkpoint with an intact checkout goes straight to the gate.
ResumePrepared ==
  /\ pc = "enter" /\ Usable(mem) /\ ~ canceled /\ TreeOk(mem.plan)
  /\ EnterGate(mem)
  /\ UNCHANGED <<starting, canceled, subject, world, faults, spent, built, denied>>

\* The first tree check notices the cancellation.
EnterInterrupted ==
  /\ pc = "enter" /\ Usable(mem) /\ canceled
  /\ pc' = "failed" /\ err' = "attempt"
  /\ UNCHANGED <<disk, mem, starting, canceled, subject, step, world, bounds,
                 ghosts>>

\* Otherwise preparation is recorded and its session begins.  The second tree
\* check drops the cached builds, also when it failed for the cancellation.
KeepsBuilds(j) == j.plan # NoPlan => ~ canceled /\ TreeOk(j.plan)

BeginPreparation ==
  /\ pc = "enter"
  /\ Usable(mem) => ~ canceled /\ ~ TreeOk(mem.plan)
  /\ SaveJob(Preparing(mem, mem.plan = NoPlan \/ KeepsBuilds(mem)), "prep", "failed")
  /\ err' = IF pc' = "failed" THEN "attempt" ELSE "none"
  /\ UNCHANGED <<starting, canceled, subject, step, world, faults, ghosts>>

\* External: a preparation agent commits, merges and answers `ready'.
PreparationSucceeds ==
  /\ pc = "prep" /\ ~ canceled
  /\ \E p \in ValidPlans : EnterGate(Prepared(mem, p))
  /\ tree' \in Leavings
  /\ UNCHANGED <<starting, canceled, subject, remote, started, complete, faults,
                 spent, built, denied>>

\* It fails, is blocked, is not ready, returns an invalid plan, or the agent
\* cannot be set up at all.
PreparationFails ==
  /\ pc = "prep"
  /\ pc' = "failed" /\ err' \in {"attempt", "setup"}
  /\ tree' \in Leavings
  /\ UNCHANGED <<disk, mem, starting, canceled, subject, step, remote, started,
                 complete, bounds, ghosts>>

\* Ancestry, a fresh fetch, the merged commit and the clean checkout.
OnBranch(p, t) == t <= CommitOf[p] /\ CommitOf[p] <= remote

GateOpens ==
  /\ pc = "gate" /\ step = 0 /\ ~ canceled
  /\ OnBranch(mem.plan, mem.target) /\ TreeOk(mem.plan)
  /\ step' = 1
  /\ UNCHANGED <<disk, mem, pc, starting, canceled, subject, err, world, bounds,
                 ghosts>>

AtCheck == pc = "gate" /\ step \in 1 .. Len(Checks)
Cached(j) == Checks[step] = "build" /\ BuildKey(j.plan, step) \in j.builds

SkipCachedBuild ==
  /\ AtCheck /\ Cached(mem)
  /\ step' = step + 1
  /\ UNCHANGED <<disk, mem, pc, starting, canceled, subject, err, world, bounds,
                 ghosts>>

LiveCheckPasses ==
  /\ AtCheck /\ Checks[step] = "live" /\ ~ canceled
  /\ TreeOk(mem.plan)
  /\ step' = step + 1 /\ passed' = passed \cup {step}
  /\ UNCHANGED <<disk, mem, pc, starting, canceled, subject, err, world, bounds,
                 spent, built, denied>>

\* A build success is saved on its own, at once.
BuildCheckPasses ==
  /\ AtCheck /\ Checks[step] = "build" /\ ~ Cached(mem) /\ ~ canceled
  /\ TreeOk(mem.plan)
  /\ SaveJob(BuildSaved(mem, BuildKey(mem.plan, step)), "gate", "reject")
  /\ step' = IF pc' = "gate" THEN step + 1 ELSE step
  /\ built' = built \cup {<<mem.plan, step>>}
  /\ UNCHANGED <<starting, canceled, subject, err, world, faults, spent, passed,
                 denied>>

\* The command succeeded but the tree check after it did not: the command
\* changed the checkout, or the check itself was cancelled.  Either way every
\* cached build is dropped.
CheckDisturbsTree ==
  /\ AtCheck /\ ~ Cached(mem)
  /\ \/ tree' = Dirty
     \/ canceled /\ UNCHANGED tree
  /\ mem' = BuildsDropped(mem)
  /\ pc' = "reject"
  /\ UNCHANGED <<disk, starting, canceled, subject, step, err, remote, started,
                 complete, bounds, ghosts>>

\* A prerequisite, a check, the operator's preflight command or the last tree
\* check fails; a failing command may leave edits behind.
GateFails ==
  /\ pc = "gate"
  /\ AtCheck => ~ Cached(mem)
  /\ tree' \in {tree} \cup (IF step = 0 THEN {} ELSE {Dirty})
  /\ pc' = "reject"
  /\ UNCHANGED <<disk, mem, starting, canceled, subject, step, err, remote, started,
                 complete, bounds, ghosts>>

\* The attempt runs out of time in the gate: no repair is asked for, but a tree
\* check cut short still drops the cached builds.
GateExpires ==
  /\ pc = "gate"
  /\ AtCheck => ~ Cached(mem)
  /\ tree' \in {tree} \cup (IF step = 0 THEN {} ELSE {Dirty})
  /\ mem' \in {mem} \cup (IF AtCheck THEN {BuildsDropped(mem)} ELSE {})
  /\ pc' = "failed" /\ err' = "attempt"
  /\ UNCHANGED <<disk, starting, canceled, subject, step, remote, started, complete,
                 bounds, ghosts>>

\* A gate that fails asks for a repair, unless it was cancelled.
RejectPlan ==
  /\ pc = "reject"
  /\ \/ ~ canceled /\ SaveJob(NeedsRepair(mem), "failed", "failed")
     \/ canceled /\ pc' = "failed" /\ UNCHANGED <<disk, mem, badWrites>>
  /\ err' = "rejected"
  /\ UNCHANGED <<starting, canceled, subject, step, world, faults, ghosts>>

\* The operator's preflight and the last tree check pass: the permission to
\* publish is durable before the publisher starts.
GatePasses ==
  /\ pc = "gate" /\ step = Len(Checks) + 1 /\ ~ canceled
  /\ TreeOk(mem.plan)
  /\ SaveJob(Publishing(mem), "publish", "failed")
  /\ err' = IF pc' = "failed" THEN "attempt" ELSE "none"
  /\ UNCHANGED <<starting, canceled, subject, step, world, faults, ghosts>>

\* External: the publisher session pushes the plan's tag and workflows.
PublisherActs ==
  /\ pc = "publish" /\ mem.plan \notin started
  /\ started' = started \cup {mem.plan}
  /\ UNCHANGED <<disk, mem, control, tree, remote, complete, bounds, ghosts>>

\* A receipt for exactly the validated commit and tag; true or not, it is
\* saved before it is verified.
ReceiptArrives ==
  /\ pc = "publish" /\ ~ canceled
  /\ SaveJob(Delivered(mem), "verify", "idle")
  /\ subject' = mem.plan
  /\ tree' \in {tree, Dirty}
  /\ UNCHANGED <<starting, canceled, step, err, remote, started, complete, faults,
                 ghosts>>

\* Blocked, not released, or a receipt for another commit or tag.
ReceiptRejected ==
  /\ pc = "publish"
  /\ SaveJob(NeedsRepair(mem), "failed", "failed")
  /\ err' = "rejected"
  /\ tree' \in {tree, Dirty}
  /\ UNCHANGED <<starting, canceled, subject, step, remote, started, complete,
                 faults, ghosts>>

\* The session ends without a receipt, or never started.
PublisherFails ==
  /\ pc = "publish"
  /\ pc' = "failed" /\ err' \in {"attempt", "setup"}
  /\ tree' \in {tree, Dirty}
  /\ UNCHANGED <<disk, mem, starting, canceled, subject, step, remote, started,
                 complete, bounds, ghosts>>

-----------------------------------------------------------------------------
(* The end of resume: verification of the receipt, and the four outcomes.   *)

VerifySucceeds ==
  /\ pc = "verify" /\ ~ canceled
  /\ Verifies(subject, mem.target)
  /\ pc' = "finish"
  /\ UNCHANGED <<disk, mem, starting, canceled, subject, step, err, world, bounds,
                 ghosts>>

VerifyFails ==
  /\ pc = "verify"
  /\ canceled \/ VerificationFails(subject, mem.target)
  /\ canceled => UNCHANGED faults
  /\ err' \in VerifyErrors /\ pc' = "failed"
  /\ UNCHANGED <<disk, mem, starting, canceled, subject, step, world, badWrites,
                 ghosts>>

\* finish: the new baseline and the end of the job are one write.
Finish ==
  /\ pc = "finish"
  /\ mem' = NoJob
  /\ Save(CommitOf[subject], NoJob, "idle", "idle")
  /\ IF saved' = NoJob THEN spent' = 0 /\ built' = {} /\ passed' = {} /\ denied' = {}
     ELSE UNCHANGED ghosts
  /\ UNCHANGED <<starting, canceled, subject, step, err, world, faults>>

AttemptInterrupted ==
  /\ pc = "failed" /\ canceled
  /\ SaveJob(Refunded(mem), "idle", "idle")
  /\ spent' = spent - 1 /\ err' = "none"
  /\ UNCHANGED <<starting, canceled, subject, step, world, faults, built, passed,
                 denied>>

\* An agent that cannot be set up stops the daemon without costing an attempt.
AttemptNotSetUp ==
  /\ pc = "failed" /\ ~ canceled /\ err = "setup"
  /\ SaveJob(Refunded(mem), "down", "idle")
  /\ spent' = spent - 1 /\ err' = "none"
  /\ UNCHANGED <<starting, canceled, subject, step, world, faults, built, passed,
                 denied>>

AttemptFails ==
  /\ pc = "failed" /\ ~ canceled /\ err # "setup"
  /\ SaveJob(Failed(mem, err),
             IF mem.tries >= Attempts THEN AfterExhaustion ELSE "idle", "idle")
  /\ err' = "none"
  /\ UNCHANGED <<starting, canceled, subject, step, world, faults, ghosts>>

-----------------------------------------------------------------------------
(* The operator, time and the rest of the world.                            *)

\* `brb retry' holds both locks, so no daemon runs.
Retry ==
  /\ pc = "down" /\ saved # NoJob
  /\ saved' = BudgetReset(saved)
  /\ spent' = 0
  /\ UNCHANGED <<released, mem, control, world, bounds, built, passed, denied>>

\* RetryAt passes.  The copy in memory is never due before the saved one.
CoolDown ==
  /\ \/ /\ saved # NoJob /\ saved.cooling
        /\ saved' = Undelayed(saved)
        /\ UNCHANGED mem
     \/ /\ mem # NoJob /\ mem.cooling
        /\ mem' = Undelayed(mem)
        /\ saved' = IF saved = NoJob THEN NoJob ELSE Undelayed(saved)
  /\ UNCHANGED <<released, control, world, bounds, ghosts>>

\* Hosted workflows and registries finish what some publisher started.
PublicationCompletes ==
  /\ \E p \in started \ complete : complete' = complete \cup {p}
  /\ UNCHANGED <<disk, mem, control, tree, remote, started, bounds, ghosts>>

\* Someone pushes or merges to the release branch.
Push ==
  /\ remote < MaxCommit /\ remote' = remote + 1
  /\ UNCHANGED <<disk, mem, control, tree, started, complete, bounds, ghosts>>

\* Someone uses the checkout while no daemon runs.
Disturb ==
  /\ pc = "down"
  /\ tree' \in Leavings /\ tree' # tree
  /\ UNCHANGED <<disk, mem, control, remote, started, complete, bounds, ghosts>>

Daemon ==
  \/ Wake \/ Stop \/ CycleFails \/ CycleIdle \/ CycleBegins \/ CycleResumes
  \/ RecoverSetupFailure \/ BackOff \/ BeginReconcile \/ ReconcileSucceeds
  \/ ReconcileFails \/ ReconcileInterrupted \/ Exhausted \/ Charge
  \/ ResumePrepared \/ EnterInterrupted \/ BeginPreparation
  \/ PreparationSucceeds \/ PreparationFails
  \/ GateOpens \/ SkipCachedBuild \/ LiveCheckPasses \/ BuildCheckPasses
  \/ CheckDisturbsTree \/ GateFails \/ GateExpires \/ RejectPlan \/ GatePasses
  \/ ReceiptArrives \/ ReceiptRejected \/ PublisherFails
  \/ VerifySucceeds \/ VerifyFails \/ Finish
  \/ AttemptInterrupted \/ AttemptNotSetUp \/ AttemptFails

Environment ==
  \/ Start \/ Cancel \/ Crash \/ Retry \/ CoolDown \/ PublisherActs
  \/ PublicationCompletes \/ Push \/ Disturb

Next == Daemon \/ Environment

Spec == Init /\ [][Next]_vars

\* The daemon keeps taking its steps and time passes.  Nothing obliges an
\* agent to succeed or a workflow to finish.
FairDaemon == WF_vars(Daemon) /\ WF_vars(CoolDown)
FairSpec   == Spec /\ FairDaemon
\* Besides, a supervisor restarts a daemon that stopped.
SupervisedSpec == FairSpec /\ WF_vars(Start)

-----------------------------------------------------------------------------
(* Properties.                                                              *)

\* Every variable stays in its type.
TypeOK ==
  /\ released \in Commits
  /\ saved \in Job \cup {NoJob}
  /\ mem \in Job \cup {NoJob}
  /\ pc \in {"down", "idle", "cycle", "resume", "reconcile", "charge", "enter",
             "prep", "gate", "reject", "publish", "verify", "finish", "failed"}
  /\ starting \in BOOLEAN /\ canceled \in BOOLEAN
  /\ subject \in Plans \cup {NoPlan}
  /\ step \in Steps /\ err \in Errors
  /\ tree \in Trees /\ remote \in Commits
  /\ started \subseteq Plans /\ complete \subseteq started
  /\ faults \in Nat /\ badWrites \in Nat
  /\ spent \in Nat /\ built \subseteq BuildKeys
  /\ passed \subseteq 1 .. Len(Checks) /\ denied \subseteq Plans

\* A publisher session runs only for a job and plan that are durably marked
\* "publish" and charged, from the clean checkout of the plan's commit, which
\* contains the target and is on the release branch; every live check passed in
\* this very gate and every build check has passed for this very plan.
GateBeforePublishing ==
  pc = "publish" =>
    /\ saved # NoJob /\ saved.phase = "publish" /\ saved.plan = mem.plan
    /\ saved.target = mem.target /\ saved.tries >= 1
    /\ mem.plan \in ValidPlans
    /\ OnBranch(mem.plan, saved.target) /\ TreeOk(mem.plan)
    /\ \A i \in 1 .. Len(Checks) :
         IF Checks[i] = "live" THEN i \in passed ELSE <<mem.plan, i>> \in built

\* The durable count of attempts never falls behind the attempts begun and not
\* given back, whatever crashes and failed writes intervene, so no sequence of
\* restarts buys extra agent sessions; and it exceeds them only by writes that
\* reported an error: interruptions and setup errors cost nothing.
AttemptsAccounted ==
  saved # NoJob =>
    /\ spent <= saved.tries
    /\ saved.tries <= spent + badWrites
    /\ saved.tries <= Attempts

\* No agent session of an attempt begins before every publication the record
\* names, receipt and plan, has been looked for and found missing since the job
\* was resumed: a release that did go out is never done again blindly.
ReconciledFirst ==
  pc \in {"enter", "prep"} =>
    {mem.candidate, mem.plan} \cap ValidPlans \subseteq denied

\* When an attempt rejected by the gate or by the publisher's receipt has been
\* recorded as a failure, the next attempt is obliged to prepare again.
RejectedNeedsPreparation ==
  [][ (pc = "failed" /\ err = "rejected" /\ ~ canceled /\ saved' # saved)
        => saved'.needsPrep \/ saved' = Undelayed(saved) ]_vars

\* The engine implements the ledger: see ReleaseLedger.
Ledger == INSTANCE ReleaseLedger WITH
  None     <- NoJob,
  baseline <- released,
  target   <- IF saved = NoJob THEN NoJob ELSE saved.target,
  charges  <- spent,
  public   <- complete

LedgerSpec == Ledger!Spec

\* A daemon with a pending job does not spin for ever: the job is released, or
\* the process stops and leaves the job to the operator.
Settles == (saved # NoJob /\ pc # "down") ~> (saved = NoJob \/ pc = "down")

\* A publication that became public, with or without its receipt, even after
\* the budget was used up, is recorded and closes the job, unless preparation
\* has put another plan in its place.
PublishedIsRecorded ==
  \A p \in ValidPlans :
    (saved # NoJob /\ saved.plan = p /\ Verifies(p, saved.target))
      ~> (saved = NoJob \/ saved.plan # p)

\* What the README promises of the cached build checks ("an interruption during
\* a later check preserves completed work"): the record left behind by an attempt
\* that was interrupted in the gate keeps the build successes it had, if the
\* checkout is untouched.
InterruptionKeepsBuilds ==
  [][ (/\ pc = "failed" /\ canceled /\ err = "rejected" /\ saved' # saved
       /\ mem.plan # NoPlan /\ TreeOk(mem.plan))
        => saved.builds \subseteq saved'.builds ]_vars

\* What release.go:211-212 and the README promise of records left by older
\* versions: the refund gives back the setup attempt only, so the attempts begun
\* since the operator's last reset stay charged.
RefundKeepsRealAttempts ==
  [][ (/\ pc = "resume" /\ saved # NoJob /\ saved' # NoJob
       /\ saved'.tries < saved.tries)
        => spent <= saved'.tries ]_vars

=============================================================================
