------------------------------- MODULE Cadence -------------------------------
(***************************************************************************)
(* When a release becomes due: bootstrap, cycle, due and triage            *)
(* (release.go, triage.go) over releaseHead, changes and advance (git.go). *)
(*                                                                         *)
(* Every poll fetches the branch, notes in the record what it saw and when *)
(* that last changed, and opens a job when the daily deadline, a burst of  *)
(* commits or the agent's triage asks for one.  The very first cycle takes *)
(* its baseline from the releases listed by GitHub.  Commits arrive,       *)
(* agents answer, the process stops and restarts, and writes fail in       *)
(* between.                                                                *)
(*                                                                         *)
(* Abstractions.  Time is a number of ticks; a cycle takes none except in  *)
(* a triage session and in the release itself.  The release branch is the  *)
(* sequence of its commits' times, a commit being its position; local work *)
(* is the set of the local commits that HEAD has and the branch has not.   *)
(* An initial_ref is like an empty list of releases: the baseline is given *)
(* and has no time.  Once there is a record, releases made by others are   *)
(* never looked at, and the model has none.                                *)
(* A job's own life is ReleaseJob's: here it ends or is left pending.      *)
(***************************************************************************)
EXTENDS Integers, Sequences, FiniteSets, Functions

CONSTANTS
  Daily, MinimumGap, Quiet, Burst, BurstWindow, RetryDelay, TriageTimeout,
  Poll,       \* the durations and limits of the configuration
  Triage,     \* config.Triage
  NoTime,     \* the zero time: never released
  NoJob,      \* the absence of a pending job
  Histories,  \* the lists of releases GitHub may hold before the first cycle
  MaxReleases, \* bound: length of that list
  MaxTime,    \* bound: last tick
  MaxCommits, \* bound: length of the release branch
  MaxOwn,     \* bound: local commits ever made
  MaxFaults   \* bound: errors of git or of a write

Times     == Nat
Heads     == Nat \X SUBSET Nat     \* <<tip, {}>>, or <<0, local commits>>
Releases  == [commit : Nat, at : Times, tag : BOOLEAN]  \* tag: it was fetched
Decisions == {"none", "release", "wait", "error"}
Reasons   == {"", "first", "daily", "burst", "forced", "triage"}

ASSUME ConstantsAssumption ==
  /\ Daily \in Nat \ {0} /\ Poll \in Nat \ {0} /\ BurstWindow \in Nat \ {0}
  /\ RetryDelay \in Nat \ {0} /\ TriageTimeout \in Nat \ {0}
  /\ Quiet \in Nat /\ Burst \in Nat /\ MinimumGap \in 0 .. Daily
  /\ Triage \in BOOLEAN
  /\ NoTime \notin Times /\ NoJob \notin Nat
  /\ Histories \subseteq Seq(Releases) /\ MaxReleases \in Nat
  /\ MaxTime \in Nat /\ MaxCommits \in Nat /\ MaxOwn \in Nat /\ MaxFaults \in Nat

VARIABLES
  now,
  pushed,     \* the release branch: the time of each commit
  made,       \* the times of all local commits
  own,        \* those of them on HEAD and not on the branch
  history,    \* the published releases, as listed, until there is a record
  recorded,                       \* durable: there is a record
  released, releasedAt,           \* durable: the last verified release
  observed, changedAt,            \* durable: head and branch tip, and when they changed
  triage,     \* durable: the last assessment
  job,        \* durable: the target of the pending job, or NoJob
  pc,         \* where the daemon is; "down" when no process runs
  force,      \* the process was asked to ignore the cadence
  at,         \* the cycle's own idea of now
  seen,       \* the head and branch tip the cycle works with
  wakeAt,     \* when the poll timer fires
  reason,     \* why a release is due
  healthy,    \* ghost: the last cycle ended without an error
  assessed,   \* ghost: what the saved assessment was asked about
  published,  \* ghost: the time of the last release the record should know of
  faults      \* bound: errors so far

baseline == <<recorded, released, releasedAt>>
record   == <<baseline, observed, changedAt, triage, job>>
process  == <<pc, force, at, seen, wakeAt, reason>>
world    == <<pushed, made, own, history>>
vars     == <<now, world, record, process, healthy, assessed, published, faults>>

-----------------------------------------------------------------------------
(* The branch and the checkout.                                             *)

Tip == Len(pushed)

\* What is to be released: local work when the branch does not contain it, the
\* branch otherwise.
ReleaseHead == IF own = {} THEN <<Tip, {}>> ELSE <<0, own>>

\* The commits of the head or the branch that the last release lacks.
Total(s)       == (s.tip - released) + Cardinality(s.head[2])
Recent(s, since) ==
  Cardinality({c \in released + 1 .. s.tip : pushed[c] >= since})
    + Cardinality({c \in s.head[2] : made[c] >= since})

\* The rules of due, in its order.  (FromLastChange, as AtLocalHead and others
\* below, is a faulty form of the next definition for the mutation check.)
FromLastChange(t) == t - changedAt
Age(t)            == t - releasedAt
Due(s, t) ==
  IF Total(s) = 0 THEN ""
  ELSE IF releasedAt = NoTime THEN "first"
  ELSE IF Age(t) >= Daily THEN "daily"
  ELSE IF /\ Age(t) >= MinimumGap
          /\ Burst > 0 /\ Recent(s, t - BurstWindow) >= Burst
          /\ t - changedAt >= Quiet THEN "burst"
  ELSE ""

\* Both the head and the branch restart the quiet period.
AtLocalHead(s) == s.head # observed.head
Changed(s)     == s.head # observed.head \/ s.tip # observed.tip

\* The saved assessment speaks of this head since this release.
Applies(s) ==
  triage.decision # "none" /\ triage.head = s.head /\ triage.released = released

\* A write of the record fails before or after the new record is in place.
Fault == faults < MaxFaults /\ faults' = faults + 1

Init ==
  /\ now = 1
  /\ pushed = <<0>> /\ made = <<>> /\ own = {}
  /\ history \in Histories
  /\ recorded = FALSE /\ released = 0 /\ releasedAt = NoTime
  /\ observed = [head |-> <<0, {}>>, tip |-> 0] /\ changedAt = 0
  /\ triage = [decision |-> "none", head |-> <<0, {}>>, released |-> 0, at |-> 0]
  /\ job = NoJob
  /\ pc = "down" /\ force = FALSE /\ at = 0 /\ wakeAt = 0 /\ reason = ""
  /\ seen = observed
  /\ healthy = FALSE /\ assessed = observed /\ published = NoTime /\ faults = 0

-----------------------------------------------------------------------------
(* The process and its poll timer.                                          *)

\* A cycle is over, and what it worked out for itself with it.
Sleep(well) ==
  pc' = "idle" /\ wakeAt' = now + Poll /\ healthy' = well /\ at' = 0 /\ reason' = ""

Exit ==
  pc' = "down" /\ wakeAt' = 0 /\ healthy' = FALSE /\ at' = 0 /\ reason' = ""
    /\ force' = FALSE /\ seen' = [head |-> <<0, {}>>, tip |-> 0]

\* The first cycle runs at once, whatever the timer said before.
Start ==
  /\ pc = "down"
  /\ pc' = "cycle" /\ force' \in BOOLEAN
  /\ UNCHANGED <<now, world, record, at, seen, wakeAt, reason, healthy, assessed,
                 published, faults>>

\* Cancelled or killed, at any point.
Stop ==
  /\ pc # "down"
  /\ Exit
  /\ UNCHANGED <<now, world, record, assessed, published, faults>>

Wake ==
  /\ pc = "idle" /\ now >= wakeAt
  /\ pc' = "cycle"
  /\ UNCHANGED <<now, world, record, force, at, seen, wakeAt, reason, healthy,
                 assessed, published, faults>>

-----------------------------------------------------------------------------
(* One cycle.                                                               *)

CycleFails ==
  /\ pc \in {"cycle", "bootstrap"} /\ Fault
  /\ Sleep(FALSE)
  /\ UNCHANGED <<now, world, record, force, seen, assessed, published>>

CycleResumes ==
  /\ pc = "cycle" /\ job # NoJob
  /\ pc' = "release"
  /\ UNCHANGED <<now, world, record, force, at, seen, wakeAt, reason, healthy,
                 assessed, published, faults>>

Current == [head |-> ReleaseHead, tip |-> Tip]

\* Without a record the branch and the tags are fetched before the releases are
\* listed; what is fetched stays as it is for this cycle.
Fetch ==
  /\ pc = "cycle" /\ ~ recorded
  /\ seen' = Current
  /\ history' = [i \in DOMAIN history |-> [history[i] EXCEPT !.tag = TRUE]]
  /\ LET known == {r \in Range(history) : r.commit <= Tip}
     IN \/ known = {} /\ published' = NoTime
        \/ \E r \in known : published' = r.at /\ \A q \in known : q.at <= r.at
  /\ pc' = "bootstrap"
  /\ UNCHANGED <<now, pushed, made, own, record, force, at, wakeAt, reason, healthy,
                 assessed, faults>>

\* The releases that can be a baseline: the fetched tag is on the branch.
Candidates == {r \in Range(history) : r.tag /\ r.commit <= seen.tip}

\* releases() puts the latest first, whatever the order of GitHub's pages.
\* (Anyway: faulty.)
Anyway(rs) == rs
Newest(rs) == {r \in rs : \A q \in rs : q.at <= r.at}

\* Without a candidate everything is unreleased, since ever.
Baselines ==
  IF Candidates = {} THEN {[commit |-> 0, at |-> NoTime]} ELSE Newest(Candidates)

\* The fetched branch and the checkout are compared with what was seen before,
\* and the result is saved, with the baseline, before anything is decided.
Observe ==
  LET s == IF recorded THEN Current ELSE seen
      Saved == /\ observed' = s /\ changedAt' = IF Changed(s) THEN now ELSE changedAt
               /\ recorded' = TRUE /\ history' = <<>>
               /\ IF recorded THEN UNCHANGED <<released, releasedAt>>
                  ELSE \E b \in Baselines : released' = b.commit /\ releasedAt' = b.at
  IN
  /\ pc = (IF recorded THEN "cycle" ELSE "bootstrap") /\ job = NoJob
  /\ seen' = s
  /\ \/ /\ Saved /\ pc' = "decide" /\ at' = now
        /\ UNCHANGED <<wakeAt, healthy, reason, faults>>
     \/ Saved /\ Fault /\ Sleep(FALSE)
     \/ Fault /\ Sleep(FALSE) /\ UNCHANGED <<history, baseline, observed, changedAt>>
  /\ UNCHANGED <<now, pushed, made, own, triage, job, force, assessed, published>>

Cadenced == Due(seen, at) # "" \/ (force /\ Total(seen) > 0)

DecideByCadence ==
  /\ pc = "decide" /\ Cadenced
  /\ reason' = IF force /\ Total(seen) > 0 THEN "forced" ELSE Due(seen, at)
  /\ pc' = "open"
  /\ UNCHANGED <<now, world, record, force, at, seen, wakeAt, healthy, assessed,
                 published, faults>>

\* Triage is considered only between the rules of the cadence.
Triageable ==
  /\ ~ Cadenced
  /\ Triage /\ Total(seen) > 0 /\ releasedAt # NoTime
  /\ at - changedAt >= Quiet

\* A saved "release" holds until the job is opened, also across a restart.
ReuseDecision ==
  /\ pc = "decide" /\ Triageable
  /\ Applies(seen) /\ triage.decision = "release"
  /\ reason' = "triage" /\ pc' = "open"
  /\ UNCHANGED <<now, world, record, force, at, seen, wakeAt, healthy, assessed,
                 published, faults>>

\* A saved "wait" stands; an error is retried after a delay.
Deferred ==
  /\ Applies(seen)
  /\ \/ triage.decision = "wait"
     \/ triage.decision = "error" /\ at - triage.at < RetryDelay

KeepWaiting ==
  /\ pc = "decide" /\ ~ Cadenced
  /\ ~ Triageable \/ Deferred
  /\ Sleep(TRUE)
  /\ UNCHANGED <<now, world, record, force, seen, assessed, published, faults>>

BeginTriage ==
  /\ pc = "decide" /\ Triageable
  /\ ~ Deferred /\ ~ (Applies(seen) /\ triage.decision = "release")
  /\ pc' = "triage"
  /\ UNCHANGED <<now, world, record, force, at, seen, wakeAt, reason, healthy,
                 assessed, published, faults>>

\* (AssessmentOfCheckout: faulty.)
AssessmentOfCheckout(d) ==
  [decision |-> d, head |-> ReleaseHead, released |-> released, at |-> at]
Assessment(d) ==
  [decision |-> d, head |-> seen.head, released |-> released, at |-> at]

\* The session ends: with an answer, or with an error when it fails, times out
\* or leaves the checkout different.  Only a saved answer counts.
TriageEnds ==
  /\ pc = "triage"
  /\ \E d \in {"release", "wait", "error"} :
       /\ \/ /\ triage' = Assessment(d) /\ assessed' = seen
             /\ \/ /\ d = "release" /\ pc' = "open" /\ reason' = "triage"
                   /\ UNCHANGED <<at, wakeAt, healthy, faults>>
                \/ d # "release" /\ Sleep(TRUE) /\ UNCHANGED faults
                \/ Fault /\ Sleep(FALSE)
          \/ Fault /\ Sleep(FALSE) /\ UNCHANGED <<triage, assessed>>
  /\ UNCHANGED <<now, world, baseline, observed, changedAt, job, force, seen,
                 published>>

\* An agent that cannot be set up stops the daemon and leaves no assessment.
TriageNotSetUp ==
  /\ pc = "triage"
  /\ Exit
  /\ UNCHANGED <<now, world, record, assessed, published, faults>>

\* A job must release the fetched branch, also when only local work is new: that
\* work may be merged in another form.
Target(s) == s.tip

\* advance refuses unfinished edits in the checkout, or the new job cannot be
\* saved for certain.
OpenFails ==
  /\ pc = "open"
  /\ \/ UNCHANGED <<job, faults>>
     \/ job' = Target(seen) /\ Fault
  /\ Sleep(FALSE)
  /\ UNCHANGED <<now, world, baseline, observed, changedAt, triage,
                 force, seen, assessed, published>>

Open ==
  /\ pc = "open"
  /\ job' = Target(seen)
  /\ pc' = "release"
  /\ UNCHANGED <<now, world, baseline, observed, changedAt, triage,
                 force, at, seen, wakeAt, reason, healthy, assessed,
                 published, faults>>

-----------------------------------------------------------------------------
(* The release, as the cadence sees it, and the world.                      *)

\* finish: some commit of the branch with the target is released now.  The
\* checkout is left there, or with local work that was not part of it.
Finish ==
  /\ pc = "release"
  /\ released' \in job .. Tip /\ releasedAt' = now /\ job' = NoJob
  /\ published' = now
  /\ own' \in {{}, own}
  /\ Sleep(TRUE)
  /\ UNCHANGED <<now, pushed, made, history, recorded, observed, changedAt, triage,
                 force, seen, assessed, faults>>

\* The attempt ends without a release, or its budget is used up.
Pending ==
  /\ pc = "release"
  /\ \/ Sleep(TRUE) /\ UNCHANGED <<force, seen>>
     \/ Exit
  /\ UNCHANGED <<now, world, record, assessed, published, faults>>

\* A commit reaches the branch; merging local work may leave none behind.
Push ==
  /\ Tip < MaxCommits
  /\ pushed' = Append(pushed, now)
  /\ own' \in {{}, own}
  /\ UNCHANGED <<now, made, history, record, process, healthy, assessed,
                 published, faults>>

LocalCommit ==
  /\ Len(made) < MaxOwn
  /\ made' = Append(made, now) /\ own' = own \cup {Len(made) + 1}
  /\ UNCHANGED <<now, pushed, history, record, process, healthy, assessed,
                 published, faults>>

\* Somebody publishes a release before this bot has a record.
ReleaseElsewhere ==
  /\ ~ recorded /\ Len(history) < MaxReleases
  /\ \E c \in 0 .. Tip :
       history' = <<[commit |-> c, at |-> now, tag |-> FALSE]>> \o history
  /\ UNCHANGED <<now, pushed, made, own, record, process, healthy, assessed,
                 published, faults>>

\* The timer, and the time limit of a triage session, are never overslept.
Tick ==
  /\ now < MaxTime
  /\ \/ pc \in {"down", "release"}
     \/ pc = "idle" /\ now < wakeAt
     \/ pc = "triage" /\ now < at + TriageTimeout
  /\ now' = now + 1
  /\ UNCHANGED <<world, record, process, healthy, assessed, published,
                 faults>>

Daemon ==
  \/ Wake \/ CycleFails \/ CycleResumes \/ Fetch \/ Observe \/ DecideByCadence
  \/ ReuseDecision \/ KeepWaiting \/ BeginTriage \/ TriageEnds \/ TriageNotSetUp
  \/ OpenFails \/ Open \/ Finish \/ Pending

Next == Daemon \/ Start \/ Stop \/ Push \/ LocalCommit \/ ReleaseElsewhere \/ Tick

Spec == Init /\ [][Next]_vars

-----------------------------------------------------------------------------
(* Properties.                                                              *)

\* Every variable stays in its type.
TypeOK ==
  /\ now \in Times
  /\ pushed \in Seq(Times) /\ made \in Seq(Times)
  /\ own \subseteq 1 .. Len(made)
  /\ history \in Seq(Releases) /\ recorded \in BOOLEAN
  /\ published \in Times \cup {NoTime}
  /\ released \in 0 .. Tip /\ releasedAt \in Times \cup {NoTime}
  /\ observed \in [head : Heads, tip : 0 .. Tip] /\ changedAt \in Times
  /\ triage \in [decision : Decisions, head : Heads, released : 0 .. Tip, at : Times]
  /\ job \in (released .. Tip) \cup {NoJob}
  /\ pc \in {"down", "idle", "cycle", "bootstrap", "decide", "triage", "open", "release"}
  /\ force \in BOOLEAN /\ at \in Times
  /\ seen \in [head : Heads, tip : 0 .. Tip]
  /\ wakeAt \in Times /\ reason \in Reasons
  /\ healthy \in BOOLEAN /\ assessed \in [head : Heads, tip : 0 .. Tip] /\ faults \in 0 .. MaxFaults

\* The commits the cycle saw: main line and local.
Unreleased(s) == s.tip > released \/ s.head[2] # {}

\* The daily deadline is kept whatever arrives, however often the process is
\* restarted and whatever triage says: a daemon that went to sleep after a cycle
\* without error, knowing of unreleased commits, is never asleep later than the
\* deadline plus one triage session and one poll.
DeadlineKept ==
  (pc = "idle" /\ healthy /\ job = NoJob /\ Unreleased(seen)) =>
    /\ releasedAt # NoTime
    /\ now < releasedAt + Daily + TriageTimeout + Poll

\* A release before the deadline is of settled work: no commit the job covers,
\* on the branch or local, is younger than the quiet period.  The deadline counts
\* from the last release in truth, the bot's own or, until it has one, the newest
\* on the branch when its first cycle fetched, whatever GitHub lists first and
\* wherever that cycle was interrupted.
EarlyReleaseIsQuiet ==
  [][ (/\ pc = "open" /\ job' # job /\ reason # "forced"
       /\ published # NoTime /\ at < published + Daily) =>
        /\ \A c \in released + 1 .. seen.tip : at - pushed[c] >= Quiet
        /\ \A c \in seen.head[2] : at - made[c] >= Quiet ]_vars

\* A triage session takes minutes while the world moves on.  Whatever is saved,
\* lost or restarted meanwhile, a release is opened by triage, or put off by it,
\* only when the agent was asked about this very head.
DecisionIsInformed ==
  [][ \/ pc = "open" /\ job' # job /\ reason = "triage"
      \/ pc = "decide" /\ pc' = "idle" /\ Triageable /\ triage.decision = "wait"
        => assessed.head = seen.head ]_vars

\* README ("Triage runs once per new branch head after the quiet period"): a
\* cycle that defers to a saved "wait" has had the branch it sees assessed.
WaitCoversBranch ==
  [][ (pc = "decide" /\ pc' = "idle" /\ Triageable /\ triage.decision = "wait")
        => assessed.tip = seen.tip ]_vars

\* README ("On first startup, GitHub repositories use the most recently published
\* release whose tag is reachable from the watched branch as their baseline").
BaselineIsLatest ==
  [][ ~ recorded /\ recorded' =>
        \A i \in DOMAIN history :
          history[i].commit <= Tip => releasedAt' # NoTime /\ history[i].at <= releasedAt' ]_vars
=============================================================================
