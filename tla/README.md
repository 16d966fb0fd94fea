# Release Bot: a formal model

TLA+ specifications of Brokk's release bot (`brb`), the TLC configurations that
check them, and TLAPS proofs. Line numbers below are those of the repository's
files (`release.go:208` and so on).

The bot watches one branch of one repository. When a release is due it opens a
*job*, lets a coding agent prepare the release (a *publication plan*: commit,
tag, destinations, checks), validates the plan itself (the *gate*), lets a second
agent session publish it, and verifies the publication independently before it
moves its baseline. Every step may fail, time out, be cancelled or be cut short
by a crash; all the bot remembers is one JSON record.

## 1. Inventory

| component | state it keeps | operations | hard behaviour | what makes it correct |
|---|---|---|---|---|
| release engine (`release.go`, `preflight.go`) | the pending `Job` in `state.json`; its copy in memory | `Run`, `cycle`, `resume`, `publishAttempt`, the gate, `verify`, `finish`, `interrupted` | crash, cancellation and failed writes between any two steps; agents that act without answering | no publication without a whole gate; every publication looked for before new agent work; a bounded number of attempts; a baseline that moves only to what is public |
| cadence and triage (`release.go:83-206`, `triage.go`, `git.go:188-255`, `github.go:187-221`) | baseline and its time, what was observed and when it changed, the last assessment | `bootstrap`, `due`, observation, `triage`, opening a job | time passes during sessions; head and branch move separately; restarts | deadline kept, quiet period respected, answers used only for what was asked |
| verification (`github.go`, `git.go:20-68`, `release.go:355-403`) | none between verifications; a temporary worktree | tag, workflow runs, release, assets, destination commands | a paged list that changes while it is read; reruns; polling; cancellation | never passes what is not public, never refuses for an old failure, removes its worktree or reports that it could not |
| state store and locks (`state.go`) | `state.json`, two lock files | `ReadState`, `writeState`, `lockConfig`, `Retry` | crash between write, sync, rename, directory sync; half-taken locks | the record is always whole; one daemon, and never a retry beside it |
| verified history (`history.go`) | the last 100 receipts | `recordVerified`, `VerifiedHistory` | records of old versions, equal and missing times, clock steps | no receipt twice, newest kept |
| worker (`internal/worker/server.go`, `cmd/brb/worker.go`) | open streams, event numbers, shutdown | run, retry and shutdown requests | requests beside a running stream, disconnects, shutdown | events in order, a true outcome, an end of the service |
| dashboard and terminal (`cmd/brb/dashboard.go`, `terminal.go`, `console.go`, `progress.go`) | the last snapshot and the first, selection, scroll position, lines of activity, the open transcript line, undecoded bytes | `report`, `update`, `Handle`, keys, `render`, `summary`, the session | snapshots arrive under an open release; fragments of several transcripts; split escape sequences; resizing; a terminal that disappears | the release that is open stays open; nobody's words in another's line; keys decoded once; the session ends, after the engine |
| process execution (`internal/osrun/run.go`) | the process group, the last bytes of output | `StartCommand`, `Kill`, `Run`, `Tail.Write`, `Tail.Text` | a context that ends while the command exits or forks; descendants that keep the pipe; writes larger than the buffer | an answer is complete; a cancellation leaves nothing running; `Run` returns; exactly the last bytes kept |
| publication pipeline (`scripts/release*.py`, `package_registry.py`) | nothing; the registries and the hosted release | check, prepare draft, upload, wait, publish | partial uploads, slow visibility, reruns over immutable versions | hosted release public only after all packages; no mixed contents |
| commands, prompts, protocol, configuration, discovery, installers | none | parsing, formatting, downloading | — | not modelled, see section 8 |

Interactions. The engine reads and writes the record through the state store, is
started and cancelled by the commands or the worker, asks the cadence for a job
and verification for a verdict, and runs agents and checks through `osrun`.
Agents, hosted workflows, registries, other developers and the operator act on
the checkout, the remote and the record's neighbourhood at any time: they are the
environment of every module. `PROJECT.json` lists under `hazards` where each of
these behaviours bites.

## 2. Modules

| module | what it is |
|---|---|
| `ReleaseJob` | the engine over the durable record: one action per step of `cycle`, `resume`, `publishAttempt`, the gate, `verify`, `finish`, and the environment |
| `ReleaseLedger` | what the record promises, with no daemon: fixed target, bounded charges, a baseline that moves only to public commits |
| `ReleaseJob_proofs` | theorems about `ReleaseJob`, including that it implements `ReleaseLedger` |
| `Cadence` | when a job is opened: `due`, observation, triage, with explicit time |
| `Cadence_proofs` | theorems about `Cadence`: its type invariant and all its safety properties |
| `Verification` | one verification against a changing world, with paging, polling and the temporary worktree |
| `Verification_proofs` | theorems about `Verification`: its type invariant and what a verdict means |
| `Publication` | what the pipeline promises about one version: each package once, one commit, the launcher last, the hosted release after all of them |
| `PublishPipeline` | the hosted workflows and scripts that publish a version, run by several runners, cut short and repeated |
| `PublishPipeline_proofs` | theorems about `PublishPipeline`, including that it implements `Publication` |
| `StateStore` | the steps of `writeState`, the two file locks, daemons and retries that use them |
| `StateStore_proofs` | theorems about `StateStore`: its type invariant and all its safety properties |
| `Worker` | the worker service: streams, retries, disconnections, shutdown |
| `Worker_proofs` | theorems about `Worker`: its type invariant and what streams are told |
| `KeyDecoder` | how the dashboard turns bytes that arrive in pieces into keys |
| `Dashboard` | the terminal session around a run: snapshots, selection, frames, keys, the lost terminal, the summary |
| `Dashboard_proofs` | theorems about `Dashboard`, `History`, `Transcript` and `KeyDecoder`: all their safety properties |
| `History` | the verified receipts of a record, as operators; `Dashboard`'s engine uses them |
| `Transcript` | fragments of transcripts as lines, in the dashboard and on the console, and the activity view |
| `Screen` | two limits and two functions that the views in `Dashboard` and `Transcript` share |
| `Command` | one command that the bot runs: its processes, its pipe, its context |
| `Command_proofs` | theorems about `Command`: its safety properties |
| `MCReleaseJob`, `MCCadence`, `MCVerification`, `MCPublishPipeline`, `MCStateStore` | instances for TLC |

### ReleaseJob

`saved` and `released` are the record (`State.Job`, `State.Released`); `mem` is
the daemon's copy; `pc` says where the daemon is:

| `pc` | code |
|---|---|
| `down`, `idle`, `cycle` | no process; the poll timer of `Run` (`release.go:74`); the beginning of `cycle` |
| `resume`, `reconcile`, `charge` | `resume` before an attempt: refund of old setup failures, back-off, verification of saved receipts and plans, the budget (`release.go:208-285`) |
| `enter`, `prep` | `publishAttempt` up to an accepted plan (`preflight.go:64-107`) |
| `gate`, `reject` | `validatePublicationChecks`, one `step` per check, and its failure (`preflight.go:108-122, 174-237`) |
| `publish` | the publisher session (`preflight.go:123-149`) |
| `verify`, `finish`, `failed` | the end of `resume`: verification of the receipt, `finish`, and the three outcomes of a failed attempt (`release.go:287-354`) |

A write (`Save`) puts the record in place and goes on; or reports an error with
the old record in place; or reports an error with the *new* record in place, which
`writeState` really does when the directory cannot be synced after the rename
(`state.go:90-98`). A crash keeps only the record and the world. A plan stands for
its commit, tag and destinations; a commit is its position on the release branch.
An agent may do anything its role allows: leave the checkout dirty, at another
commit, push and say nothing, answer for something that is not public. The ghosts
`spent`, `built`, `passed` and `denied` are what *really* happened: attempts begun
and not given back, checks that truly passed, publications truly looked for. The
properties compare the code's own book-keeping with them.

### Cadence

Time is a number of ticks; a cycle takes none except in a triage session and in
the release. The branch is the sequence of its commits' times; `own` is the local
work that HEAD has and the branch has not, so `ReleaseHead` is `releaseHead`
(`git.go:192-205`). The life of a job is left to `ReleaseJob`: here it ends in a
release of some commit that contains the target, or stays pending. Commit dates are
arrival dates, and the clock never steps back.

`Fetch` and the first `Observe` are `bootstrap`: the branch and the tags are fetched,
then GitHub's releases are listed, and the latest one whose fetched tag is on the branch
becomes the baseline, saved with the first observation. A first cycle that is interrupted
or fails to save starts over. `published` is a ghost: the time from which the deadline
should count, the newest release on the branch when the first cycle fetched, then the
bot's own.

### Verification

The hosted runs are a sequence (ID = position); a page is a window of that list,
newest first, *at the moment it is requested*; the ghost `shifted` says that a run was
deleted between two pages of the listing. The verifier reads pages one by one
(`github.go:94-116`), selects the newest run and attempt of each key
(`evaluateRuns`), waits and starts over, or goes on to the release, the assets and
the destination commands in a temporary worktree. Runs are created, finished, rerun
and deleted at any time. `tree` is the temporary directory of the running, or last,
verification: without a worktree (`bare`), or with a clean or dirty one. `CleanUp` is the
deferred function of `git.go:29-40`: it removes everything and keeps the outcome, or
`git worktree remove` or `os.RemoveAll` fails, something stays, and the failure joins the
error, so that a verification that had succeeded ends in an error too (`stranded`). Every
verification makes a directory of its own, so what was left plays no part in the next one.

### PublishPipeline

A *pipeline* run (`publish-packages.yml`) first runs a validation (`release.yml`,
round `native`), then prepares without publishing (`preflight`), then publishes; a
validation may also run alone. Two concurrency groups order them: one pipeline at a
time, one validation at a time, but a validation beside the later rounds of a
pipeline. One action per request: reading the tag, listing the releases, touching,
creating or renaming a draft, the registry checks, one upload per package in the
code's order, the wait for npm's queue, staging asset by asset, the second look at
the tag, finalizing and confirming. A file is its commit's contents plus the
compressor that packed it, because the code compares bytes in one place
(`verify_assets`) and contents in another (`compare_contents`). A run remembers only
what the scripts hold in variables, so a run that dies forgets everything; the
registry, the releases and the tag stay. Reading several packages is one step:
visibility only grows and nothing accepted is replaced.

### StateStore

`file` is what a reader of `state.json` finds, `onDisk` the set of what it might find
after a loss of power; a rename adds to the set, the directory's sync reduces it to
one. A process is at one call of `lockConfig`, `ReadState` or `writeState`, and may
die there. A version is the number of its write; `log` keeps who wrote it from which
version. `ReleaseJob` and `Cadence` use what is shown here: a record is whole, and no
two processes write it. They leave out one case this module has: after a write that
reported an error, a loss of power may bring back the record before it.

### Worker

One `stream` per request, from admission to its last event; the engine is reduced to
what the service can disturb (the lock, an attempt under way, giving it back after a
cancellation). `serve` is `Serve`'s own state. `Exit` ends the process wherever the
handlers are, because `Serve` does not wait for them after `Close`.

### KeyDecoder

`Read` is a tick that finds bytes, `Decode` one turn of the loop of `keyDecoder.feed`
(`DecodeByte`, `DecodeEsc` and `DecodeSequence` are its branches, `Resting` its end), and
`Timeout` a tick that finds none while an ESC is pending. What a terminal sends for keys and
pastes lies on `wire` and is read in pieces of any length. `Dashboard`, `Transcript` and
this module are parts of one session and have no names in common, so that
`Dashboard_proofs` can extend all three.

### Dashboard, History

`engine` is `Run` as its observer sees it; `saved` and `state` are the record and the
engine's copy, reduced to what a snapshot lists: the last receipt, the pending job
with its phase, the history. `progress` is the last snapshot's releases, `initial`
the first's. `Save` reports what was saved, and after a failure too, unless the run was
cancelled (`release.go:58-63`). `ui` holds the dashboard's `view`, `selected`,
`scroll`, `detail` and `stopping`; `Tick` is one round of the ticker with a frame at
any height, `Collect` the end of the session with its summary. Text is counted in
rows: what `render` does with width is left out, what it does with height is
`Header`, `Remaining`, `ListLimit`, `Listed` and `ListRows`. The history is driven by
`Finish` at any time the clock may say. The ghosts are `start` and `blind` (what the
record was when the run began, and whether it could be read then) and the field
`ever` of the record: all that was verified.

### Transcript

The same records go to both sinks, the dashboard's `activity` and the `console` (a run
of the bot has one of them). A fragment is a piece of text or a line break, because
both loops treat a longer fragment as these in turn (`dashboard.go:120-131`,
`console.go:53-71`); `log` is the ghost they are compared with. `viewed` and `scroll` are
the activity view, which `Dashboard` leaves to this module.

### Command

`Run` and what `os/exec` does for it: the `Leader` and its group, processes that leave
the group (`Daemons`), the goroutine that copies the pipe into `Tail`, the one that
watches the context and kills, and `Wait` with its delay. Bytes are numbers in the
order in which they were written, of which some begin a character (`RuneStart`).

## 3. Runs

| run | question | instance |
|---|---|---|
| `core_safety` | is publishing gated, are attempts accounted for, is everything reconciled first, is a rejected plan prepared again, is every step a step of the ledger? | an old public release and a new plan, a build and a live check, two attempts, two crashes/cancellations/transient errors, one failed write, one push |
| `core_liveness` | does a pending job settle, and is what became public recorded? | two plans, one check, one attempt, records of an older version |
| `cadence_safety` | deadline, quiet period, freshness of triage | five ticks, three commits, three lists of earlier releases, one local commit, one error, restarts at any point |
| `verification` | is what is verified public in every part, what is refused really failed, what is healthy verified, the worktree removed, or else reported? | two runs of two workflows, one of them required, two attempts each, pages of one, a deletion, an error |
| `pipeline_safety` | does the pipeline keep the promise of `Publication`, leave what is public alone, and report success truly? | two runners, commits, compressors and packages, one run cut short, one draft deleted |
| `pipeline_liveness` | can a version that was partly published be completed? | two runners, commits and packages, one run cut short, no draft deleted |
| `state_store` | exclusion, whole and durable records, no lost update | a daemon, its retry, a daemon with the same checkout and one with the same state directory; three writes, two faults |
| `worker` | do streams end truly and does the service stop? | two streams, two workspaces, retries, disconnections, both ways to stop |
| `key_decoder` | are exactly the typed keys decoded? | three keys or pastes of up to two characters, split in every way |
| `dashboard` | does the open release stay, does every frame fit, are history and summary true, does quitting end the session? | three releases, a history of two, two times of the clock, five heights, failed reads and saves, signals, a lost terminal |
| `transcript` | do both sinks show each stream's lines, is the screen filled? | two streams and events, five records, three lines kept, four heights |
| `command` | is an answer complete, a cancellation whole, does `Run` return? | a leader, two of its group, one that left it; five bytes, three kept |

Properties, beside the type invariants of `ReleaseJob`, `Verification` and
`StateStore` (the other modules' `TypeOK` holds on the same instances and is in no
run):

- `GateBeforePublishing`: a publisher session runs only behind a durable, charged
  record in phase `publish`, from the clean checkout of the plan's commit, after
  every live check passed *in this gate* and every build check passed *for this
  very plan*, now or in an earlier attempt.
- `AttemptsAccounted`: the durable count covers the attempts begun and not given
  back, and exceeds them only by failed writes: restarting buys no agent sessions.
- `ReconciledFirst`: no agent session of an attempt begins before every
  publication the record names was looked for and found missing.
- `RejectedNeedsPreparation`: after a rejection the next attempt prepares again.
- `LedgerSpec`: refinement of `ReleaseLedger`.
- `Settles`, `PublishedIsRecorded`: liveness, section 4.
- `DeadlineKept`: a daemon that knows of unreleased commits never sleeps past
  deadline + one triage session + one poll, however often it is restarted.
- `EarlyReleaseIsQuiet`: no commit covered by an early release is younger than the
  quiet period, on the branch or local; a release is early when it comes before the
  deadline counted from the newest release that the first cycle fetched or the bot made.
- `DecisionIsInformed`: triage opens or defers a release only for the head the
  agent was asked about.
- `VerifiedIsPublic`, `RefusalIsReal`, `HealthyIsVerified`: what a verdict means,
  and that a lasting healthy state gets one. The first two say nothing of workflows when
  a run was deleted between two pages of the listing: section 6, `HistoryComplete`.
- `PublicationSpec`: refinement of `Publication`, through a mapping that takes the
  commit of what npm accepted and the one commit of the public release.
- `SuccessIsTrue`: a publishing run that reports success left tag, hosted release and
  every package at its commit.
- `PublicUntouched`: nothing public is written again, though uploads find their
  release by tag and with a record read before a wait of minutes.
- `OneRecordPerTag`: no two runs create a draft, as long as drafts are left alone.
- `PartialIsCompleted`: going on dispatching completes what was partly published.
- `MutualExclusion`, `RecordIsWhole`, `AcknowledgedIsDurable`, `NoLostUpdate`: the
  state store's promises to everything above it.
- `EndsWithOutcome`: a stream that has ended has contiguous events, tells its outcome
  last and truly (complete, failed, or cancelled), and holds no lock. `StopsInTheEnd`: the service stops.
- `DecodedIsMeant`, `EveryKeyArrives`: the keys typed and no others, all of them in the
  end.
- `OpenStays`: a release that is open, or was browsed to, stays selected while
  snapshots come and go around it; without browsing the newest one is selected.
- `FrameFits`, `ActivityFills`: at every height the body leaves room for the footer, the
  selection is visible, and no row stays empty that could be filled, wherever the view
  was scrolled to before a resize.
- `HistoryIsLatest`: the history is the latest receipts of all ever verified, each once
  and in order, though the clock stepped back and old records had no history.
- `SummaryIsTrue`: "complete" is said only of a run that was, and exactly the changed
  releases are listed.
- `QuitEnds`: a key, a signal or the loss of the terminal ends the session, after the
  engine.
- `TranscriptIsFaithful`: both sinks show what each stream said between two line breaks as
  one line, unless somebody else spoke, and nothing else.
- `TailIsLatest`: the buffer holds the last bytes copied, and its text begins at a
  character. `SuccessIsComplete`: an answer without an error is the whole output of a
  command that succeeded. `CancelledLeavesNothing`: after a cancellation nothing of the
  group is left. `RunReturns`: liveness, section 4.

### Bounds

Bounds are constants of the modules (`MaxFaults`, `MaxBadWrites`, `MaxCommit`,
`MaxTime`, `MaxCommits`, `MaxOwn`, `MaxRuns`, `MaxAttempts`, `MaxDeletes`,
`MaxWrites`, `MaxProgress`, `MaxInputs`, `MaxPasted`, `MaxReleases`, `MaxScroll`, `MaxLog`,
`MaxWritten`), used in guards of environment actions, of
faults, and of the beginning of a write or an event. One or two faults at any of the
steps, with free
cancellation of the timer, operator retries, agents and workflows, already gives
every pair of "step, then restart" the code distinguishes; the second plan is what
makes receipts and speculative plans differ; two checks make a cached and an
uncached one meet; two runs over pages of one make page boundaries; the last
tick reaches deadline plus session plus poll for a baseline of tick 0; the lists of
earlier releases are out of order and hold a tag of another branch; two runners give every pair of a pipeline
and what may run beside it; three writes are an old record, an interrupted one and
one after it. Three releases with a history of two make the oldest receipt drop out;
the heights are one without room for the body, one with a single row, and one on each
side of the limits 12 and 18 and of a list with activity under it; five records overflow
three lines of activity; five bytes overflow a buffer of three by more than one. Where an invariant is proved (section 5) the
bounds do not matter.

Every property of a passing run is paired in `PROJECT.json` with a *mutant*: a
plausible bug (`BuildKeyByPosition`, `ReceiptOnly`, `FromLastChange`,
`FullPageEnds` ...), kept in the module before the definition it corrupts, with
which the property fails.

## 4. Fairness

`core_liveness` uses `SupervisedSpec`. `WF(Daemon)`: the process is scheduled, and
every session, command, verification and cycle has a time limit
(`release.go:54,288,356`), so each of its steps ends. `WF(CoolDown)`: the clock
reaches `RetryAt`. `WF(Start)`: a supervisor or operator restarts a daemon that
stopped; without it a stopped daemon stays stopped, which the properties would
refute trivially. Nothing obliges an agent to succeed, a workflow to finish or a
publication to become public: `PublishedIsRecorded` starts from one that did.
`verification` needs `WF(Verifier)` only: requests and commands end, and
the engine keeps asking for verifications.

`pipeline_liveness`: each run's steps are weakly fair (jobs have time limits, and
requests end), a queued run gets its place in a concurrency group that becomes free
again and again (strong fairness, GitHub's queue), npm's queue empties, and somebody
goes on dispatching the pipeline for that commit whenever that is possible (strong
fairness: other runs come between). Without the last nothing would ever be completed;
the property says that nothing else is needed, in particular no cleaning up by hand.
`worker` assumes only that `Serve`'s own steps are taken, and nothing about engines.
`key_decoder` assumes that ticks go on. `dashboard` assumes the ticker, that a result
is received, and that an engine whose context has ended returns: its cycles and commands
take the context, which `command` checks where they run processes. `command` assumes the
steps of `Run` and of its goroutines, with the timer of `WaitDelay` (`run.go:56`), and
nothing about processes: none needs to end, and one that left the group may keep the pipe
open for ever.

`Verification`, `Worker`, `KeyDecoder`, `Dashboard` and `Command` are checked with
`CHECK_DEADLOCK FALSE`: once a publication is verified and the world has nothing more to
do, the process has exited, the session has ended, the command has returned, or the
bounded input is used up, everything has stopped.

## 5. Proofs

TLC checks a small instance; the theorems hold for every value of the constants. In every
proof module the assumptions are the named `ASSUME`s of its component, and what a theorem
itself names (`Upgraded = FALSE`, `KeysAreWhole`). The `ASSUME`s say that limits and
durations are natural numbers, that the empty values (`None`, `NoJob`, `NoPlan`) are not
members of the sets they stand beside, and what `Config.Validate` guarantees. Each invariant
(`IInv`, or named parts of it) was checked with TLC before it was proved, except `KeysInv`,
which quantifies over functions TLC cannot enumerate; it is proved as `Init => IInv` and
`IInv /\ [Next]_vars => IInv'`, one step per action, and the theorems follow from it by PTL.

### The engine

`ReleaseJob_proofs` holds, for all plans, commits, checks, numbers of attempts and
bounds (`tlapm` proves every obligation from `ConstantsAssumption` alone):

| theorem | establishes |
|---|---|
| `TypeCorrectness` | `Spec => []TypeOK`, also for records of older versions |
| `GateIsWhole` | `Spec => []GateBeforePublishing` |
| `BudgetKept` | `Upgraded = FALSE` implies `Spec => []AttemptsAccounted` |
| `EngineImplementsLedger` | `Upgraded = FALSE` implies `Spec => LedgerSpec` |
| `NothingIsDoneAgainBlindly` | `Spec => []ReconciledFirst` |
| `RejectionIsRepaired` | `Spec => RejectedNeedsPreparation` |

`TypeOK` is not inductive: steps of an attempt write `mem` back, so one needs that
`mem` is a job at those `pc`s (`Shape`). `GateBeforePublishing` speaks of one
`pc`; it needs what is true at every step of the gate (`GateInv`): which checks lie
behind `step` and that each is in `passed` or, as a build, in `built`; that cached
keys of *both* `saved` and `mem` are truly `built` (a failed write leaves either);
and `Linked`: the copy in memory and the record agree on target and tries wherever
an attempt is under way. `AttemptsAccounted` needs `Budget`, which relates `spent`
to the tries of `mem` as well as of `saved`, with the slack of failed writes. The
refinement needs besides that a publication at `finish` was verified (`Verified`).
`ReconciledFirst` speaks of the publications the record names at the beginning of a session;
`Denials` says in which order they were looked for on the way there, the receipt before the
plan. `RejectedNeedsPreparation` needs that a rejection has set `needsPrep` in memory before
the failure is saved, unless it was cancelled (`Repairs`), and that no step in between
clears it. `BudgetKept` and the refinement assume `Upgraded = FALSE` because they are
*false* otherwise: see `RefundKeepsRealAttempts` in section 6.

### The state store

`StateStore_proofs` holds, for all processes, state directories and checkouts shared
among them in any way, and all bounds, again from `ConstantsAssumption` alone:

| theorem | establishes |
|---|---|
| `TypeCorrectness` | `Spec => []TypeOK` |
| `OneAtATime` | `Spec => []MutualExclusion` |
| `NeverTorn` | `Spec => []RecordIsWhole` |
| `Durable` | `Spec => []AcknowledgedIsDurable` |
| `NothingUndone` | `Spec => NoLostUpdate` |

One invariant carries all five. `Locks`: whoever is past a lock's step holds it, and
each lock that is held belongs to such a process, which a kill or a loss of power
must restore for both locks at once. `Records`: therefore what a process has read is
still the record of its directory until it renames its own, and what it is about to
rename was synced, is newer than anything acknowledged there, and was made from what
it read. `Disk`: therefore everything the disk may show after a loss of power is at
least as new as the last acknowledged record. None of the five is inductive alone:
`NoLostUpdate` is about a `base` read many steps before, and holds only because of
`Locks`.

### Commands

`Command_proofs` holds, for all groups, processes outside them, capacities and bounds,
again from `ConstantsAssumption` alone:

| theorem | establishes |
|---|---|
| `BufferKeepsLatest` | `Spec => []TailIsLatest` |
| `AnswersAreComplete` | `Spec => []SuccessIsComplete` |
| `CancellationIsWhole` | `Spec => []CancelledLeavesNothing` |

`TailInv` gives the buffer as a function of `copied`; that `Tail.Write` keeps it, whether a
chunk is longer than the buffer, fits beside what is there, or pushes some of it out, is
the lemma `WriteKeeps`, over sequences of any length. `KillInv` says who may be alive at each
state of the watcher: after the group was killed only `Daemons`, because what is forked
afterwards has a parent outside the group; a context that ends without a kill is not
reported as a cancellation. `AnswersAreComplete` needs `TailInv` (nothing was cut, so the
text is all that was copied) and that the pipe ends only when nobody can write to it.

### Cadence

`Cadence_proofs` holds for all durations (`Poll`, `Quiet`, `Daily`, `TriageTimeout`),
limits, and lists of earlier releases:

| theorem | establishes |
|---|---|
| `TypeCorrectness` | `Spec => []TypeOK` |
| `DeadlineIsKept` | `Spec => []DeadlineKept` |
| `EarlyIsQuiet` | `Spec => EarlyReleaseIsQuiet` |
| `TriageIsInformed` | `Spec => DecisionIsInformed` |

What is at stake is the distance between the moment something was observed and the moment
it is acted on. `Observation`: nothing that was observed is younger than `changedAt`, and what
is being decided about is what was observed, although the branch has moved on. `Baseline`:
the record counts from the truly last release, also when the first cycle chose it from a
list. `Timer`: how late a sleep may end, given why it began; a session that began before the
deadline ends by its limit. `Justified`: each reason to open a job, when it is used, still
says about this head and this branch what it said when it was found. `EarlyReleaseIsQuiet`
follows from all four; without `Observation` a commit that arrived during the session could
be the young one.

### Verification

`Verification_proofs` holds for any workflows, runs, attempts, page sizes, page limits,
deletions, assets and destinations:

| theorem | establishes |
|---|---|
| `TypeCorrectness` | `Spec => []TypeOK`, with the clause that a worktree outlives its verification only if its removal failed and the verification ended with that error |
| `VerifiedIsPublicAlways` | `Spec => []VerifiedIsPublic` |
| `RefusalIsRealAlways` | `Spec => []RefusalIsReal` |

The heart is `Covered`: a run that was known when the listing began has been read, or is still
ahead of the pages that were read. That is arithmetic about positions: a run's position
in the newest-first list is the number of listed runs not older than it (a cardinality), so
a new run pushes the others back and can only make one of them appear twice, while a
deletion pulls them forward, past the boundary of a page. The counting lemmas
(`RankOnto`, `IntervalOfRanks`, `PageRuns`) say that a page is an interval of positions, that
every position is taken by exactly one run, and that a short page reaches the end. `Account`: what
was read of a run was true then, and success and failure are remembered in `good` and
`bad`. `Established`: what each passed step showed and that nobody takes it back.

The attempt to prove this found that both properties, as they used to be stated, are false with three
runs: the deletion between two pages, which the smaller instance could not show. They now
except exactly the listings where that happened (`shifted`), and section 6 says what the
code does then.

### The publication pipeline

`PublishPipeline_proofs` holds for any number of runners, commits, compressors, packages in
any order, assets and faults:

| theorem | establishes |
|---|---|
| `TypeCorrectness` | `Spec => []TypeOK` |
| `PromiseKept` | `Spec => PublicationSpec` |
| `SuccessIsRight` | `Spec => []SuccessIsTrue` |
| `NothingPublicChanges` | `Spec => PublicUntouched` |
| `OneRecord` | `Spec => []OneRecordPerTag` (which says: while no draft is deleted) |

One invariant carries the first four. `Exclusive`: the concurrency group lets one pipeline run
work at a time. `Record` and `Packed`: what each run holds in its variables is still true of
the hosted record and the registry, at every place where it will be used, although other runs
work beside it. `Owner`: a pipeline run that read a draft is the only one that can make anything
public, so until it does nothing is; this is why an upload by tag name cannot reach a
public release. `Ordered`: what npm accepted is closed under the order of the packages. The
refinement maps what npm accepted to its commit and the hosted release to the one public record;
every step of a run is a step of `Publication` or stutters. `OneRecord` needs `Single`:
while drafts are left alone, the tag has one record, and only the one native validation creates.

### The worker

`Worker_proofs` holds for any streams and workspaces:

| theorem | establishes |
|---|---|
| `TypeCorrectness` | `Spec => []TypeOK` |
| `OutcomeIsLast` | `Spec => []EndsWithOutcome` |

`EventsInv` says what every stream has been told at every moment of its life; `LockInv` that
who is past its lock's step holds the lock, and each lock that is not a retry's belongs to
such a stream; `ChargeInv` that an attempt under way belongs to the holder of the
workspace. After `Exit` the locks say nothing, and nothing is claimed of them.

### The dashboard and the history

`Dashboard_proofs` holds for terminals of every height, details of every length, histories
of every limit, all times and bounds:

| theorem | establishes |
|---|---|
| `EveryFrameFits` | `Spec => []FrameFits` |
| `OpenReleaseStays` | `Spec => OpenStays` |
| `SummaryTellsTheTruth` | `Spec => []SummaryIsTrue` |
| `HistoryKeepsTheLatest` | `Spec => []HistoryIsLatest` |

`UiInv`: the selection is a listed position (or nothing is listed), and no two releases of a
snapshot have the same identity. The first is what `FrameFits` needs besides arithmetic about
rows; the second makes the position that `Followed` looks for the only one. `Compared` says
what the summary's first snapshot is at every moment: not yet taken and the record untouched, or
equal to what the record listed when the run began; `Returned` that a run that returned without
an error was a single cycle.

`HistoryIsLatest` needs `Faithful`, for the record on disk and for the engine's copy, since a
failed save leaves either: what the record lists, with the receipt an older version left, is
exactly the newest of `ever`. That `VerifiedHistory` sorts and keeps the end of such a list is
counting again: each receipt of a finite set has a place, the number of later ones
(`LaterOnto`, `SortedIsInOrder`, `ReadIsNewest`). That dropping the older ones is safe for ever is
`NewestIsEnough`: keeping the newest, adding one and keeping the newest is the same as adding
it to all and keeping the newest, also when the clock stepped back and the added one is
not the newest.

### Transcripts

`Dashboard_proofs` holds for any streams, any number of records, lines of any length, any
limit of the activity, and every height:

| theorem | establishes |
|---|---|
| `EveryTranscriptIsFaithful` | `TranscriptSpec => []TranscriptIsFaithful` |
| `ActivityAlwaysFills` | `TranscriptSpec => []ActivityFills` |

`TranscriptIsFaithful` says of the whole log which record is shown where: lines begin at the
records of `Starts`, a line's records are those up to the next start, and a `Place` is a number
of earlier ones (a cardinality, so that no recursion over the log is needed). `TranscriptInv`
adds what a sink remembers of the log: `OpenInv`, that the last line is open exactly when the
last record was a piece of text, and for its stream. A record therefore either begins a line,
which is a new start (`NewLineIsFaithful`), or joins the line of the last start
(`JoinedIsFaithful`); all other places stay what they were (`PlacesStay`). That the two sinks
agree, although the dashboard drops lines and decides with `len(d.activity) > 0`, is
`KeptAppends` and `KeptJoins`: dropping and then appending is appending and then dropping.

### The key decoder

| theorem | establishes |
|---|---|
| `EveryKeyIsMeant` | `KeysAreWhole` implies `KeysSpec => []DecodedIsMeant` |
| `NoPasteStaysOpen` | `KeysAreWhole` implies `KeysSpec => []KeysAreHeard` |

for keys and pastes without a bound, of any length, in pieces of any length. What comes from
the terminal (`pending \o wire`) is a sequence of tokens: keys, the beginning and the end of a
paste, its characters. `CanDecode` says so of bytes by naming, for every position, the
token that begins there, whether a paste is open there, and how many keys lie before it; that
makes it composable (`JoinedDecodes`: more bytes arrive behind) and lets the first token be
taken off (`SomeTokenBegins`) without induction over the bytes. `KeysInv`: what comes decodes
into what the user typed and was not yet given. The work is in showing that the loop, which
sees only a beginning of these bytes, takes exactly the first token: the first final byte
ends the sequence and is inside what was read, or the loop waits (`EndOfSequence`,
`WaitsForToken`, `TurnTakesToken`); a lone ESC that nothing follows can only be the Esc key
(`TimeoutKeepsKeys`).

`KeysAreWhole` assumes `PendingLimit >= 5` (the code keeps 32 bytes) and `Slow = FALSE`. Both
are needed: with a limit of 4 TLC finds that five bytes of a paste's marker are dropped, and a
slow line refutes both properties (section 6).

### Only model-checked

Liveness (`Settles`, `PublishedIsRecorded`, `HealthyIsVerified`, `PartialIsCompleted`,
`StopsInTheEnd`, `EveryKeyArrives`, `QuitEnds`, `RunReturns`): the prover does not do fairness.
Every other property of every run has a theorem.

## 6. Findings

Stated in the modules, where the code departs from its documentation, and found
violated by TLC; no run of section 3 checks them. Where two documents disagree with each
other, the properties of section 3 follow the one the code agrees with. To repeat one, check it alone with the
named configuration:

| property | configuration | what happens |
|---|---|---|
| `ReleaseJob!InterruptionKeepsBuilds` | `core_safety`, `Plans`, `ValidPlans <- MCPlans`, `CommitOf <- MCSameCommit`, `Attempts = 1`, `MaxFaults = 1`, `MaxBadWrites = 0` | a cancellation between a check command that succeeded and the tree check after it is handled like a dirty tree, and all cached build results are dropped from the record (`preflight.go:212`), against `README.md:213` |
| `Worker!SignalKeepsAttempt` | `worker` | `brb worker` derives the engine's context from the request, not from the signal, closes streams after five seconds and exits without waiting for the handlers (`internal/worker/server.go:157-164`), so an interruption may never be recorded and the attempt stays counted, against `README.md:200` |
| `KeyDecoder!KeysAreHeard` | `key_decoder`, `Slow = TRUE` | the tick takes a pending ESC for the Esc key even inside a paste (`cmd/brb/terminal.go:96`); if it was the first byte of the paste's end, the paste never ends and every later key is discarded, against `terminal.go:110` |
| `ReleaseJob!RefundKeepsRealAttempts` | as the first, with `Upgraded = TRUE`, `MaxFaults = 2` | after `brb retry`, the refund for an old setup failure gives back a later, real attempt (`release.go:213`), against the comment at `release.go:211` |
| `Cadence!WaitCoversBranch` | `cadence_safety`, `MaxFaults = 0` | while local work diverges from the branch, a saved "wait" keeps deferring although new commits reached the branch (`triage.go:77`), against `README.md:186` |
| `Cadence!BaselineIsLatest` | `cadence_safety` | the tags are fetched before the releases are listed; a release published in between is listed, but its tag is unknown and it is skipped (`release.go:97-100`), so an older one becomes the baseline for good and the next release may be due at once, against `README.md:192` |
| `Verification!HistoryComplete` | `verification` | `total_count` is fetched and never compared, so a run deleted between two pages can hide another one (`github.go:110`), against `README.md:240`. With three runs such a deletion hides the newest run of a workflow altogether: a publication is then verified, or refused, for an older one (`VerifiedIsPublic`, `RefusalIsReal` without `shifted`, `MaxRuns = 3`) |
| `PublishPipeline!PartialIsCompleted` | `pipeline_liveness`, `MaxDeletes = 1` | a draft deleted between the two preparations of a run can be created twice, by the packages job and a validation beside it; then every run refuses the version (`scripts/release.py:181`), against `RELEASING.md:57,121` |
| `PublishPipeline!HostedFirst` | `pipeline_safety` | `README.md:297-299` says "native GitHub publication, followed automatically by all five npm packages"; the code prepares a draft and publishes it only after npm (`release_pipeline.py:28-44`), as `RELEASING.md:120-123` says ("All npm packages must be visible and verified before GitHub is finalized"), which `PublicationSpec` states |
| `PublishPipeline!AcceptedIsEnough` | `pipeline_safety` | `README.md:302-303` says "Successful npm uploads do not wait for the public version index", and the comment at `package_registry.py:133-135` that visibility is "checked only by the explicit verify command, not used as a release gate"; but `release_pipeline.py:29-37` waits until every package is visible, and a run whose uploads were all accepted ends without publishing when that takes too long, again as `RELEASING.md:123-124` says. The same lines of `README.md` contradict the conjunct `visible = Packages` of `SuccessIsTrue`, which holds |
| `Worker!CurrentStreamFinishes` | `worker` | a shutdown request cancels a stream still open after five seconds (`server.go:150`), against `README.md:339` |

## 7. Plan

All modules of the plan exist, and all their safety properties have theorems. What could
follow: a composition of `Dashboard`, `Transcript` and `KeyDecoder` in which the decoded keys
are those the dashboard handles, and the parts of section 8.

## 8. Not modelled

Prompts, the agent protocol and the parsing of receipts (text in and out of an
external agent); flags, output formats and layout; configuration and discovery (what
`Validate` guarantees appears as `ASSUME`); installers, launchers, licences and
packaging (straight-line file handling). Texts shown to the operator only (`SetupFailure`,
`Interruption`, `ValidatedAt`, `WorkBranch`) are left out. In the modules:

- `ReleaseJob`: histories never diverge beyond local work ahead of the branch.
- `Cadence`: the clock never steps back, no git command that reads the local repository
  fails alone, releases made by others after the first record (which the code never looks
  at) do not occur, and users do not switch the bot's checkout to other work.
- `Verification`: assets fit one page, runs of other commits are not listed, and the
  process does not die (it would leave its directory, and the next one makes another).
- `PublishPipeline`: PyPI (which the workflow blocks), the evidence checks that only
  read, and `release.py publish` run by hand.
- `Worker`: malformed requests and the typed results this bot never has.
- `Command`: every live process holds the pipe, so one that closed its output early is
  outside; `TrimSpace` of the answer is left out.
- `Transcript`: empty fragments, which say nothing, but on the console end another
  stream's open line.
- `Dashboard`: the words "paused" and "blocked" of the summary, which need a run without
  an error in a phase that is reported only with one.
- `History` contains the de-duplication of `VerifiedHistory`, but its run does not
  exercise it: `recordVerified` appends no tag and commit twice, so only a record edited by
  hand would hold them.
