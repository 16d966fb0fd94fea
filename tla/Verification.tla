---------------------------- MODULE Verification ----------------------------
(***************************************************************************)
(* The independent verification of one publication: engine.verify          *)
(* (release.go), github.verify, check and evaluateRuns (github.go), and    *)
(* the temporary worktree in which destination commands run (git.go).      *)
(*                                                                         *)
(* The verifier reads a world that keeps changing: the list of workflow    *)
(* runs is paged, newest first, and runs are created, finish, are rerun or *)
(* deleted between two pages, between two polls and after the last read.   *)
(*                                                                         *)
(* Abstractions.  A run belongs to one key, its workflow, event and ref;   *)
(* its ID is its position in `hosted', and all runs are of the release's   *)
(* commit.  A required workflow is a key.  Assets fit one page.  The plan  *)
(* checks of engine.verify concern data that ReleaseJob's plans stand for. *)
(***************************************************************************)
EXTENDS Integers, Sequences, FiniteSets

CONSTANTS
  Keys,          \* workflow:event:ref
  Required,      \* the keys that must have a run
  Assets,        \* the asset patterns that must be present
  Destinations,  \* the plan's destinations, then the operator's verifier
  PageSize,      \* runs per page of the API
  PageLimit,     \* pages read before the history is refused
  MaxRuns,       \* bound: runs ever created
  MaxAttempts,   \* bound: attempts of a run
  MaxDeletes,    \* bound: runs deleted
  MaxFaults      \* bound: errors of the network, of commands and time-outs

Statuses == {"running", "success", "failure"}
Run      == [id : Nat, key : Keys, attempt : Nat, status : Statuses]

ASSUME ConstantsAssumption ==
  /\ Required \subseteq Keys
  /\ IsFiniteSet(Destinations) /\ IsFiniteSet(Assets)
  /\ PageSize \in Nat \ {0} /\ PageLimit \in Nat \ {0}
  /\ MaxRuns \in Nat /\ MaxAttempts \in Nat /\ MaxDeletes \in Nat
  /\ MaxFaults \in Nat

VARIABLES
  hosted,     \* the workflow runs, by ID
  deleted,    \* the IDs of runs deleted since
  tagged,     \* the remote tag is at the release's commit
  release,    \* the hosted release: "none", "draft" or "published"
  uploaded,   \* the assets wholly uploaded
  partial,    \* the assets whose upload is under way
  public,     \* the destinations whose artifacts are public
  pc,         \* where the verifier is
  page,       \* the next page to read
  got,        \* the runs read, in order
  left,       \* the destinations whose command has still to run
  tree,       \* this verification's temporary directory: "none", "bare"
              \* (without a worktree) or its worktree, "clean" or "dirty"
  outcome,    \* "none", "ok", "failed" (hosted runs), "error", or "stranded",
              \* an error that tells of a directory left behind
  faults,     \* bound: errors so far
  latest,     \* ghost: each key's newest run when the listing began, or 0
  good,       \* ghost: the runs that had succeeded at some time since then
  bad,        \* ghost: the runs that had failed at some time since then
  shifted     \* ghost: a run was deleted between two pages of that listing

hub      == <<hosted, deleted>>
outside  == <<tagged, release, uploaded, partial, public>>
verifier == <<pc, page, got, left, tree, outcome>>
ghosts   == <<latest, good, bad, shifted>>
vars     == <<hub, outside, verifier, faults, ghosts>>

-----------------------------------------------------------------------------
(* evaluateRuns.                                                            *)

\* A rerun supersedes an attempt, a later run supersedes a run of the same key.
\* (OlderWins is a faulty form for the mutation check, as others below.)
OlderWins(r, q) == r.id < q.id
Newer(r, q) ==
  r.id > q.id \/ (r.id = q.id /\ r.attempt > q.attempt)

\* What is kept of the runs read: of equals, the one read first
\* (EverySeen: faulty).
EverySeen(runs) == {runs[i] : i \in 1 .. Len(runs)}
Selected(runs) ==
  {runs[i] : i \in {j \in 1 .. Len(runs) :
     \A m \in 1 .. Len(runs) :
       runs[m].key = runs[j].key =>
         /\ ~ Newer(runs[m], runs[j])
         /\ m < j => Newer(runs[j], runs[m])}}

\* Missing and unfinished runs are waited for, but a failure ends the wait.
Evaluate(runs) ==
  LET kept == Selected(runs) IN
  IF kept = {} THEN "waiting"
  ELSE IF \E r \in kept : r.status = "failure" THEN "failed"
  ELSE IF \/ \E r \in kept : r.status = "running"
          \/ ~ Required \subseteq {r.key : r \in kept} THEN "waiting"
  ELSE "passed"

-----------------------------------------------------------------------------
(* The hosted lists.                                                        *)

Listed == 1 .. Len(hosted) \ deleted

\* The runs in the order of the API, newest first, as a function of position.
Position(id)  == Cardinality({i \in Listed : i >= id})
RunsOfPage(p) ==
  LET ids == {i \in Listed : Position(i) \in (p - 1) * PageSize + 1 .. p * PageSize}
  IN [n \in 1 .. Cardinality(ids) |->
        LET i == CHOOSE k \in ids : Position(k) = (p - 1) * PageSize + n
        IN [id |-> i, key |-> hosted[i].key, attempt |-> hosted[i].attempt,
            status |-> hosted[i].status]]

\* (FullPageEnds: faulty.)  A short page is the last one.
FullPageEnds(runs) == Len(runs) <= PageSize
LastPage(runs)     == Len(runs) < PageSize

Ids(status)  == {i \in Listed : hosted[i].status = status}
LatestOf(k)  ==
  LET ids == {i \in Listed : hosted[i].key = k}
  IN IF ids = {} THEN 0 ELSE CHOOSE i \in ids : \A j \in ids : j <= i

Fault == faults < MaxFaults /\ faults' = faults + 1

Init ==
  /\ hosted = <<>> /\ deleted = {}
  /\ tagged = FALSE /\ release = "none" /\ uploaded = {} /\ partial = {}
  /\ public = {}
  /\ pc = "idle" /\ page = 1 /\ got = <<>> /\ left = {} /\ tree = "none"
  /\ outcome = "none" /\ faults = 0
  /\ latest = [k \in Keys |-> 0] /\ good = {} /\ bad = {}
  /\ shifted = FALSE

-----------------------------------------------------------------------------
(* The verifier.                                                            *)

\* resume asks for a verification, again and again until one succeeds.  Each has
\* a directory of its own: what an earlier one left behind stays on the disk, but
\* has no part in this one.
Begin ==
  /\ pc = "idle" /\ outcome # "ok"
  /\ pc' = "tag" /\ outcome' = "none" /\ tree' = "none"
  /\ UNCHANGED <<hub, outside, page, got, left, faults, ghosts>>

\* A verification that ends before its directory exists has nothing to remove.
Ends(o) ==
  /\ pc' = "idle" /\ outcome' = o
  /\ page' = 1 /\ got' = <<>> /\ left' = {}

CheckTag ==
  /\ pc = "tag"
  /\ \/ tagged /\ pc' = "page" /\ page' = 1 /\ got' = <<>>
        /\ UNCHANGED <<left, outcome>>
     \/ ~ tagged /\ Ends("error")
  /\ UNCHANGED <<hub, outside, tree, faults, ghosts>>

\* One request for one page of runs.
ReadPage ==
  LET runs == RunsOfPage(page) IN
  /\ pc = "page"
  /\ IF LastPage(runs)
       THEN pc' = "evaluate" /\ got' = got \o runs /\ UNCHANGED <<page, left, outcome>>
     ELSE IF page >= PageLimit THEN Ends("error")
     ELSE /\ page' = page + 1 /\ got' = got \o runs
          /\ UNCHANGED <<pc, left, outcome>>
  /\ IF page = 1
       THEN /\ latest' = [k \in Keys |-> LatestOf(k)]
            /\ good' = Ids("success") /\ bad' = Ids("failure") /\ shifted' = FALSE
       ELSE UNCHANGED ghosts
  /\ UNCHANGED <<hub, outside, tree, faults>>

EvaluateRuns ==
  /\ pc = "evaluate"
  /\ CASE Evaluate(got) = "passed"  ->
            pc' = "release" /\ page' = 1 /\ got' = <<>> /\ UNCHANGED <<left, outcome>>
       [] Evaluate(got) = "waiting" ->
            pc' = "waiting" /\ page' = 1 /\ got' = <<>> /\ UNCHANGED <<left, outcome>>
       [] Evaluate(got) = "failed"  -> Ends("failed")
  /\ UNCHANGED <<hub, outside, tree, faults, ghosts>>

\* The poll timer: the whole check starts over.
PollAgain ==
  /\ pc = "waiting"
  /\ pc' = "page"
  /\ UNCHANGED <<hub, outside, page, got, left, tree, outcome, faults, ghosts>>

CheckRelease ==
  /\ pc = "release"
  /\ \/ release = "published" /\ pc' = "assets" /\ UNCHANGED <<page, got, left, outcome>>
     \/ release # "published" /\ Ends("error")
  /\ UNCHANGED <<hub, outside, tree, faults, ghosts>>

\* Every asset must be complete, and each wanted one present
\* (EnoughAssets: faulty).
EnoughAssets   == Assets \subseteq uploaded \cup partial
AssetsComplete == partial = {} /\ Assets \subseteq uploaded

CheckAssets ==
  /\ pc = "assets"
  /\ \/ AssetsComplete /\ pc' = "tree" /\ UNCHANGED <<page, got, left, outcome>>
     \/ ~ AssetsComplete /\ Ends("error")
  /\ UNCHANGED <<hub, outside, tree, faults, ghosts>>

\* A worktree of its own, at exactly the released commit.
MakeTree ==
  /\ pc = "tree"
  /\ tree' = "clean" /\ left' = Destinations /\ pc' = "command"
  /\ UNCHANGED <<hub, outside, page, got, outcome, faults, ghosts>>

\* A destination's command succeeds only if its artifacts are public; it may
\* leave the tree dirty, which ends the verification like its failure does.
RunCommand ==
  /\ pc = "command"
  /\ IF left = {} THEN pc' = "cleanup" /\ outcome' = "ok" /\ UNCHANGED <<left, tree, faults>>
     ELSE \E d \in left :
       \/ /\ tree = "clean" /\ d \in public
          /\ left' = left \ {d} /\ UNCHANGED <<pc, outcome, tree, faults>>
       \/ /\ d \notin public /\ UNCHANGED faults
          /\ pc' = "cleanup" /\ outcome' = "error" /\ tree' \in {"clean", "dirty"}
          /\ UNCHANGED left
       \/ /\ d \in public /\ Fault
          /\ pc' = "cleanup" /\ outcome' = "error" /\ tree' \in {"clean", "dirty"}
          /\ UNCHANGED left
  /\ UNCHANGED <<hub, outside, page, got, ghosts>>

\* The deferred cleanup, whatever happened, under a context of its own: the
\* worktree is removed, then the directory.  When either fails, what is left
\* stays, and the failure joins the error; a success becomes one
\* (KeepOutcome: faulty).
KeepOutcome(kept) ==
  /\ tree' = kept
  /\ Fault /\ Ends(outcome)
Strand(kept) ==
  /\ tree' = kept
  /\ Fault /\ Ends("stranded")

CleanUp ==
  /\ pc = "cleanup"
  /\ \/ tree' = "none" /\ Ends(outcome) /\ UNCHANGED faults
     \/ tree # "bare" /\ Strand(tree)    \* git worktree remove
     \/ Strand("bare")                   \* os.RemoveAll
  /\ UNCHANGED <<hub, outside, ghosts>>

\* The time limit, a cancellation or a failed request or command, at any point.
\* While the worktree is made, that leaves no directory yet, an empty one or
\* some of the worktree.
Expire ==
  /\ pc \notin {"idle", "cleanup"} /\ Fault
  /\ \/ /\ pc \in {"tree", "command"}
        /\ pc' = "cleanup" /\ outcome' = "error"
        /\ tree' \in {"clean", "dirty"} \cup (IF pc = "tree" THEN {"bare"} ELSE {})
        /\ UNCHANGED <<page, got, left>>
     \/ pc # "command" /\ Ends("error") /\ UNCHANGED tree
  /\ UNCHANGED <<hub, outside, ghosts>>

Verifier ==
  \/ Begin \/ CheckTag \/ ReadPage \/ EvaluateRuns \/ PollAgain \/ CheckRelease
  \/ CheckAssets \/ MakeTree \/ RunCommand \/ CleanUp

-----------------------------------------------------------------------------
(* The world.                                                               *)

PushTag ==
  /\ ~ tagged /\ tagged' = TRUE
  /\ UNCHANGED <<hub, release, uploaded, partial, public, verifier, faults, ghosts>>

CreateRun ==
  /\ Len(hosted) < MaxRuns
  /\ \E k \in Keys :
       hosted' = Append(hosted, [key |-> k, attempt |-> 1, status |-> "running"])
  /\ UNCHANGED <<deleted, outside, verifier, faults, ghosts>>

FinishRun ==
  /\ \E i \in Ids("running"), s \in {"success", "failure"} :
       /\ hosted' = [hosted EXCEPT ![i].status = s]
       /\ good' = IF s = "success" THEN good \cup {i} ELSE good
       /\ bad'  = IF s = "failure" THEN bad \cup {i} ELSE bad
  /\ UNCHANGED <<deleted, outside, verifier, faults, latest, shifted>>

Rerun ==
  /\ \E i \in Ids("success") \cup Ids("failure") :
       /\ hosted[i].attempt < MaxAttempts
       /\ hosted' = [hosted EXCEPT ![i].status = "running", ![i].attempt = @ + 1]
  /\ UNCHANGED <<deleted, outside, verifier, faults, ghosts>>

DeleteRun ==
  /\ Cardinality(deleted) < MaxDeletes
  /\ \E i \in Listed : deleted' = deleted \cup {i}
  /\ shifted' = (shifted \/ (pc = "page" /\ page > 1))
  /\ UNCHANGED <<hosted, outside, verifier, faults, latest, good, bad>>

Draft ==
  /\ release = "none" /\ release' = "draft"
  /\ UNCHANGED <<hub, tagged, uploaded, partial, public, verifier, faults, ghosts>>

Publish ==
  /\ release = "draft" /\ release' = "published"
  /\ UNCHANGED <<hub, tagged, uploaded, partial, public, verifier, faults, ghosts>>

Upload ==
  /\ release # "none"
  /\ \/ \E a \in Assets \ (uploaded \cup partial) :
          partial' = partial \cup {a} /\ UNCHANGED uploaded
     \/ \E a \in partial : partial' = partial \ {a} /\ uploaded' = uploaded \cup {a}
  /\ UNCHANGED <<hub, tagged, release, public, verifier, faults, ghosts>>

Distribute ==
  /\ \E d \in Destinations \ public : public' = public \cup {d}
  /\ UNCHANGED <<hub, tagged, release, uploaded, partial, verifier, faults, ghosts>>

World ==
  \/ PushTag \/ CreateRun \/ FinishRun \/ Rerun \/ DeleteRun \/ Draft \/ Publish
  \/ Upload \/ Distribute

Next == Verifier \/ Expire \/ World

Spec     == Init /\ [][Next]_vars
FairSpec == Spec /\ WF_vars(Verifier)

-----------------------------------------------------------------------------
(* Properties.                                                              *)

\* Every variable stays in its type.  A worktree or its directory exists only
\* while commands use it and until it is removed; one that outlives its
\* verification was not to be removed, and is told: neither a success nor an
\* error of another kind hides it (git.go:29-40).
TypeOK ==
  /\ hosted \in Seq([key : Keys, attempt : Nat, status : Statuses])
  /\ deleted \subseteq 1 .. Len(hosted)
  /\ tagged \in BOOLEAN /\ release \in {"none", "draft", "published"}
  /\ uploaded \subseteq Assets /\ partial \subseteq Assets \ uploaded
  /\ public \subseteq Destinations
  /\ pc \in {"idle", "tag", "page", "evaluate", "waiting", "release", "assets",
             "tree", "command", "cleanup"}
  /\ page \in 1 .. PageLimit
  /\ got \in Seq(Run) /\ left \subseteq Destinations
  /\ tree \in {"none", "bare", "clean", "dirty"}
  /\ tree # "none" =>
       pc \in {"command", "cleanup"} \/ (pc = "idle" /\ outcome = "stranded")
  /\ outcome \in {"none", "ok", "failed", "error", "stranded"}
  /\ faults \in 0 .. MaxFaults
  /\ latest \in [Keys -> 0 .. Len(hosted)]
  /\ good \subseteq 1 .. Len(hosted) /\ bad \subseteq 1 .. Len(hosted)
  /\ shifted \in BOOLEAN

\* The runs of a key at least as new as the newest when the listing began.
Current(k, ids) == {i \in ids : hosted[i].key = k /\ i >= latest[k]}

\* A verified publication is public in every part, and every workflow known when
\* its runs were listed has succeeded since, in its newest run or a later one:
\* no page boundary, rerun or late run hides a failure.  A run deleted between
\* two pages moves others to a page already read: the workflows are then only as
\* good as what was seen (see HistoryComplete).
VerifiedIsPublic ==
  outcome = "ok" =>
    /\ tagged /\ release = "published" /\ Assets \subseteq uploaded
    /\ public = Destinations
    /\ \A k \in Keys : latest[k] # 0 \/ k \in Required =>
         shifted \/ Current(k, good) # {}

\* A publication is refused for its workflows only if one of them really failed
\* in its newest run; an old failure, a rerun or a missing run is waited for.
\* Again nobody deletes a run between two pages.
RefusalIsReal ==
  outcome = "failed" /\ ~ shifted => \E k \in Keys : Current(k, bad) # {}

\* All that a verification asks for.
Healthy ==
  /\ tagged /\ release = "published" /\ AssetsComplete /\ public = Destinations
  /\ \A k \in Keys : LatestOf(k) # 0 \/ k \in Required =>
       LatestOf(k) # 0 /\ hosted[LatestOf(k)].status = "success"
  /\ Listed # {}

\* A publication that has become healthy for good is verified in the end.
HealthyIsVerified == <>[]Healthy => <>(outcome = "ok")

\* README ("The verifier paginates API results and refuses incomplete
\* histories"): whatever list of runs was accepted holds every run that was
\* there from the first page to the last.
HistoryComplete ==
  [][ (pc = "evaluate" /\ pc' = "release") =>
        \A k \in Keys : latest[k] # 0 /\ latest[k] \in Listed =>
          \E n \in 1 .. Len(got) : got[n].key = k ]_vars
=============================================================================
