-------------------------- MODULE PublishPipeline --------------------------
(***************************************************************************)
(* Publishing one version of the bot itself: the hosted workflows          *)
(* publish-packages.yml and release.yml, which run release_pipeline.run,   *)
(* package_registry.run and the GitHub class of release.py.                *)
(*                                                                         *)
(* A pipeline run first calls the validation of release.yml (round         *)
(* "native"), then prepares everything without publishing ("preflight")    *)
(* and, if asked to, publishes ("publish").  Validations may also be       *)
(* dispatched on their own.  Two concurrency groups order the runs.  Any   *)
(* run may be cancelled, time out or fail at any step and be dispatched    *)
(* again, for the same commit or another.                                  *)
(*                                                                         *)
(* Abstractions.  A commit stands for the contents of everything built     *)
(* from it; the bytes of a file are its contents and the compressor that   *)
(* packed it, which differs between machines.  Builds, tests and the       *)
(* checks of local files happen before a run's first step here; they and   *)
(* the publishing identity's check may fail, which Cancel stands for.      *)
(***************************************************************************)
EXTENDS Integers, Sequences, FiniteSets

CONSTANTS
  Runners,      \* workflow runs that can be under way at a time
  Commits,      \* commits the version may be dispatched for
  Compressors,  \* builds of one commit that differ in their gzip encoding
  Packages,     \* npm packages
  Root,         \* the launcher package
  Position,     \* the place of each package in the manifest
  Assets,       \* files of the hosted release
  None,         \* no commit, no file
  MaxFaults,    \* bound: runs cancelled, timed out or failed by themselves
  MaxDeletes    \* bound: drafts deleted by the operator

ASSUME ConstantsAssumption ==
  /\ Root \in Packages /\ IsFiniteSet(Packages)
  /\ Position \in [Packages -> Nat]
  /\ \A p, q \in Packages : Position[p] = Position[q] => p = q
  /\ None \notin Commits
  /\ MaxFaults \in Nat /\ MaxDeletes \in Nat

VARIABLES
  job,       \* the workflow runs
  releases,  \* the release records ever created for the tag, by ID
  tag,       \* the commit of the version's tag, or None
  registry,  \* the bytes npm accepted for each package, or None
  visible,   \* the packages public reads return
  faults,    \* bound: faults so far
  deletes    \* bound: drafts deleted so far

hub  == <<releases, tag>>
npm  == <<registry, visible>>
env  == <<faults, deletes>>
vars == <<job, hub, npm, env>>

Bytes == [commit : Commits, gzip : Compressors]
Files == Bytes \union {[commit |-> None, gzip |-> None]}
Nothing == [commit |-> None, gzip |-> None]

Release ==
  [commit : Commits,
   phase : {"draft", "public", "deleted"},
   named : BOOLEAN,              \* FALSE while it has an untagged-* alias
   assets : [Assets -> Files]]

Pcs == {"idle", "queued", "tag", "list", "touch", "create", "rename",
        "prepared", "check", "discover", "submit", "stage", "recheck",
        "finalize", "confirm", "done"}

Run ==
  [pc : Pcs,
   kind : {"pipeline", "validation"},
   publish : BOOLEAN,
   round : {"native", "preflight", "publish"},
   commit : Commits \union {None},
   gzip : Compressors \union {None},
   id : Nat,                     \* the release record found or created
   draft : BOOLEAN,              \* whether it was a draft when it was read
   existing : SUBSET Packages,   \* found published before the first upload
   sent : SUBSET Packages,       \* uploaded by this run
   staged : SUBSET Assets]

Idle ==
  [pc |-> "idle", kind |-> "validation", publish |-> FALSE,
   round |-> "native", commit |-> None, gzip |-> None, id |-> 0,
   draft |-> FALSE, existing |-> {}, sent |-> {}, staged |-> {}]

TypeOK ==
  /\ job \in [Runners -> Run]
  /\ \A id \in DOMAIN releases : releases[id] \in Release
  /\ tag \in Commits \union {None}
  /\ registry \in [Packages -> Files]
  /\ visible \subseteq {p \in Packages : registry[p] # Nothing}
  /\ faults \in 0..MaxFaults /\ deletes \in 0..MaxDeletes
  /\ \A r \in Runners :
       job[r].pc \in {"touch", "rename", "prepared"} =>
         job[r].id \in DOMAIN releases

-----------------------------------------------------------------------------
(* What a run reads *)

Mine(r) == [commit |-> job[r].commit, gzip |-> job[r].gzip]

\* The records that use this version's tag.
Matching ==
  {id \in DOMAIN releases : releases[id].phase # "deleted" /\ releases[id].named}

There(id) == releases[id].phase # "deleted"

\* Every asset equals the file staged by this very run.
SameBytes(r, id) == \A a \in Assets : releases[id].assets[a] = Mine(r)

\* Every asset has this commit's contents, however it was packed.
SameContents(r, id) ==
  \A a \in Assets : releases[id].assets[a].commit = job[r].commit

\* Mutant of Conflict: whatever is published counts as identical.
AnyBytes(r) == FALSE

\* npm_exists raises: a published version has other contents.
Conflict(r) == \E p \in visible : registry[p].commit # job[r].commit

\* Mutant of Precedes: the manifest's own order.
ByManifest(p, q) == Position[p] < Position[q]

\* packages.sort: the launcher last, the others as in the manifest.
Precedes(p, q) ==
  \/ q = Root /\ p # Root
  \/ (p = Root <=> q = Root) /\ Position[p] < Position[q]

Missing(r) == Packages \ (job[r].existing \union job[r].sent)

\* gh finds a release by its tag: a public one first, else some draft.
UploadTargets ==
  LET public == {id \in Matching : releases[id].phase = "public"}
  IN  IF public # {} THEN public ELSE Matching

Goto(r, pc) == job' = [job EXCEPT ![r].pc = pc]

\* The run ends, and with it all it knew.
Stop(r) == job' = [job EXCEPT ![r] = Idle]

-----------------------------------------------------------------------------
(* Dispatching *)

Active(r) == job[r].pc # "idle"

\* Mutant of NativeFree: the workflow has no group.
NoGroup(r) == TRUE

\* Concurrency group release-bot-packages.
PackagesFree(r) ==
  \A o \in Runners \ {r} : Active(o) => job[o].kind # "pipeline"

\* Concurrency group release-bot-publication.
NativeFree(r) ==
  \A o \in Runners \ {r} :
    job[o].round = "native" => job[o].pc \in {"idle", "queued"}

Dispatch(r, kind, c, z, publish) ==
  /\ ~Active(r)
  /\ publish => kind = "pipeline"
  /\ kind = "pipeline" => PackagesFree(r)
  /\ job' = [job EXCEPT ![r] = [Idle EXCEPT !.pc = "queued", !.kind = kind,
                                  !.commit = c, !.gzip = z, !.publish = publish]]
  /\ UNCHANGED <<hub, npm, env>>

EnterNative(r) ==
  /\ job[r].pc = "queued"
  /\ NativeFree(r)
  /\ Goto(r, "tag")
  /\ UNCHANGED <<hub, npm, env>>

-----------------------------------------------------------------------------
(* GitHub.prepare *)

ReadTag(r) ==
  /\ job[r].pc = "tag"
  /\ IF tag \in {None, job[r].commit} THEN Goto(r, "list") ELSE Stop(r)
  /\ UNCHANGED <<hub, npm, env>>

\* A sole draft of this commit, or a public release whatever its commit.
Usable(r, id) == releases[id].phase = "draft" => releases[id].commit = job[r].commit

List(r) ==
  /\ job[r].pc = "list"
  /\ \/ Cardinality(Matching) > 1 /\ Stop(r)
     \/ Matching = {} /\ Goto(r, "create")
     \/ \E id \in Matching :
          /\ Matching = {id}
          /\ IF ~Usable(r, id) THEN Stop(r)
             ELSE job' = [job EXCEPT
                    ![r].id = id,
                    ![r].draft = releases[id].phase = "draft",
                    ![r].pc = IF releases[id].phase = "draft"
                              THEN "touch" ELSE "prepared"]
  /\ UNCHANGED <<hub, npm, env>>

\* The PATCH that proves write access also returns the record as it is now.
Touch(r) ==
  /\ job[r].pc = "touch"
  /\ IF There(job[r].id)
     THEN job' = [job EXCEPT ![r].pc = "prepared",
                    ![r].draft = releases[job[r].id].phase = "draft"]
     ELSE Stop(r)
  /\ UNCHANGED <<hub, npm, env>>

\* The record that GitHub's answer to the POST names.
NewId == Len(releases) + 1

\* GitHub may answer with an untagged-* alias, which Rename corrects.
Create(r, named) ==
  /\ job[r].pc = "create"
  /\ IF \E id \in Matching : releases[id].phase = "public"
     THEN Stop(r) /\ UNCHANGED releases
     ELSE /\ releases' = Append(releases,
                [commit |-> job[r].commit, phase |-> "draft", named |-> named,
                 assets |-> [a \in Assets |-> Nothing]])
          /\ job' = [job EXCEPT ![r].id = NewId, ![r].draft = TRUE,
                       ![r].pc = IF named THEN "prepared" ELSE "rename"]
  /\ UNCHANGED <<tag, npm, env>>

Rename(r) ==
  /\ job[r].pc = "rename"
  /\ LET id == job[r].id
     IN IF There(id)
        THEN /\ releases' = [releases EXCEPT ![id].named = TRUE]
             /\ Goto(r, "prepared")
        ELSE Stop(r) /\ UNCHANGED releases
  /\ UNCHANGED <<tag, npm, env>>

\* What follows a validation: the packages job, or nothing.
NativePassed(r) ==
  IF job[r].kind = "pipeline"
  THEN job' = [job EXCEPT ![r].pc = "check", ![r].round = "preflight"]
  ELSE Stop(r)

PreparedNative(r) ==
  /\ job[r].pc = "prepared" /\ job[r].round = "native"
  /\ IF job[r].draft THEN NativePassed(r) ELSE Goto(r, "confirm")
  /\ UNCHANGED <<hub, npm, env>>

-----------------------------------------------------------------------------
(* release_pipeline.run *)

CheckRegistry(r) ==
  /\ job[r].pc = "check"
  /\ IF Conflict(r) THEN Stop(r) ELSE Goto(r, "tag")
  /\ UNCHANGED <<hub, npm, env>>

\* A release that is already public is only verified, never written.
PreparedPackages(r) ==
  /\ job[r].pc = "prepared" /\ job[r].round # "native"
  /\ IF ~job[r].draft /\ ~SameContents(r, job[r].id) THEN Stop(r)
     ELSE CASE job[r].round = "publish" -> Goto(r, "discover")
            [] job[r].publish /\ job[r].round = "preflight" ->
                 job' = [job EXCEPT ![r].pc = "check", ![r].round = "publish"]
            [] OTHER -> Stop(r)
  /\ UNCHANGED <<hub, npm, env>>

\* Mutant of Existing: every package is uploaded again.
NothingYet == {}

\* The packages that need no upload.
Existing == visible

Discover(r) ==
  /\ job[r].pc = "discover"
  /\ IF Conflict(r) THEN Stop(r)
     ELSE job' = [job EXCEPT ![r].pc = "submit", ![r].existing = Existing]
  /\ UNCHANGED <<hub, npm, env>>

\* npm refuses a version it accepted before, visible or not.
Submit(r, p) ==
  /\ job[r].pc = "submit"
  /\ p \in Missing(r) /\ \A q \in Missing(r) \ {p} : Precedes(p, q)
  /\ IF registry[p] = Nothing
     THEN /\ registry' = [registry EXCEPT ![p] = Mine(r)]
          /\ job' = [job EXCEPT ![r].sent = @ \union {p}]
     ELSE Stop(r) /\ UNCHANGED registry
  /\ UNCHANGED <<hub, visible, env>>

\* Mutant of Verified: one package is enough.
SomeVisible == visible # {}

\* package_registry.run("verify") for every package.
Verified == visible = Packages

\* Mutant of AfterPackages: the files are uploaded whatever is there.
AlwaysStage(r) == "stage"

\* A release that was public when it was read is not written again.
AfterPackages(r) == IF job[r].draft THEN "stage" ELSE "confirm"

\* wait_visible succeeded; new uploads must be this run's very bytes.
Await(r) ==
  /\ job[r].pc = "submit" /\ Missing(r) = {}
  /\ Verified
  /\ IF \/ Conflict(r)
        \/ \E p \in job[r].sent : registry[p] # Mine(r)
     THEN Stop(r)
     ELSE Goto(r, AfterPackages(r))
  /\ UNCHANGED <<hub, npm, env>>

\* wait_visible ran out of its ten minutes.
GiveUp(r) ==
  /\ job[r].pc = "submit" /\ Missing(r) = {}
  /\ ~Verified
  /\ Stop(r)
  /\ UNCHANGED <<hub, npm, env>>

-----------------------------------------------------------------------------
(* GitHub.publish, with the record that prepare returned *)

Stage(r, a) ==
  /\ job[r].pc = "stage" /\ a \notin job[r].staged
  /\ \/ /\ UploadTargets = {}
        /\ Stop(r) /\ UNCHANGED releases
     \/ \E id \in UploadTargets :
          /\ releases' = [releases EXCEPT ![id].assets[a] = Mine(r)]
          /\ job' = [job EXCEPT ![r].staged = @ \union {a}]
  /\ UNCHANGED <<tag, npm, env>>

\* --clobber deletes the old asset first; the run ends before the upload.
Tear(r, a) ==
  /\ job[r].pc = "stage" /\ a \notin job[r].staged
  /\ faults < MaxFaults /\ faults' = faults + 1
  /\ \E id \in UploadTargets :
       releases' = [releases EXCEPT ![id].assets[a] = Nothing]
  /\ Stop(r)
  /\ UNCHANGED <<tag, npm, deletes>>

\* Mutant of Staged: the uploads are trusted.
Trusted(r) == There(job[r].id)

\* verify_assets: exactly the staged files, byte by byte.
Staged(r) == There(job[r].id) /\ SameBytes(r, job[r].id)

VerifyStaged(r) ==
  /\ job[r].pc = "stage" /\ job[r].staged = Assets
  /\ IF Staged(r) THEN Goto(r, "recheck") ELSE Stop(r)
  /\ UNCHANGED <<hub, npm, env>>

RecheckTag(r) ==
  /\ job[r].pc = "recheck"
  /\ IF tag \in {None, job[r].commit} THEN Goto(r, "finalize") ELSE Stop(r)
  /\ UNCHANGED <<hub, npm, env>>

\* GitHub creates the tag at the draft's commit unless there is one.
Finalize(r) ==
  /\ job[r].pc = "finalize"
  /\ LET id == job[r].id
     IN IF There(id)
        THEN /\ releases' = [releases EXCEPT ![id].phase = "public"]
             /\ tag' = IF tag = None THEN releases[id].commit ELSE tag
             /\ Goto(r, "confirm")
        ELSE Stop(r) /\ UNCHANGED hub
  /\ UNCHANGED <<npm, env>>

RightFiles(r) ==
  IF job[r].draft THEN SameBytes(r, job[r].id) ELSE SameContents(r, job[r].id)

\* Mutant of Published: the tag was checked before the release was public.
PublishedAnywhere(r) == RightFiles(r)

\* The release is public at the validated commit, with the right files.
Published(r) == tag = job[r].commit /\ RightFiles(r)

Confirm(r) ==
  /\ job[r].pc = "confirm"
  /\ CASE ~Published(r) -> Stop(r)
       [] Published(r) /\ job[r].round = "native" -> NativePassed(r)
       [] OTHER -> Goto(r, "done")
  /\ UNCHANGED <<hub, npm, env>>

Leave(r) ==
  /\ job[r].pc = "done"
  /\ Stop(r)
  /\ UNCHANGED <<hub, npm, env>>

-----------------------------------------------------------------------------
(* The world *)

\* A run is cancelled, times out, or fails for a reason of its own.
Cancel(r) ==
  /\ Active(r) /\ job[r].pc # "done"
  /\ faults < MaxFaults /\ faults' = faults + 1
  /\ Stop(r)
  /\ UNCHANGED <<hub, npm, deletes>>

\* npm's queue exposes an accepted package.
Appear(p) ==
  /\ registry[p] # Nothing /\ p \notin visible
  /\ visible' = visible \union {p}
  /\ UNCHANGED <<job, hub, registry, env>>

\* Somebody pushes the version's tag; a tag is never moved.
PushTag(c) ==
  /\ tag = None
  /\ tag' = c
  /\ UNCHANGED <<job, releases, npm, env>>

\* The operator disposes of a draft.
DeleteDraft(id) ==
  /\ releases[id].phase = "draft"
  /\ deletes < MaxDeletes /\ deletes' = deletes + 1
  /\ releases' = [releases EXCEPT ![id].phase = "deleted"]
  /\ UNCHANGED <<job, tag, npm, faults>>

-----------------------------------------------------------------------------

Init ==
  /\ job = [r \in Runners |-> Idle]
  /\ releases = <<>>
  /\ tag = None
  /\ registry = [p \in Packages |-> Nothing]
  /\ visible = {}
  /\ faults = 0 /\ deletes = 0

\* The steps of a run once it has its place.
Work(r) ==
  \/ ReadTag(r) \/ List(r) \/ Touch(r) \/ Rename(r)
  \/ \E named \in BOOLEAN : Create(r, named)
  \/ PreparedNative(r) \/ CheckRegistry(r) \/ PreparedPackages(r)
  \/ Discover(r) \/ Await(r) \/ \E p \in Packages : Submit(r, p)
  \/ VerifyStaged(r) \/ \E a \in Assets : Stage(r, a)
  \/ RecheckTag(r) \/ Finalize(r) \/ Confirm(r) \/ Leave(r)

Next ==
  \/ \E r \in Runners :
       \/ \E kind \in {"pipeline", "validation"}, publish \in BOOLEAN,
             c \in Commits, z \in Compressors : Dispatch(r, kind, c, z, publish)
       \/ EnterNative(r) \/ Work(r) \/ GiveUp(r) \/ Cancel(r)
       \/ \E a \in Assets : Tear(r, a)
  \/ \E p \in Packages : Appear(p)
  \/ \E c \in Commits : PushTag(c)
  \/ \E id \in DOMAIN releases : DeleteDraft(id)

Spec == Init /\ [][Next]_vars

\* Somebody goes on dispatching the pipeline for this commit.
Resume(c) ==
  \E r \in Runners, z \in Compressors : Dispatch(r, "pipeline", c, z, TRUE)

FairSpec ==
  /\ Spec
  /\ \A r \in Runners : WF_vars(Work(r)) /\ SF_vars(EnterNative(r))
  /\ \A p \in Packages : WF_vars(Appear(p))
  /\ \A c \in Commits : SF_vars(Resume(c))

-----------------------------------------------------------------------------
(* Properties *)

Public == {id \in DOMAIN releases : releases[id].phase = "public"}

\* The commits whose contents are in public hosted releases.
HostedCommits ==
  {releases[id].commit : id \in Public} \union
  {releases[id].assets[a].commit : id \in Public, a \in Assets}

\* The one commit hosted, or something that is no commit at all.
Hosted ==
  IF Public = {} THEN None
  ELSE IF Cardinality(HostedCommits) = 1
       THEN CHOOSE c \in HostedCommits : TRUE ELSE Nothing

Promise == INSTANCE Publication
  WITH npm <- [p \in Packages |-> registry[p].commit], hosted <- Hosted

\* However runs are cut short, repeated and dispatched for other commits, no
\* version mixes the contents of two commits, the launcher comes last, and
\* the hosted release becomes public once and only behind every package
\* (RELEASING.md:120-123, package_registry.py:95, release_pipeline.py:44; other
\* documents say otherwise: HostedFirst, AcceptedIsEnough).
PublicationSpec == Promise!Spec

\* A publishing run that reports success is right: the tag is its commit, the
\* hosted release is public with that commit's contents, and so are all the
\* packages (release.py:254-260).  The tag may be pushed while it works.
SuccessIsTrue ==
  \A r \in Runners : job[r].pc = "done" =>
    /\ tag = job[r].commit
    /\ \E id \in Public : SameContents(r, id)
    /\ visible = Packages
    /\ \A p \in Packages : registry[p].commit = job[r].commit

\* README ("native GitHub publication, followed automatically by all five npm
\* packages", README.md:298): npm accepts nothing before the hosted release is
\* public.
HostedFirst ==
  (\E p \in Packages : registry[p] # Nothing) => Public # {}

\* README ("Successful npm uploads do not wait for the public version index",
\* README.md:302) and package_registry.py:134 (visibility is "not used as a
\* release gate"): a run whose packages npm has accepted does not end before the
\* hosted release unless something else fails.
AcceptedIsEnough ==
  [][\A r \in Runners :
       /\ job[r].pc = "submit" /\ Missing(r) = {} /\ UNCHANGED faults
       /\ \A p \in Packages : registry[p].commit = job[r].commit
       => job'[r].pc # "idle"]_vars

\* While drafts are left alone, no two runs create a record for the same tag,
\* which every later run would refuse (release.py:181): the validation that
\* precedes each pipeline run makes the draft under its concurrency group.
OneRecordPerTag == MaxDeletes = 0 => Cardinality(Matching) <= 1

\* What is public is never written again: uploads go to a release by its tag,
\* with a record read before npm's long queue (RELEASING.md:125).
PublicUntouched ==
  [][\A id \in Public : releases'[id] = releases[id]]_vars

\* Once npm has accepted a package of a commit, going on dispatching the
\* pipeline for that commit completes the publication, unless the tag was
\* given to another commit (RELEASING.md:121).
PartialIsCompleted ==
  \A c \in Commits :
    (\E p \in Packages : registry[p].commit = c)
      ~> (Hosted = c \/ tag \notin {None, c})
=============================================================================
