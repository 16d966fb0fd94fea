------------------------ MODULE PublishPipeline_proofs ------------------------
(***************************************************************************)
(* Machine-checked proofs about PublishPipeline, for any number of runs,   *)
(* commits, packages and assets: it keeps the promise of Publication, a    *)
(* reported success is true, what is public is never written again, and no *)
(* two records are made for one tag.                                       *)
(***************************************************************************)
EXTENDS PublishPipeline, FiniteSetTheorems, TLAPS

\* Where a run holds a release record, and where it has published packages.
Holding == {"touch", "rename", "prepared", "discover", "submit", "stage",
            "recheck", "finalize"}
Closing == {"stage", "recheck", "finalize"}
Publishing == {"discover", "submit", "done"} \union Closing

Types ==
  /\ TypeOK
  /\ releases \in Seq(Release)

\* What a run's place says about the run.
Shape(r) ==
  /\ job[r].pc = "idle" => job[r] = Idle
  /\ job[r].pc = "queued" => job[r].round = "native" /\ ~job[r].draft
  /\ job[r].pc # "idle" => job[r].commit \in Commits /\ job[r].gzip \in Compressors
  /\ job[r].round # "native" => job[r].kind = "pipeline"
  /\ job[r].pc = "check" => job[r].round # "native"
  /\ job[r].pc \in Publishing => job[r].round = "publish"
  /\ job[r].pc = "confirm" => job[r].round # "preflight"
  /\ job[r].pc = "confirm" /\ job[r].round = "native" => ~job[r].draft
  /\ job[r].pc \in {"touch", "rename"} \union Closing => job[r].draft

\* The record a run holds: a draft of its own commit, or public since.
Record(r) ==
  /\ job[r].pc \in Holding \union {"confirm", "done"} => job[r].id \in DOMAIN releases
  /\ job[r].pc \in Holding \ {"rename"} => releases[job[r].id].named
  /\ job[r].pc \in Holding /\ job[r].draft => releases[job[r].id].commit = job[r].commit
  /\ job[r].pc \in Holding /\ ~job[r].draft => job[r].id \in Public
  /\ job[r].pc \in {"confirm", "done"} => job[r].id \in Public
  /\ job[r].pc \in {"recheck", "finalize"} => SameBytes(r, job[r].id)
  /\ job[r].pc = "done" => tag = job[r].commit /\ SameContents(r, job[r].id)

\* What a run knows of the registry.
Complete(c) == visible = Packages /\ \A p \in Packages : registry[p].commit = c
Packed(r) ==
  /\ \A p \in job[r].sent : registry[p].commit = job[r].commit
  /\ job[r].pc = "submit" => \A p \in job[r].existing : registry[p].commit = job[r].commit
  /\ job[r].pc \in Closing \union {"done"} => Complete(job[r].commit)
  /\ job[r].pc = "confirm" /\ job[r].round = "publish" => Complete(job[r].commit)

\* A pipeline run that read a draft is the only one to make anything public.
Owner(r) ==
  job[r].kind = "pipeline" /\ job[r].draft /\ job[r].pc \notin {"confirm", "done"} =>
    Public = {}

Exclusive ==
  \A r, o \in Runners : job[r].kind = "pipeline" /\ job[o].kind = "pipeline" => r = o

\* At most one record is public, under the tag, with one commit's contents.
Hosting ==
  /\ \A i, j \in Public : i = j
  /\ \A id \in Public : /\ releases[id].named
                        /\ \A a \in Assets : releases[id].assets[a].commit = releases[id].commit

\* The packages are accepted in their order.
Ordered ==
  \A p, q \in Packages : registry[p] # Nothing /\ Precedes(q, p) => registry[q] # Nothing

RunInv(r) == Shape(r) /\ Record(r) /\ Packed(r) /\ Owner(r)

IInv == Types /\ Exclusive /\ Hosting /\ Ordered /\ \A r \in Runners : RunInv(r)

\* One record under the tag, while drafts are left alone.
NativeBusy(r) == job[r].round = "native" /\ job[r].pc \notin {"idle", "queued"}
Single ==
  /\ \A id \in DOMAIN releases : releases[id].phase # "deleted"
  /\ \A i, j \in Matching : i = j
  /\ \A r \in Runners :
       /\ job[r].round # "native" => Matching # {}
       /\ job[r].pc \in {"create", "rename"} => job[r].round = "native" /\ Matching = {}
  /\ \A r, o \in Runners : NativeBusy(r) /\ NativeBusy(o) => r = o
SingleInv == MaxDeletes = 0 => Single

-----------------------------------------------------------------------------
(* Bytes, records and runs *)

LEMMA FilesAreBytes ==
  /\ Nothing \in Files /\ Nothing.commit = None
  /\ \A f \in Files : f.commit = None <=> f = Nothing
  /\ \A f \in Files : f # Nothing => f \in Bytes /\ f.commit \in Commits
BY ConstantsAssumption DEF Files, Bytes, Nothing

LEMMA MineIsBytes ==
  ASSUME NEW r \in Runners, Types, Shape(r), job[r].pc # "idle"
  PROVE  Mine(r) \in Bytes /\ Mine(r) \in Files /\ Mine(r) # Nothing /\ Mine(r).commit = job[r].commit
<1>1. Mine(r) \in Bytes /\ Mine(r).commit = job[r].commit
  BY DEF Shape, Mine, Bytes
<1> QED
  BY <1>1, ConstantsAssumption DEF Files, Bytes, Nothing

LEMMA ReleasesTyped ==
  ASSUME Types
  PROVE  /\ Len(releases) \in Nat /\ DOMAIN releases = 1 .. Len(releases)
         /\ \A id \in DOMAIN releases : releases[id] \in Release /\ id \in Nat
         /\ Public \subseteq DOMAIN releases /\ Matching \subseteq DOMAIN releases
BY DEF Types, Public, Matching

\* One record of the list is replaced.
LEMMA ReplaceRecord ==
  ASSUME Types, NEW id \in DOMAIN releases, NEW e \in Release,
         releases' = [releases EXCEPT ![id] = e]
  PROVE  /\ releases' \in Seq(Release) /\ DOMAIN releases' = DOMAIN releases
         /\ releases'[id] = e
         /\ \A o \in DOMAIN releases : o # id => releases'[o] = releases[o]
BY DEF Types

LEMMA AppendRecord ==
  ASSUME Types, NEW e \in Release, releases' = Append(releases, e)
  PROVE  /\ releases' \in Seq(Release)
         /\ NewId \in DOMAIN releases' /\ NewId \in Nat /\ NewId \notin DOMAIN releases
         /\ DOMAIN releases' = DOMAIN releases \union {NewId}
         /\ releases'[NewId] = e
         /\ \A o \in DOMAIN releases : releases'[o] = releases[o]
BY DEF Types, NewId

LEMMA RunnerTyped ==
  ASSUME Types, NEW r \in Runners
  PROVE  /\ job[r] \in Run /\ job \in [Runners -> Run]
         /\ job[r] = [job[r] EXCEPT !.pc = job[r].pc]
BY DEF Types, TypeOK, Run

\* A run changes its own entry only.
LEMMA RunMoves ==
  ASSUME Types, NEW r \in Runners, NEW new \in Run, job' = [job EXCEPT ![r] = new]
  PROVE  /\ job' \in [Runners -> Run] /\ job'[r] = new
         /\ \A o \in Runners : o # r => job'[o] = job[o]
BY DEF Types, TypeOK

LEMMA GotoMoves ==
  ASSUME Types, NEW r \in Runners, NEW x \in Pcs, Goto(r, x)
  PROVE  /\ job' \in [Runners -> Run] /\ job'[r] = [job[r] EXCEPT !.pc = x]
         /\ \A o \in Runners : o # r => job'[o] = job[o]
<1>1. [job[r] EXCEPT !.pc = x] \in Run /\ job' = [job EXCEPT ![r] = [job[r] EXCEPT !.pc = x]]
  BY DEF Types, TypeOK, Run, Goto
<1> QED
  BY <1>1, RunMoves

LEMMA StopMoves ==
  ASSUME Types, NEW r \in Runners, Stop(r)
  PROVE  /\ job' \in [Runners -> Run] /\ job'[r] = Idle
         /\ \A o \in Runners : o # r => job'[o] = job[o]
<1>1. Idle \in Run /\ job' = [job EXCEPT ![r] = Idle]
  BY DEF Idle, Run, Pcs, Stop
<1> QED
  BY <1>1, RunMoves

-----------------------------------------------------------------------------
(* What only grows *)

\* The steps of one run.
Acts(r) ==
  \/ \E kind \in {"pipeline", "validation"}, publish \in BOOLEAN,
        c \in Commits, z \in Compressors : Dispatch(r, kind, c, z, publish)
  \/ EnterNative(r) \/ Work(r) \/ GiveUp(r) \/ Cancel(r)
  \/ \E a \in Assets : Tear(r, a)

World ==
  \/ \E p \in Packages : Appear(p)
  \/ \E c \in Commits : PushTag(c)
  \/ \E id \in DOMAIN releases : DeleteDraft(id)

LEMMA NextIs == Next <=> (\E r \in Runners : Acts(r)) \/ World
BY DEF Next, Acts, World

\* The records of the tag from a step to the next.
RecordsGrow ==
  /\ releases' \in Seq(Release)
  /\ \A id \in DOMAIN releases :
       /\ id \in DOMAIN releases'
       /\ releases'[id].commit = releases[id].commit
       /\ releases[id].named => releases'[id].named
  /\ \A id \in Public : releases'[id] = releases[id]

LEMMA RecordsStay ==
  ASSUME Types, UNCHANGED releases
  PROVE  RecordsGrow
BY DEF Types, RecordsGrow

\* A record that is not public is replaced by one of the same commit.
LEMMA DraftReplaced ==
  ASSUME Types, NEW id \in DOMAIN releases, NEW e \in Release,
         releases' = [releases EXCEPT ![id] = e],
         id \in Public => e = releases[id],
         e.commit = releases[id].commit, releases[id].named => e.named
  PROVE  RecordsGrow
<1>1. /\ releases' \in Seq(Release) /\ DOMAIN releases' = DOMAIN releases
      /\ releases'[id] = e /\ \A o \in DOMAIN releases : o # id => releases'[o] = releases[o]
  BY ReplaceRecord
<1>2. Public \subseteq DOMAIN releases
  BY DEF Public
<1> QED
  BY <1>1, <1>2 DEF RecordsGrow

\* Uploads find no public record.
LEMMA UploadsToDrafts ==
  ASSUME IInv, NEW r \in Runners, job[r].pc = "stage", NEW id \in UploadTargets
  PROVE  id \in DOMAIN releases /\ id \notin Public
<1>1. RunInv(r) /\ Types
  BY DEF IInv
<1>2. job[r].kind = "pipeline" /\ job[r].draft
  BY <1>1 DEF RunInv, Shape, Closing, Publishing
<1>3. Public = {}
  BY <1>1, <1>2 DEF RunInv, Owner
<1>4. UploadTargets \subseteq Matching
  BY DEF UploadTargets
<1> QED
  BY <1>3, <1>4 DEF Matching

LEMMA CreateGrows ==
  ASSUME IInv, NEW r \in Runners, NEW named \in BOOLEAN, Create(r, named)
  PROVE  RecordsGrow
<1>1. Types /\ RunInv(r)
  BY DEF IInv
<1> DEFINE e == [commit |-> job[r].commit, phase |-> "draft", named |-> named,
                 assets |-> [a \in Assets |-> Nothing]]
<1>2. e \in Release
  <2>1. job[r].commit \in Commits
    BY <1>1 DEF Create, RunInv, Shape
  <2> QED
    BY <2>1, FilesAreBytes DEF Release
<1>3. CASE UNCHANGED releases
  BY <1>1, <1>3, RecordsStay
<1>4. CASE releases' = Append(releases, e)
  <2> HIDE DEF e
  <2>1. /\ releases' \in Seq(Release) /\ DOMAIN releases' = DOMAIN releases \union {NewId}
        /\ \A o \in DOMAIN releases : releases'[o] = releases[o]
    BY <1>1, <1>2, <1>4, AppendRecord
  <2>2. Public \subseteq DOMAIN releases
    BY DEF Public
  <2> QED
    BY <2>1, <2>2 DEF RecordsGrow
<1> QED
  BY <1>3, <1>4 DEF Create

LEMMA RenameGrows ==
  ASSUME IInv, NEW r \in Runners, Rename(r)
  PROVE  RecordsGrow
<1> DEFINE id == job[r].id
<1>1. Types /\ RunInv(r) /\ job[r].pc = "rename"
  BY DEF IInv, Rename
<1>2. id \in DOMAIN releases /\ releases[id] \in Release
  BY <1>1, ReleasesTyped DEF RunInv, Record, Holding
<1>3. CASE UNCHANGED releases
  BY <1>1, <1>3, RecordsStay
<1>4. CASE releases' = [releases EXCEPT ![id].named = TRUE]
  <2> DEFINE e == [releases[id] EXCEPT !.named = TRUE]
  <2>1. e \in Release /\ e.commit = releases[id].commit /\ e.named
    BY <1>2 DEF Release
  <2>2. id \in Public => e = releases[id]
    BY <1>2 DEF IInv, Hosting, Release
  <2>3. releases' = [releases EXCEPT ![id] = e]
    BY <1>4
  <2> HIDE DEF e, id
  <2> QED
    BY <1>1, <1>2, <2>1, <2>2, <2>3, DraftReplaced
<1> QED
  BY <1>3, <1>4 DEF Rename

LEMMA UploadGrows ==
  ASSUME IInv, NEW r \in Runners, job[r].pc = "stage", NEW id \in UploadTargets,
         NEW a \in Assets, NEW f \in Files,
         releases' = [releases EXCEPT ![id].assets[a] = f]
  PROVE  RecordsGrow
<1>1. Types
  BY DEF IInv
<1>2. id \in DOMAIN releases /\ id \notin Public /\ releases[id] \in Release
  BY <1>1, UploadsToDrafts, ReleasesTyped
<1> DEFINE e == [releases[id] EXCEPT !.assets[a] = f]
<1>3. e \in Release /\ e.commit = releases[id].commit /\ e.named = releases[id].named
  BY <1>2 DEF Release
<1>4. releases' = [releases EXCEPT ![id] = e]
  OBVIOUS
<1> HIDE DEF e
<1> QED
  BY <1>1, <1>2, <1>3, <1>4, DraftReplaced

LEMMA FinalizeGrows ==
  ASSUME IInv, NEW r \in Runners, Finalize(r)
  PROVE  RecordsGrow
<1> DEFINE id == job[r].id
<1>1. Types /\ RunInv(r) /\ job[r].pc = "finalize"
  BY DEF IInv, Finalize
<1>2. id \in DOMAIN releases /\ releases[id] \in Release
  BY <1>1, ReleasesTyped DEF RunInv, Record, Holding
<1>3. CASE UNCHANGED releases
  BY <1>1, <1>3, RecordsStay
<1>4. CASE releases' = [releases EXCEPT ![id].phase = "public"]
  <2> DEFINE e == [releases[id] EXCEPT !.phase = "public"]
  <2>1. e \in Release /\ e.commit = releases[id].commit /\ e.named = releases[id].named
    BY <1>2 DEF Release
  <2>2. id \in Public => e = releases[id]
    BY <1>2 DEF Public, Release
  <2>3. releases' = [releases EXCEPT ![id] = e]
    BY <1>4
  <2> HIDE DEF e, id
  <2> QED
    BY <1>1, <1>2, <2>1, <2>2, <2>3, DraftReplaced
<1> QED
  BY <1>3, <1>4 DEF Finalize, hub

LEMMA DeleteGrows ==
  ASSUME IInv, NEW id \in DOMAIN releases, DeleteDraft(id)
  PROVE  RecordsGrow
<1>1. Types /\ releases[id] \in Release
  BY ReleasesTyped DEF IInv
<1> DEFINE e == [releases[id] EXCEPT !.phase = "deleted"]
<1>2. e \in Release /\ e.commit = releases[id].commit /\ e.named = releases[id].named
  BY <1>1 DEF Release
<1>3. releases' = [releases EXCEPT ![id] = e] /\ id \notin Public
  BY DEF DeleteDraft, Public
<1> HIDE DEF e
<1> QED
  BY <1>1, <1>2, <1>3, DraftReplaced

LEMMA RecordsStep ==
  ASSUME IInv, [Next]_vars
  PROVE  RecordsGrow
<1>1. Types
  BY DEF IInv
<1>2. CASE UNCHANGED releases
  BY <1>1, <1>2, RecordsStay
<1>3. ASSUME NEW r \in Runners, Acts(r)
      PROVE  RecordsGrow
  <2>1. ASSUME NEW a \in Assets, Stage(r, a)
        PROVE  RecordsGrow
    <3>1. CASE UNCHANGED releases
      BY <1>2, <3>1
    <3>2. ASSUME NEW id \in UploadTargets, releases' = [releases EXCEPT ![id].assets[a] = Mine(r)]
          PROVE  RecordsGrow
      <4>1. job[r].pc = "stage" /\ Shape(r)
        BY <2>1 DEF Stage, IInv, RunInv
      <4>2. Mine(r) \in Files
        BY <1>1, <4>1, MineIsBytes
      <4> QED
        BY <3>2, <4>1, <4>2, UploadGrows
    <3> QED
      BY <2>1, <3>1, <3>2 DEF Stage
  <2>2. ASSUME NEW a \in Assets, Tear(r, a)
        PROVE  RecordsGrow
    <3>1. PICK id \in UploadTargets : releases' = [releases EXCEPT ![id].assets[a] = Nothing]
      BY <2>2 DEF Tear
    <3>2. job[r].pc = "stage"
      BY <2>2 DEF Tear
    <3> QED
      BY <3>1, <3>2, UploadGrows, FilesAreBytes
  <2> QED
    BY <1>2, <1>3, <2>1, <2>2, CreateGrows, RenameGrows, FinalizeGrows
    DEF Acts, Work, hub, Dispatch, EnterNative, GiveUp, Cancel, ReadTag, List, Touch,
        PreparedNative, CheckRegistry, PreparedPackages, Discover, Await, Submit, VerifyStaged,
        RecheckTag, Confirm, Leave
<1>4. CASE World
  BY <1>2, <1>4, DeleteGrows DEF World, Appear, PushTag, hub
<1> QED
  BY <1>2, <1>3, <1>4, NextIs DEF vars, hub

\* The registry, the public view of it and the tag.
RegistryGrow ==
  /\ registry' \in [Packages -> Files]
  /\ \A p \in Packages : registry[p] # Nothing => registry'[p] = registry[p]
  /\ visible \subseteq visible'
  /\ visible' \subseteq {p \in Packages : registry'[p] # Nothing}
  /\ tag' \in Commits \union {None}
  /\ tag # None => tag' = tag

LEMMA RegistryStep ==
  ASSUME IInv, [Next]_vars
  PROVE  RegistryGrow
<1>1. Types /\ registry \in [Packages -> Files] /\ tag \in Commits \union {None}
      /\ visible \subseteq {p \in Packages : registry[p] # Nothing}
  BY DEF IInv, Types, TypeOK
<1>2. CASE UNCHANGED <<registry, visible, tag>>
  BY <1>1, <1>2 DEF RegistryGrow
<1>3. ASSUME NEW r \in Runners, Acts(r)
      PROVE  RegistryGrow
  <2>1. ASSUME NEW p \in Packages, Submit(r, p), ~ UNCHANGED registry
        PROVE  RegistryGrow
    <3>1. registry[p] = Nothing /\ registry' = [registry EXCEPT ![p] = Mine(r)]
          /\ UNCHANGED <<visible, tag>> /\ job[r].pc = "submit" /\ Shape(r)
      BY <2>1 DEF Submit, hub, IInv, RunInv
    <3>2. Mine(r) \in Files /\ Mine(r) # Nothing
      BY <1>1, <3>1, MineIsBytes
    <3> QED
      BY <1>1, <3>1, <3>2 DEF RegistryGrow
  <2>2. ASSUME Finalize(r), ~ UNCHANGED tag
        PROVE  RegistryGrow
    <3>1. UNCHANGED <<registry, visible>> /\ job[r].pc = "finalize"
          /\ tag' = IF tag = None THEN releases[job[r].id].commit ELSE tag
      BY <2>2 DEF Finalize, npm, hub
    <3>2. releases[job[r].id].commit \in Commits
      <4>1. job[r].id \in DOMAIN releases
        BY <3>1 DEF IInv, RunInv, Record, Holding
      <4> QED
        BY <1>1, <4>1, ReleasesTyped DEF Release
    <3> QED
      BY <1>1, <3>1, <3>2 DEF RegistryGrow
  <2>3. \/ UNCHANGED <<registry, visible, tag>>
        \/ \E p \in Packages : Submit(r, p) /\ ~ UNCHANGED registry
        \/ Finalize(r) /\ ~ UNCHANGED tag
    BY <1>3 DEF Acts, Work, hub, npm, Dispatch, EnterNative, GiveUp, Cancel, ReadTag, List, Touch,
       Create, Rename, PreparedNative, CheckRegistry, PreparedPackages, Discover, Submit, Await,
       Stage, VerifyStaged, RecheckTag, Finalize, Confirm, Leave, Tear
  <2> QED
    BY <1>2, <2>1, <2>2, <2>3
<1>4. CASE World
  BY <1>1, <1>4 DEF World, Appear, PushTag, DeleteDraft, npm, hub, RegistryGrow
<1> QED
  BY <1>2, <1>3, <1>4, NextIs DEF vars, hub, npm

-----------------------------------------------------------------------------
(* A run's own step *)

Moves(r) ==
  /\ job' \in [Runners -> Run]
  /\ \A o \in Runners : o # r => job'[o] = job[o]

LEMMA DispatchMoves ==
  ASSUME Types, NEW r \in Runners, NEW kind \in {"pipeline", "validation"},
         NEW publish \in BOOLEAN, NEW c \in Commits, NEW z \in Compressors,
         Dispatch(r, kind, c, z, publish)
  PROVE  /\ Moves(r)
         /\ job'[r].pc = "queued" /\ job'[r].kind = kind /\ job'[r].round = "native"
         /\ job'[r].commit = c /\ job'[r].gzip = z /\ job'[r].sent = {} /\ ~ job'[r].draft
<1> DEFINE new == [Idle EXCEPT !.pc = "queued", !.kind = kind, !.commit = c,
                               !.gzip = z, !.publish = publish]
<1>1. new \in Run /\ job' = [job EXCEPT ![r] = new]
  BY DEF Dispatch, Idle, Run, Pcs
<1>2. Moves(r) /\ job'[r] = new
  <2> HIDE DEF new
  <2> QED
    BY <1>1, RunMoves DEF Moves
<1> QED
  BY <1>2 DEF Idle

LEMMA ListMoves ==
  ASSUME Types, NEW r \in Runners, List(r)
  PROVE  /\ Moves(r)
         /\ \/ job'[r] = Idle
            \/ Matching = {} /\ job'[r] = [job[r] EXCEPT !.pc = "create"]
            \/ \E id \in Matching :
                 /\ Matching = {id} /\ Usable(r, id)
                 /\ \/ /\ releases[id].phase = "draft"
                       /\ job'[r] = [job[r] EXCEPT !.id = id, !.draft = TRUE, !.pc = "touch"]
                    \/ /\ releases[id].phase # "draft"
                       /\ job'[r] = [job[r] EXCEPT !.id = id, !.draft = FALSE, !.pc = "prepared"]
<1>1. CASE Stop(r)
  BY <1>1, StopMoves DEF Moves
<1>2. CASE Matching = {} /\ Goto(r, "create")
  BY <1>2, GotoMoves DEF Moves, Pcs
<1>3. ASSUME NEW id \in Matching, Matching = {id}, Usable(r, id),
             job' = [job EXCEPT ![r].id = id, ![r].draft = releases[id].phase = "draft",
                       ![r].pc = IF releases[id].phase = "draft" THEN "touch" ELSE "prepared"]
      PROVE  /\ Moves(r)
             /\ \/ /\ releases[id].phase = "draft"
                   /\ job'[r] = [job[r] EXCEPT !.id = id, !.draft = TRUE, !.pc = "touch"]
                \/ /\ releases[id].phase # "draft"
                   /\ job'[r] = [job[r] EXCEPT !.id = id, !.draft = FALSE, !.pc = "prepared"]
  <2> DEFINE t == [job[r] EXCEPT !.id = id, !.draft = TRUE, !.pc = "touch"]
             p == [job[r] EXCEPT !.id = id, !.draft = FALSE, !.pc = "prepared"]
  <2>1. t \in Run /\ p \in Run
    BY ReleasesTyped, RunnerTyped DEF Run, Pcs
  <2>2. CASE releases[id].phase = "draft"
    <3>1. (releases[id].phase = "draft") = TRUE
      BY <2>2
    <3>2. job' = [job EXCEPT ![r] = t]
      BY <1>3, <2>2, <3>1
    <3>3. Moves(r) /\ job'[r] = t
      <4> HIDE DEF t, p
      <4> QED
        BY <2>1, <3>2, RunMoves DEF Moves
    <3> QED
      BY <2>2, <3>3
  <2>3. CASE releases[id].phase # "draft"
    <3>1. (releases[id].phase = "draft") = FALSE
      BY <2>3
    <3>2. job' = [job EXCEPT ![r] = p]
      BY <1>3, <2>3, <3>1
    <3>3. Moves(r) /\ job'[r] = p
      <4> HIDE DEF t, p
      <4> QED
        BY <2>1, <3>2, RunMoves DEF Moves
    <3> QED
      BY <2>3, <3>3
  <2> QED
    BY <2>2, <2>3
<1> QED
  BY <1>1, <1>2, <1>3 DEF List

LEMMA TouchMoves ==
  ASSUME Types, NEW r \in Runners, Touch(r)
  PROVE  /\ Moves(r)
         /\ \/ job'[r] = Idle
            \/ /\ There(job[r].id) /\ releases[job[r].id].phase = "draft"
               /\ job'[r] = [job[r] EXCEPT !.pc = "prepared", !.draft = TRUE]
            \/ /\ There(job[r].id) /\ releases[job[r].id].phase # "draft"
               /\ job'[r] = [job[r] EXCEPT !.pc = "prepared", !.draft = FALSE]
<1> DEFINE id == job[r].id
           t == [job[r] EXCEPT !.pc = "prepared", !.draft = TRUE]
           f == [job[r] EXCEPT !.pc = "prepared", !.draft = FALSE]
<1>1. CASE Stop(r)
  BY <1>1, StopMoves DEF Moves
<1>2. t \in Run /\ f \in Run
  BY RunnerTyped DEF Run, Pcs
<1>3. CASE /\ There(id)
           /\ job' = [job EXCEPT ![r].pc = "prepared", ![r].draft = releases[id].phase = "draft"]
  <2>1. CASE releases[id].phase = "draft"
    <3>1. (releases[id].phase = "draft") = TRUE
      BY <2>1
    <3>2. job' = [job EXCEPT ![r] = t]
      BY <1>3, <3>1
    <3> HIDE DEF t, f
    <3> QED
      BY <1>2, <1>3, <2>1, <3>2, RunMoves DEF Moves
  <2>2. CASE releases[id].phase # "draft"
    <3>1. (releases[id].phase = "draft") = FALSE
      BY <2>2
    <3>2. job' = [job EXCEPT ![r] = f]
      BY <1>3, <3>1
    <3> HIDE DEF t, f
    <3> QED
      BY <1>2, <1>3, <2>2, <3>2, RunMoves DEF Moves
  <2> QED
    BY <2>1, <2>2
<1> QED
  BY <1>1, <1>3 DEF Touch

LEMMA CreateMoves ==
  ASSUME Types, NEW r \in Runners, NEW named \in BOOLEAN, Create(r, named)
  PROVE  /\ Moves(r)
         /\ \/ job'[r] = Idle /\ UNCHANGED releases
            \/ /\ \A id \in Matching : releases[id].phase # "public"
               /\ releases' = Append(releases,
                    [commit |-> job[r].commit, phase |-> "draft", named |-> named,
                     assets |-> [a \in Assets |-> Nothing]])
               /\ \/ named /\ job'[r] = [job[r] EXCEPT !.id = NewId, !.draft = TRUE, !.pc = "prepared"]
                  \/ ~ named /\ job'[r] = [job[r] EXCEPT !.id = NewId, !.draft = TRUE, !.pc = "rename"]
<1>1. CASE \E id \in Matching : releases[id].phase = "public"
  BY <1>1, StopMoves DEF Create, Moves
<1>2. CASE ~ \E id \in Matching : releases[id].phase = "public"
  <2> DEFINE x == IF named THEN "prepared" ELSE "rename"
             n == [job[r] EXCEPT !.id = NewId, !.draft = TRUE, !.pc = x]
  <2>1. NewId \in Nat
    BY ReleasesTyped DEF NewId
  <2>2. n \in Run
    BY <2>1, RunnerTyped DEF Run, Pcs
  <2>3. job' = [job EXCEPT ![r] = n]
    BY <1>2 DEF Create
  <2>4. Moves(r) /\ job'[r] = n
    <3> HIDE DEF n
    <3> QED
      BY <2>2, <2>3, RunMoves DEF Moves
  <2> QED
    BY <1>2, <2>4 DEF Create
<1> QED
  BY <1>1, <1>2

\* A run at a place and all that it remembers there.
Same(r) ==
  /\ job'[r].kind = job[r].kind /\ job'[r].round = job[r].round
  /\ job'[r].commit = job[r].commit /\ job'[r].gzip = job[r].gzip
  /\ job'[r].publish = job[r].publish
Remembers(r) ==
  /\ Same(r)
  /\ job'[r].id = job[r].id /\ job'[r].draft = job[r].draft
  /\ job'[r].existing = job[r].existing /\ job'[r].sent = job[r].sent
  /\ job'[r].staged = job[r].staged

LEMMA GotoFields ==
  ASSUME Types, NEW r \in Runners, NEW x \in Pcs, Goto(r, x)
  PROVE  Moves(r) /\ job'[r].pc = x /\ Remembers(r)
<1>1. Moves(r) /\ job'[r] = [job[r] EXCEPT !.pc = x]
  BY GotoMoves DEF Moves
<1>2. job[r] \in Run
  BY RunnerTyped
<1> QED
  BY <1>1, <1>2 DEF Run, Remembers, Same

LEMMA StopFields ==
  ASSUME Types, NEW r \in Runners, Stop(r)
  PROVE  Moves(r) /\ job'[r] = Idle
BY StopMoves DEF Moves

-----------------------------------------------------------------------------
(* How the hosted records change *)

\* Some run makes its record public.
Publishes(o) ==
  /\ job[o].pc = "finalize" /\ Goto(o, "confirm") /\ There(job[o].id)
  /\ releases' = [releases EXCEPT ![job[o].id].phase = "public"]

LEMMA AssetsStep ==
  ASSUME IInv, [Next]_vars
  PROVE  \/ \E o \in Runners : job[o].pc = "stage"
         \/ \A id \in DOMAIN releases : releases'[id].assets = releases[id].assets
<1>1. Types
  BY DEF IInv
<1>2. CASE UNCHANGED releases
  BY <1>2
<1>3. ASSUME NEW r \in Runners, Acts(r), ~ UNCHANGED releases, job[r].pc # "stage"
      PROVE  \A id \in DOMAIN releases : releases'[id].assets = releases[id].assets
  <2>1. ASSUME NEW named \in BOOLEAN, Create(r, named)
        PROVE  \A id \in DOMAIN releases : releases'[id].assets = releases[id].assets
    BY <1>1, <1>3, <2>1 DEF Create, Types
  <2>2. CASE Rename(r)
    BY <1>1, <1>3, <2>2, ReleasesTyped DEF Rename, Release, Types
  <2>3. CASE Finalize(r)
    BY <1>1, <1>3, <2>3, ReleasesTyped DEF Finalize, hub, Release, Types
  <2> QED
    BY <1>3, <2>1, <2>2, <2>3
    DEF Acts, Work, hub, Dispatch, EnterNative, GiveUp, Cancel, ReadTag, List, Touch,
        PreparedNative, CheckRegistry, PreparedPackages, Discover, Await, Submit, Stage,
        VerifyStaged, RecheckTag, Confirm, Leave, Tear
<1>4. ASSUME NEW d \in DOMAIN releases, DeleteDraft(d)
      PROVE  \A id \in DOMAIN releases : releases'[id].assets = releases[id].assets
  BY <1>1, <1>4, ReleasesTyped DEF DeleteDraft, Release, Types
<1>5. CASE World
  BY <1>2, <1>4, <1>5 DEF World, Appear, PushTag, hub
<1> QED
  BY <1>2, <1>3, <1>5, NextIs DEF vars, hub

LEMMA PublicStep ==
  ASSUME IInv, [Next]_vars
  PROVE  Public' = Public \/ \E o \in Runners : Publishes(o)
<1>1. Types
  BY DEF IInv
<1> DEFINE Kept == \A id : id \in Public' <=> id \in Public
<1>2. CASE UNCHANGED releases
  BY <1>2 DEF Public
<1>3. ASSUME NEW r \in Runners, Acts(r), ~ UNCHANGED releases, ~ Publishes(r)
      PROVE  Kept
  <2>1. ASSUME NEW named \in BOOLEAN, Create(r, named)
        PROVE  Kept
    <3> DEFINE e == [commit |-> job[r].commit, phase |-> "draft", named |-> named,
                     assets |-> [a \in Assets |-> Nothing]]
    <3>1. releases' = Append(releases, e) /\ e.phase = "draft"
      BY <1>3, <2>1 DEF Create
    <3>2. DOMAIN releases' = DOMAIN releases \union {NewId} /\ NewId \notin DOMAIN releases
          /\ releases'[NewId] = e /\ \A o \in DOMAIN releases : releases'[o] = releases[o]
      <4> HIDE DEF e
      <4> QED
        BY <1>1, <3>1 DEF Types, NewId
    <3> HIDE DEF e
    <3> QED
      BY <3>1, <3>2 DEF Public
  <2>2. CASE Rename(r)
    BY <1>1, <1>3, <2>2, ReleasesTyped DEF Rename, Release, Types, Public
  <2>3. ASSUME NEW a \in Assets, Stage(r, a) \/ Tear(r, a)
        PROVE  Kept
    <3>1. PICK id \in UploadTargets, f \in {Mine(r), Nothing} :
            releases' = [releases EXCEPT ![id].assets[a] = f]
      BY <1>3, <2>3 DEF Stage, Tear
    <3>2. id \in DOMAIN releases
      BY DEF UploadTargets, Matching
    <3> QED
      BY <1>1, <3>1, <3>2, ReleasesTyped DEF Release, Public
  <2>4. ~ Finalize(r)
    BY <1>3 DEF Finalize, Publishes, hub
  <2> QED
    BY <1>3, <2>1, <2>2, <2>3, <2>4
    DEF Acts, Work, hub, Dispatch, EnterNative, GiveUp, Cancel, ReadTag, List, Touch,
        PreparedNative, CheckRegistry, PreparedPackages, Discover, Await, Submit,
        VerifyStaged, RecheckTag, Confirm, Leave
<1>4. ASSUME NEW d \in DOMAIN releases, DeleteDraft(d)
      PROVE  Kept
  BY <1>1, <1>4, ReleasesTyped DEF DeleteDraft, Release, Types, Public
<1>5. CASE World
  BY <1>2, <1>4, <1>5 DEF World, Appear, PushTag, hub
<1>6. Kept => Public' = Public
  <2>1. Kept => Public' \subseteq Public /\ Public \subseteq Public'
    OBVIOUS
  <2> QED
    BY <2>1
<1> QED
  BY <1>2, <1>3, <1>5, <1>6, NextIs DEF vars, hub

LEMMA PublishesOne ==
  ASSUME IInv, NEW o \in Runners, Publishes(o)
  PROVE  /\ Public = {} /\ Public' = {job[o].id} /\ job[o].id \in DOMAIN releases
         /\ job[o].kind = "pipeline" /\ job'[o].pc = "confirm" /\ Remembers(o)
         /\ releases'[job[o].id] = [releases[job[o].id] EXCEPT !.phase = "public"]
<1>1. Types /\ RunInv(o) /\ job[o].pc = "finalize"
  BY DEF IInv, Publishes
<1>2. job[o].kind = "pipeline" /\ job[o].draft
  BY <1>1 DEF RunInv, Shape, Closing, Publishing
<1>3. Public = {} /\ job[o].id \in DOMAIN releases
  BY <1>1, <1>2 DEF RunInv, Owner, Record, Holding
<1>4. job'[o].pc = "confirm" /\ Remembers(o)
  BY <1>1, GotoFields DEF Publishes, Pcs
<1>5. releases[job[o].id] \in Release
  BY <1>1, <1>3, ReleasesTyped
<1>6. /\ DOMAIN releases' = DOMAIN releases
      /\ releases'[job[o].id] = [releases[job[o].id] EXCEPT !.phase = "public"]
      /\ \A id \in DOMAIN releases : id # job[o].id => releases'[id] = releases[id]
  BY <1>1, <1>3 DEF Publishes, Types
<1>7. releases'[job[o].id].phase = "public"
  BY <1>5, <1>6 DEF Release
<1>8. \A id : id \in Public' <=> id = job[o].id
  BY <1>3, <1>6, <1>7 DEF Public
<1>9. Public' = {job[o].id}
  BY <1>8
<1> QED
  BY <1>2, <1>3, <1>4, <1>6, <1>9

-----------------------------------------------------------------------------
(* What a run knows survives the steps of the others *)

LEMMA HeldStays ==
  ASSUME IInv, [Next]_vars, NEW id \in DOMAIN releases
  PROVE  /\ id \in DOMAIN releases' /\ releases'[id].commit = releases[id].commit
         /\ releases[id].named => releases'[id].named
         /\ id \in Public => id \in Public' /\ releases'[id] = releases[id]
<1>1. RecordsGrow
  BY RecordsStep
<1> QED
  BY <1>1 DEF RecordsGrow, Public

LEMMA CompleteStays ==
  ASSUME IInv, [Next]_vars, NEW c, Complete(c)
  PROVE  Complete(c)'
<1>1. RegistryGrow /\ Types
  BY RegistryStep DEF IInv
<1>2. \A p \in Packages : registry[p] # Nothing
  BY DEF Complete, IInv, Types, TypeOK
<1>3. visible' \subseteq Packages
  BY <1>1 DEF RegistryGrow
<1>4. visible' = Packages /\ \A p \in Packages : registry'[p].commit = c
  BY <1>1, <1>2, <1>3 DEF RegistryGrow, Complete
<1> QED
  BY <1>4 DEF Complete

LEMMA ContentsStay ==
  ASSUME IInv, [Next]_vars, NEW p \in Packages, NEW c \in Commits, registry[p].commit = c
  PROVE  registry'[p].commit = c
<1>1. registry[p] # Nothing
  BY ConstantsAssumption DEF Nothing
<1> QED
  BY <1>1, RegistryStep DEF RegistryGrow

\* An idle run knows nothing.
LEMMA IdleKnows ==
  ASSUME NEW r \in Runners, job'[r] = Idle
  PROVE  RunInv(r)'
<1>1. /\ job'[r].pc = "idle" /\ job'[r].round = "native" /\ job'[r].kind = "validation"
      /\ ~ job'[r].draft /\ job'[r].sent = {}
  BY DEF Idle
<1>2. Shape(r)'
  BY <1>1 DEF Shape, Publishing, Closing
<1>3. Record(r)'
  BY <1>1 DEF Record, Holding
<1>4. Packed(r)'
  BY <1>1 DEF Packed, Closing
<1>5. Owner(r)'
  BY <1>1 DEF Owner
<1> QED
  BY <1>2, <1>3, <1>4, <1>5 DEF RunInv

\* The part of a run's knowledge that needs only what the run remembers.
LEMMA PackedStays ==
  ASSUME IInv, [Next]_vars, NEW r \in Runners, job'[r].commit = job[r].commit,
         job'[r].sent = job[r].sent
  PROVE  \A p \in job'[r].sent : registry'[p].commit = job'[r].commit
<1>1. job[r] \in Run /\ Shape(r) /\ Packed(r)
  BY RunnerTyped DEF IInv, RunInv
<1>2. CASE job[r].pc = "idle"
  BY <1>1, <1>2 DEF Shape, Idle
<1>3. CASE job[r].pc # "idle"
  <2>1. job[r].commit \in Commits /\ job[r].sent \subseteq Packages
    BY <1>1, <1>3 DEF Shape, Run
  <2>2. \A p \in job[r].sent : registry[p].commit = job[r].commit
    BY <1>1 DEF Packed
  <2> QED
    BY <2>1, <2>2, ContentsStay
<1> QED
  BY <1>2, <1>3

LEMMA OwnerStays ==
  ASSUME IInv, [Next]_vars, NEW r \in Runners, job[r].kind = "pipeline", Public = {},
         job'[r].pc # "confirm"
  PROVE  Public' = {}
<1>1. ASSUME NEW o \in Runners, Publishes(o)
      PROVE  FALSE
  <2>1. job[o].kind = "pipeline" /\ job'[o].pc = "confirm"
    BY <1>1, PublishesOne
  <2>2. o = r
    BY <2>1 DEF IInv, Exclusive
  <2> QED
    BY <2>1, <2>2
<1> QED
  BY <1>1, PublicStep

LEMMA OthersKnow ==
  ASSUME IInv, [Next]_vars, NEW r \in Runners, job'[r] = job[r]
  PROVE  RunInv(r)'
<1>0. Types /\ Shape(r) /\ Record(r) /\ Packed(r) /\ Owner(r) /\ job[r] \in Run
  BY RunnerTyped DEF IInv, RunInv
<1>1. Shape(r)'
  BY <1>0 DEF Shape
<1>2. Record(r)'
  <2> DEFINE id == job[r].id
  <2>1. job[r].pc \in Holding \union {"confirm", "done"} =>
          /\ id \in DOMAIN releases /\ id \in DOMAIN releases'
          /\ releases'[id].commit = releases[id].commit
          /\ releases[id].named => releases'[id].named
          /\ id \in Public => id \in Public' /\ releases'[id] = releases[id]
    BY <1>0, HeldStays DEF Record
  <2>2. job[r].pc \in {"recheck", "finalize"} => releases'[id].assets = releases[id].assets
    <3>1. SUFFICES ASSUME job[r].pc \in {"recheck", "finalize"}, NEW o \in Runners,
                          job[o].pc = "stage"
                   PROVE  FALSE
      BY <2>1, AssetsStep DEF Holding
    <3>2. job[r].kind = "pipeline" /\ job[o].kind = "pipeline"
      BY <1>0, <3>1 DEF IInv, RunInv, Shape, Publishing, Closing
    <3>3. r = o
      BY <3>2 DEF IInv, Exclusive
    <3> QED
      BY <3>1, <3>3
  <2>3. job[r].pc \in {"recheck", "finalize"} => SameBytes(r, id)'
    BY <1>0, <2>2 DEF Record, SameBytes, Mine
  <2>4. job[r].pc = "done" => tag' = job[r].commit /\ SameContents(r, id)'
    <3>1. SUFFICES ASSUME job[r].pc = "done"
                   PROVE  tag' = job[r].commit /\ SameContents(r, id)'
      OBVIOUS
    <3>2. tag = job[r].commit /\ tag # None
      BY <1>0, <3>1, ConstantsAssumption DEF Record, Shape
    <3>3. tag' = tag
      BY <3>2, RegistryStep DEF RegistryGrow
    <3> QED
      BY <1>0, <2>1, <3>1, <3>2, <3>3 DEF Record, SameContents
  <2> HIDE DEF id
  <2>5. /\ job[r].pc \in Holding \ {"rename"} => releases'[id].named
        /\ job[r].pc \in Holding /\ job[r].draft => releases'[id].commit = job[r].commit
        /\ job[r].pc \in Holding /\ ~job[r].draft => id \in Public'
        /\ job[r].pc \in {"confirm", "done"} => id \in Public'
    BY <1>0, <2>1 DEF Record, id
  <2> QED
    BY <2>1, <2>3, <2>4, <2>5 DEF Record, id
<1>3. Packed(r)'
  <2>1. \A p \in job'[r].sent : registry'[p].commit = job'[r].commit
    BY PackedStays
  <2>2. job[r].pc = "submit" => \A p \in job[r].existing : registry'[p].commit = job[r].commit
    BY <1>0, ContentsStay DEF Packed, Run, Shape
  <2> QED
    BY <1>0, <2>1, <2>2, CompleteStays DEF Packed
<1>4. Owner(r)'
  BY <1>0, OwnerStays DEF Owner
<1> QED
  BY <1>1, <1>2, <1>3, <1>4 DEF RunInv

-----------------------------------------------------------------------------
(* What a run knows after a step of its own *)

\* Nothing but the run's own entry changes.
Quiet == UNCHANGED <<releases, tag, registry, visible>>

\* Early steps: the run goes to a place where it holds nothing.
LEMMA OnTheWay ==
  ASSUME IInv, NEW r \in Runners, job[r].pc # "idle", Quiet, Same(r),
         job'[r].draft = job[r].draft, job'[r].sent = job[r].sent,
         job'[r].pc \in {"tag", "list", "create"}, job[r].pc \notin {"confirm", "done"}
  PROVE  RunInv(r)'
<1>0. Shape(r) /\ Packed(r) /\ Owner(r)
  BY DEF IInv, RunInv
<1>1. Shape(r)'
  BY <1>0 DEF Shape, Same, Publishing, Closing
<1>2. Record(r)'
  BY DEF Record, Holding
<1>3. Packed(r)'
  BY <1>0 DEF Packed, Same, Closing, Quiet
<1>4. Owner(r)'
  BY <1>0 DEF Owner, Same, Quiet, Public
<1> QED
  BY <1>1, <1>2, <1>3, <1>4 DEF RunInv

LEMMA DispatchKnows ==
  ASSUME IInv, NEW r \in Runners, NEW kind \in {"pipeline", "validation"},
         NEW publish \in BOOLEAN, NEW c \in Commits, NEW z \in Compressors,
         Dispatch(r, kind, c, z, publish)
  PROVE  RunInv(r)'
<1>1. /\ job'[r].pc = "queued" /\ job'[r].round = "native" /\ ~ job'[r].draft
      /\ job'[r].commit = c /\ job'[r].gzip = z /\ job'[r].sent = {}
  <2>1. Types
    BY DEF IInv
  <2> QED
    BY <2>1, DispatchMoves
<1>2. Shape(r)'
  BY <1>1 DEF Shape, Publishing, Closing
<1>3. Record(r)' /\ Packed(r)' /\ Owner(r)'
  BY <1>1 DEF Record, Packed, Owner, Holding, Closing
<1> QED
  BY <1>2, <1>3 DEF RunInv

LEMMA EarlyKnows ==
  ASSUME IInv, NEW r \in Runners, EnterNative(r) \/ ReadTag(r) \/ CheckRegistry(r)
  PROVE  RunInv(r)'
<1>1. Types
  BY DEF IInv
<1>2. Quiet /\ job[r].pc \in {"queued", "tag", "check"}
      /\ (Stop(r) \/ Goto(r, "tag") \/ Goto(r, "list"))
  BY DEF EnterNative, ReadTag, CheckRegistry, Quiet, hub, npm
<1>3. CASE Stop(r)
  BY <1>1, <1>3, StopFields, IdleKnows
<1>4. ASSUME NEW x \in {"tag", "list"}, Goto(r, x)
      PROVE  RunInv(r)'
  <2>1. job'[r].pc = x /\ Remembers(r)
    BY <1>1, <1>4, GotoFields DEF Pcs
  <2> QED
    BY <1>2, <2>1, OnTheWay DEF Remembers
<1> QED
  BY <1>2, <1>3, <1>4

LEMMA ListKnows ==
  ASSUME IInv, NEW r \in Runners, List(r)
  PROVE  RunInv(r)'
<1>0. Types /\ Shape(r) /\ Packed(r) /\ Owner(r) /\ job[r] \in Run
  BY RunnerTyped DEF IInv, RunInv
<1>1. Quiet /\ job[r].pc = "list"
  BY DEF List, Quiet, hub, npm
<1>2. CASE job'[r] = Idle
  BY <1>2, IdleKnows
<1>3. CASE job'[r] = [job[r] EXCEPT !.pc = "create"]
  <2>1. job'[r].pc = "create" /\ Same(r) /\ job'[r].draft = job[r].draft /\ job'[r].sent = job[r].sent
    BY <1>0, <1>3 DEF Run, Same
  <2> QED
    BY <1>1, <2>1, OnTheWay
<1>4. ASSUME NEW id \in Matching, Matching = {id}, Usable(r, id),
             \/ /\ releases[id].phase = "draft"
                /\ job'[r] = [job[r] EXCEPT !.id = id, !.draft = TRUE, !.pc = "touch"]
             \/ /\ releases[id].phase # "draft"
                /\ job'[r] = [job[r] EXCEPT !.id = id, !.draft = FALSE, !.pc = "prepared"]
      PROVE  RunInv(r)'
  <2>1. id \in DOMAIN releases /\ releases[id] \in Release /\ releases[id].named
        /\ releases[id].phase # "deleted"
    BY <1>0, ReleasesTyped DEF Matching
  <2>2. /\ job'[r].id = id /\ Same(r) /\ job'[r].sent = job[r].sent
        /\ \/ releases[id].phase = "draft" /\ job'[r].draft /\ job'[r].pc = "touch"
           \/ releases[id].phase # "draft" /\ ~ job'[r].draft /\ job'[r].pc = "prepared"
    BY <1>0, <1>4 DEF Run, Same
  <2>3. Shape(r)'
    BY <1>0, <1>1, <2>2 DEF Shape, Same, Publishing, Closing
  <2>4. Public' = Public
    BY <1>1 DEF Quiet, Public
  <2>5. Record(r)'
    <3>1. releases[id].phase # "draft" => id \in Public
      BY <2>1 DEF Release, Public
    <3>2. releases[id].phase = "draft" => releases[id].commit = job[r].commit
      BY <1>4 DEF Usable
    <3> QED
      BY <1>1, <2>1, <2>2, <2>4, <3>1, <3>2 DEF Record, Quiet, Same, Holding
  <2>6. Packed(r)'
    BY <1>0, <1>1, <2>2 DEF Packed, Quiet, Same, Closing
  <2>7. releases[id].phase = "draft" => Public = {}
    <3>1. Public \subseteq Matching
      BY DEF Public, Matching, IInv, Hosting
    <3> QED
      BY <1>4, <3>1 DEF Public
  <2>8. Owner(r)'
    BY <2>2, <2>4, <2>7 DEF Owner
  <2> QED
    BY <2>3, <2>5, <2>6, <2>8 DEF RunInv
<1> QED
  BY <1>0, <1>2, <1>3, <1>4, ListMoves

LEMMA TouchKnows ==
  ASSUME IInv, NEW r \in Runners, Touch(r)
  PROVE  RunInv(r)'
<1> DEFINE id == job[r].id
<1>0. Types /\ Shape(r) /\ Record(r) /\ Packed(r) /\ Owner(r) /\ job[r] \in Run
  BY RunnerTyped DEF IInv, RunInv
<1>1. Quiet /\ job[r].pc = "touch" /\ Public' = Public
  BY DEF Touch, Quiet, hub, npm, Public
<1>2. id \in DOMAIN releases /\ releases[id].named /\ releases[id].commit = job[r].commit
      /\ releases[id] \in Release /\ job[r].draft
  BY <1>0, <1>1, ReleasesTyped DEF Record, Shape, Holding
<1>3. CASE job'[r] = Idle
  BY <1>3, IdleKnows
<1>4. CASE /\ There(id)
           /\ \/ /\ releases[id].phase = "draft"
                 /\ job'[r] = [job[r] EXCEPT !.pc = "prepared", !.draft = TRUE]
              \/ /\ releases[id].phase # "draft"
                 /\ job'[r] = [job[r] EXCEPT !.pc = "prepared", !.draft = FALSE]
  <2>1. /\ job'[r].id = id /\ Same(r) /\ job'[r].sent = job[r].sent /\ job'[r].pc = "prepared"
        /\ releases[id].phase = "draft" \/ ~ job'[r].draft
        /\ releases[id].phase # "draft" \/ job'[r].draft
    BY <1>0, <1>4 DEF Run, Same
  <2>2. releases[id].phase # "draft" => id \in Public
    BY <1>2, <1>4 DEF There, Release, Public
  <2> HIDE DEF id
  <2>3. Shape(r)'
    BY <1>0, <1>1, <2>1 DEF Shape, Same, Publishing, Closing
  <2>4. Record(r)'
    BY <1>1, <1>2, <2>1, <2>2 DEF Record, Quiet, Same, Holding
  <2>5. Packed(r)'
    BY <1>0, <1>1, <2>1 DEF Packed, Quiet, Same, Closing
  <2>6. Owner(r)'
    BY <1>0, <1>1, <1>2, <2>1 DEF Owner, Same
  <2> QED
    BY <2>3, <2>4, <2>5, <2>6 DEF RunInv
<1> QED
  BY <1>0, <1>3, <1>4, TouchMoves

LEMMA CreateKnows ==
  ASSUME IInv, NEW r \in Runners, NEW named \in BOOLEAN, Create(r, named)
  PROVE  RunInv(r)'
<1> DEFINE e == [commit |-> job[r].commit, phase |-> "draft", named |-> named,
                 assets |-> [a \in Assets |-> Nothing]]
<1>0. Types /\ Shape(r) /\ Packed(r) /\ Owner(r) /\ job[r] \in Run
  BY RunnerTyped DEF IInv, RunInv
<1>1. UNCHANGED <<tag, registry, visible>> /\ job[r].pc = "create"
  BY DEF Create, npm
<1>2. CASE job'[r] = Idle
  BY <1>2, IdleKnows
<1>3. CASE /\ \A id \in Matching : releases[id].phase # "public"
           /\ releases' = Append(releases, e)
           /\ \/ named /\ job'[r] = [job[r] EXCEPT !.id = NewId, !.draft = TRUE, !.pc = "prepared"]
              \/ ~ named /\ job'[r] = [job[r] EXCEPT !.id = NewId, !.draft = TRUE, !.pc = "rename"]
  <2>1. /\ job'[r].id = NewId /\ Same(r) /\ job'[r].sent = job[r].sent /\ job'[r].draft
        /\ (named /\ job'[r].pc = "prepared") \/ (~ named /\ job'[r].pc = "rename")
    <3>1. CASE named /\ job'[r] = [job[r] EXCEPT !.id = NewId, !.draft = TRUE, !.pc = "prepared"]
      <4>1. job'[r] = [job[r] EXCEPT !.id = NewId, !.draft = TRUE, !.pc = "prepared"]
        BY <3>1
      <4>2. /\ job'[r].id = NewId /\ Same(r) /\ job'[r].sent = job[r].sent /\ job'[r].draft
            /\ job'[r].pc = "prepared"
        BY <1>0, <4>1 DEF Run, Same
      <4> QED
        BY <3>1, <4>2
    <3>2. CASE ~ named /\ job'[r] = [job[r] EXCEPT !.id = NewId, !.draft = TRUE, !.pc = "rename"]
      BY <1>0, <3>2 DEF Run, Same
    <3> QED
      BY <1>3, <3>1, <3>2
  <2>2. /\ NewId \in DOMAIN releases' /\ releases'[NewId] = e
        /\ DOMAIN releases' = DOMAIN releases \union {NewId}
        /\ \A o \in DOMAIN releases : releases'[o] = releases[o]
    <3>1. e \in Release
      BY <1>0, <1>1, FilesAreBytes DEF Release, Shape
    <3>2. releases' = Append(releases, e)
      BY <1>3
    <3> HIDE DEF e
    <3> QED
      BY <1>0, <3>1, <3>2, AppendRecord
  <2>3. e.commit = job[r].commit /\ e.phase = "draft" /\ e.named = named
    OBVIOUS
  <2> HIDE DEF e
  <2>4. Public' = {}
    <3>1. Public = {}
      BY <1>3 DEF Public, Matching, IInv, Hosting
    <3> QED
      BY <2>2, <2>3, <3>1 DEF Public
  <2>5. Shape(r)'
    BY <1>0, <1>1, <2>1 DEF Shape, Same, Publishing, Closing
  <2>6. Record(r)'
    BY <2>1, <2>2, <2>3 DEF Record, Same, Holding
  <2>7. Packed(r)'
    BY <1>0, <1>1, <2>1 DEF Packed, Same, Closing
  <2>8. Owner(r)'
    BY <2>4 DEF Owner
  <2> QED
    BY <2>5, <2>6, <2>7, <2>8 DEF RunInv
<1> QED
  BY <1>0, <1>2, <1>3, CreateMoves

LEMMA RenameKnows ==
  ASSUME IInv, NEW r \in Runners, Rename(r)
  PROVE  RunInv(r)'
<1> DEFINE id == job[r].id
<1>0. Types /\ Shape(r) /\ Record(r) /\ Packed(r) /\ Owner(r) /\ job[r] \in Run
  BY RunnerTyped DEF IInv, RunInv
<1>1. UNCHANGED <<tag, registry, visible>> /\ job[r].pc = "rename"
  BY DEF Rename, npm
<1>2. id \in DOMAIN releases /\ releases[id].commit = job[r].commit
      /\ releases[id] \in Release /\ job[r].draft
  BY <1>0, <1>1, ReleasesTyped DEF Record, Shape, Holding
<1>3. CASE Stop(r)
  BY <1>0, <1>3, StopFields, IdleKnows
<1>4. CASE releases' = [releases EXCEPT ![id].named = TRUE] /\ Goto(r, "prepared")
  <2>1. job'[r].pc = "prepared" /\ Remembers(r)
    BY <1>0, <1>4, GotoFields DEF Pcs
  <2>2. /\ DOMAIN releases' = DOMAIN releases
        /\ releases'[id] = [releases[id] EXCEPT !.named = TRUE]
        /\ \A o \in DOMAIN releases : o # id => releases'[o] = releases[o]
    BY <1>0, <1>2, <1>4 DEF Types
  <2>3. releases'[id].named /\ releases'[id].commit = releases[id].commit
        /\ releases'[id].phase = releases[id].phase
    BY <1>2, <2>2 DEF Release
  <2> HIDE DEF id
  <2>4. Shape(r)'
    BY <1>0, <1>1, <2>1 DEF Shape, Remembers, Same, Publishing, Closing
  <2>5. Record(r)'
    BY <1>2, <2>1, <2>2, <2>3 DEF Record, Remembers, Same, Holding, id
  <2>6. Packed(r)'
    BY <1>0, <1>1, <2>1 DEF Packed, Remembers, Same, Closing
  <2>7. Public = {} => Public' = {}
    <3>1. \A o \in DOMAIN releases : releases'[o].phase = releases[o].phase
      BY <2>2, <2>3
    <3> QED
      BY <2>2, <3>1 DEF Public
  <2>8. Owner(r)'
    BY <1>0, <1>1, <2>1, <2>7 DEF Owner, Remembers, Same
  <2> QED
    BY <2>4, <2>5, <2>6, <2>8 DEF RunInv
<1> QED
  BY <1>3, <1>4 DEF Rename

\* A step from a place where the run holds its record to another such place.
LEMMA HoldingOn ==
  ASSUME IInv, NEW r \in Runners, Quiet, Remembers(r), job[r].pc \in Holding \ {"touch", "rename"},
         job'[r].pc \in Holding \ {"touch", "rename"},
         job'[r].pc \in {"recheck", "finalize"} => SameBytes(r, job[r].id)
  PROVE  Record(r)'
<1>0. Types /\ Record(r) /\ Mine(r)' = Mine(r)
  BY DEF IInv, RunInv, Mine, Remembers, Same
<1>1. Public' = Public /\ releases' = releases /\ tag' = tag
  BY DEF Quiet, Public
<1>2. job'[r].id = job[r].id /\ job'[r].draft = job[r].draft /\ job'[r].commit = job[r].commit
  BY DEF Remembers, Same
<1>3. SameBytes(r, job[r].id) => SameBytes(r, job[r].id)'
  BY <1>0, <1>1, <1>2 DEF SameBytes
<1> QED
  BY <1>0, <1>1, <1>2, <1>3 DEF Record, Holding

LEMMA PreparedKnows ==
  ASSUME IInv, NEW r \in Runners, PreparedNative(r) \/ PreparedPackages(r)
  PROVE  RunInv(r)'
<1>0. Types /\ Shape(r) /\ Record(r) /\ Packed(r) /\ Owner(r) /\ job[r] \in Run
  BY RunnerTyped DEF IInv, RunInv
<1>1. Quiet /\ job[r].pc = "prepared" /\ Public' = Public
  BY DEF PreparedNative, PreparedPackages, Quiet, hub, npm, Public
<1>2. CASE Stop(r)
  BY <1>0, <1>2, StopFields, IdleKnows
<1>3. ASSUME NEW round \in {"preflight", "publish"}, job[r].kind = "pipeline",
             job' = [job EXCEPT ![r].pc = "check", ![r].round = round]
      PROVE  RunInv(r)'
  <2>1. /\ job'[r].pc = "check" /\ job'[r].round = round /\ job'[r].kind = "pipeline"
        /\ job'[r].commit = job[r].commit /\ job'[r].gzip = job[r].gzip
        /\ job'[r].draft = job[r].draft /\ job'[r].sent = job[r].sent
    BY <1>0, <1>3 DEF Run, Types, TypeOK
  <2>2. Shape(r)'
    BY <1>0, <1>1, <2>1 DEF Shape, Publishing, Closing
  <2>3. Record(r)'
    BY <2>1 DEF Record, Holding
  <2>4. Packed(r)'
    BY <1>0, <1>1, <2>1 DEF Packed, Closing, Quiet
  <2>5. Owner(r)'
    BY <1>0, <1>1, <1>3, <2>1 DEF Owner
  <2> QED
    BY <2>2, <2>3, <2>4, <2>5 DEF RunInv
<1>4. CASE job[r].round = "native" /\ ~ job[r].draft /\ Goto(r, "confirm")
  <2>1. job'[r].pc = "confirm" /\ Remembers(r)
    BY <1>0, <1>4, GotoFields DEF Pcs
  <2>2. job[r].id \in Public
    BY <1>0, <1>1, <1>4 DEF Record, Holding
  <2>3. Shape(r)'
    BY <1>0, <1>1, <1>4, <2>1 DEF Shape, Remembers, Same, Publishing, Closing
  <2>4. Record(r)'
    BY <1>1, <2>1, <2>2 DEF Record, Remembers, Same, Holding, Quiet, Public
  <2>5. Packed(r)'
    BY <1>0, <1>1, <1>4, <2>1 DEF Packed, Remembers, Same, Closing, Quiet
  <2>6. Owner(r)'
    BY <2>1 DEF Owner
  <2> QED
    BY <2>3, <2>4, <2>5, <2>6 DEF RunInv
<1>5. CASE job[r].round = "publish" /\ Goto(r, "discover")
  <2>1. job'[r].pc = "discover" /\ Remembers(r)
    BY <1>0, <1>5, GotoFields DEF Pcs
  <2>2. Shape(r)'
    BY <1>0, <1>1, <1>5, <2>1 DEF Shape, Remembers, Same, Publishing, Closing
  <2>3. Record(r)'
    BY <1>1, <2>1, HoldingOn DEF Holding
  <2>4. Packed(r)'
    BY <1>0, <1>1, <2>1 DEF Packed, Remembers, Same, Closing, Quiet
  <2>5. Owner(r)'
    BY <1>0, <1>1, <2>1 DEF Owner, Remembers, Same
  <2> QED
    BY <2>2, <2>3, <2>4, <2>5 DEF RunInv
<1>6. CASE PreparedNative(r)
  BY <1>2, <1>3, <1>4, <1>6 DEF PreparedNative, NativePassed
<1>7. CASE PreparedPackages(r)
  <2>1. job[r].kind = "pipeline"
    BY <1>0, <1>7 DEF PreparedPackages, Shape
  <2> QED
    BY <1>2, <1>3, <1>5, <1>7, <2>1 DEF PreparedPackages
<1> QED
  BY <1>6, <1>7

LEMMA DiscoverKnows ==
  ASSUME IInv, NEW r \in Runners, Discover(r)
  PROVE  RunInv(r)'
<1>0. Types /\ Shape(r) /\ Record(r) /\ Packed(r) /\ Owner(r) /\ job[r] \in Run
  BY RunnerTyped DEF IInv, RunInv
<1>1. Quiet /\ job[r].pc = "discover" /\ Public' = Public
  BY DEF Discover, Quiet, hub, npm, Public
<1>2. CASE Stop(r)
  BY <1>0, <1>2, StopFields, IdleKnows
<1>3. CASE ~ Conflict(r) /\ job' = [job EXCEPT ![r].pc = "submit", ![r].existing = Existing]
  <2>1. /\ job'[r].pc = "submit" /\ Same(r) /\ job'[r].existing = visible
        /\ job'[r].draft = job[r].draft /\ job'[r].sent = job[r].sent /\ job'[r].id = job[r].id
    BY <1>0, <1>3 DEF Run, Types, TypeOK, Existing, Same
  <2>2. Shape(r)'
    BY <1>0, <1>1, <2>1 DEF Shape, Same, Publishing, Closing
  <2>3. Record(r)'
    BY <1>0, <1>1, <2>1 DEF Record, Same, Holding, Quiet
  <2>4. \A p \in visible : registry[p].commit = job[r].commit
    BY <1>3 DEF Conflict
  <2>5. Packed(r)'
    BY <1>0, <1>1, <2>1, <2>4 DEF Packed, Same, Closing, Quiet
  <2>6. Owner(r)'
    BY <1>0, <1>1, <2>1 DEF Owner, Same
  <2> QED
    BY <2>2, <2>3, <2>5, <2>6 DEF RunInv
<1> QED
  BY <1>2, <1>3 DEF Discover

LEMMA SubmitKnows ==
  ASSUME IInv, NEW r \in Runners, NEW p \in Packages, Submit(r, p)
  PROVE  RunInv(r)'
<1>0. Types /\ Shape(r) /\ Record(r) /\ Packed(r) /\ Owner(r) /\ job[r] \in Run
  BY RunnerTyped DEF IInv, RunInv
<1>1. UNCHANGED <<releases, tag, visible>> /\ job[r].pc = "submit" /\ Public' = Public
  BY DEF Submit, hub, Public
<1>2. CASE Stop(r)
  BY <1>0, <1>2, StopFields, IdleKnows
<1>3. CASE registry' = [registry EXCEPT ![p] = Mine(r)] /\ registry[p] = Nothing
           /\ job' = [job EXCEPT ![r].sent = @ \union {p}]
  <2>1. /\ job'[r].pc = "submit" /\ Same(r) /\ job'[r].existing = job[r].existing
        /\ job'[r].draft = job[r].draft /\ job'[r].id = job[r].id
        /\ job'[r].sent = job[r].sent \union {p}
    BY <1>0, <1>1, <1>3 DEF Run, Types, TypeOK, Same
  <2>2. Shape(r)'
    BY <1>0, <1>1, <2>1 DEF Shape, Same, Publishing, Closing
  <2>3. Record(r)'
    BY <1>0, <1>1, <2>1 DEF Record, Same, Holding
  <2>4. Packed(r)'
    <3>1. job[r].existing \subseteq Packages /\ job[r].sent \subseteq Packages
          /\ registry \in [Packages -> Files]
      BY <1>0 DEF Run, Types, TypeOK
    <3>2. Mine(r).commit = job[r].commit
      BY DEF Mine
    <3>3. \A q \in Packages : registry[q].commit = job[r].commit => registry'[q].commit = job[r].commit
      BY <1>3, <3>1, <3>2
    <3>4. registry'[p].commit = job[r].commit
      BY <1>3, <3>1, <3>2
    <3> QED
      BY <1>0, <1>1, <2>1, <3>1, <3>3, <3>4 DEF Packed, Same, Closing
  <2>5. Owner(r)'
    BY <1>0, <1>1, <2>1 DEF Owner, Same
  <2> QED
    BY <2>2, <2>3, <2>4, <2>5 DEF RunInv
<1> QED
  BY <1>2, <1>3 DEF Submit

LEMMA AwaitKnows ==
  ASSUME IInv, NEW r \in Runners, Await(r)
  PROVE  RunInv(r)'
<1>0. Types /\ Shape(r) /\ Record(r) /\ Packed(r) /\ Owner(r) /\ job[r] \in Run
  BY RunnerTyped DEF IInv, RunInv
<1>1. Quiet /\ job[r].pc = "submit" /\ Public' = Public
  BY DEF Await, Quiet, hub, npm, Public
<1>2. CASE Stop(r)
  BY <1>0, <1>2, StopFields, IdleKnows
<1>3. ASSUME ~ Conflict(r), NEW x \in {"stage", "confirm"}, x = AfterPackages(r), Goto(r, x)
      PROVE  RunInv(r)'
  <2>1. job'[r].pc = x /\ Remembers(r)
    BY <1>0, <1>3, GotoFields DEF Pcs
  <2>2. (x = "stage" /\ job[r].draft) \/ (x = "confirm" /\ ~ job[r].draft)
    BY <1>3 DEF AfterPackages
  <2>3. Complete(job[r].commit)'
    BY <1>1, <1>3, <2>1 DEF Await, Verified, Conflict, Complete, Quiet, Remembers, Same
  <2>4. Shape(r)'
    BY <1>0, <1>1, <2>1, <2>2 DEF Shape, Remembers, Same, Publishing, Closing
  <2>5. Record(r)'
    <3>1. CASE x = "stage"
      BY <1>1, <2>1, <3>1, HoldingOn DEF Holding
    <3>2. CASE x = "confirm"
      <4>1. job[r].id \in Public
        BY <1>0, <1>1, <2>2, <3>2 DEF Record, Holding
      <4> QED
        BY <1>1, <2>1, <3>2, <4>1 DEF Record, Remembers, Same, Holding, Quiet, Public
    <3> QED
      BY <3>1, <3>2
  <2>6. Packed(r)'
    BY <1>0, <1>1, <2>1, <2>3 DEF Packed, Remembers, Same, Closing, Quiet
  <2>7. Owner(r)'
    BY <1>0, <1>1, <2>1 DEF Owner, Remembers, Same
  <2> QED
    BY <2>4, <2>5, <2>6, <2>7 DEF RunInv
<1> QED
  BY <1>2, <1>3 DEF Await, AfterPackages

LEMMA StageKnows ==
  ASSUME IInv, [Next]_vars, NEW r \in Runners, NEW a \in Assets, Stage(r, a)
  PROVE  RunInv(r)'
<1> DEFINE id == job[r].id
<1>0. Types /\ Shape(r) /\ Record(r) /\ Packed(r) /\ Owner(r) /\ job[r] \in Run
  BY RunnerTyped DEF IInv, RunInv
<1>1. UNCHANGED <<tag, registry, visible>> /\ job[r].pc = "stage" /\ job[r].kind = "pipeline"
  BY <1>0 DEF Stage, npm, Shape, Publishing, Closing
<1>2. CASE Stop(r)
  BY <1>0, <1>2, StopFields, IdleKnows
<1>3. CASE job' = [job EXCEPT ![r].staged = @ \union {a}]
  <2>1. /\ job'[r].pc = "stage" /\ Same(r) /\ job'[r].draft = job[r].draft
        /\ job'[r].id = id /\ job'[r].sent = job[r].sent
    BY <1>0, <1>1, <1>3 DEF Run, Types, TypeOK, Same
  <2>2. id \in DOMAIN releases /\ releases[id].named /\ releases[id].commit = job[r].commit
        /\ job[r].draft
    BY <1>0, <1>1 DEF Record, Shape, Holding, Closing
  <2> HIDE DEF id
  <2>3. Shape(r)'
    BY <1>0, <1>1, <2>1 DEF Shape, Same, Publishing, Closing
  <2>4. Record(r)'
    BY <2>1, <2>2, HeldStays DEF Record, Same, Holding
  <2>5. Packed(r)'
    BY <1>0, <1>1, <2>1 DEF Packed, Same, Closing, Complete
  <2>6. Owner(r)'
    BY <1>0, <1>1, <2>1, <2>2, OwnerStays DEF Owner
  <2> QED
    BY <2>3, <2>4, <2>5, <2>6 DEF RunInv
<1> QED
  BY <1>2, <1>3 DEF Stage

LEMMA StagedKnows ==
  ASSUME IInv, NEW r \in Runners, VerifyStaged(r) \/ RecheckTag(r)
  PROVE  RunInv(r)'
<1>0. Types /\ Shape(r) /\ Record(r) /\ Packed(r) /\ Owner(r) /\ job[r] \in Run
  BY RunnerTyped DEF IInv, RunInv
<1>1. Quiet /\ job[r].pc \in {"stage", "recheck"} /\ Public' = Public
  BY DEF VerifyStaged, RecheckTag, Quiet, hub, npm, Public
<1>2. CASE Stop(r)
  BY <1>0, <1>2, StopFields, IdleKnows
<1>3. ASSUME NEW x \in {"recheck", "finalize"}, Goto(r, x), SameBytes(r, job[r].id)
      PROVE  RunInv(r)'
  <2>1. job'[r].pc = x /\ Remembers(r)
    BY <1>0, <1>3, GotoFields DEF Pcs
  <2>2. Shape(r)'
    BY <1>0, <1>1, <2>1 DEF Shape, Remembers, Same, Publishing, Closing
  <2>3. Record(r)'
    BY <1>1, <1>3, <2>1, HoldingOn DEF Holding
  <2>4. Packed(r)'
    BY <1>0, <1>1, <2>1 DEF Packed, Remembers, Same, Closing, Quiet, Complete
  <2>5. Owner(r)'
    BY <1>0, <1>1, <2>1 DEF Owner, Remembers, Same
  <2> QED
    BY <2>2, <2>3, <2>4, <2>5 DEF RunInv
<1>4. CASE VerifyStaged(r)
  BY <1>2, <1>3, <1>4 DEF VerifyStaged, Staged
<1>5. CASE RecheckTag(r)
  BY <1>0, <1>2, <1>3, <1>5 DEF RecheckTag, Record
<1> QED
  BY <1>4, <1>5

LEMMA FinalizeKnows ==
  ASSUME IInv, NEW r \in Runners, Finalize(r)
  PROVE  RunInv(r)'
<1>0. Types /\ Shape(r) /\ Record(r) /\ Packed(r) /\ job[r] \in Run
  BY RunnerTyped DEF IInv, RunInv
<1>1. CASE Stop(r)
  BY <1>0, <1>1, StopFields, IdleKnows
<1>2. CASE Publishes(r)
  <2>1. /\ Public' = {job[r].id} /\ job'[r].pc = "confirm" /\ Remembers(r)
        /\ job[r].pc = "finalize" /\ UNCHANGED <<registry, visible>>
    BY <1>2, PublishesOne DEF Publishes, Finalize, npm
  <2>2. Shape(r)'
    BY <1>0, <2>1 DEF Shape, Remembers, Same, Publishing, Closing
  <2>3. Record(r)'
    <3>1. job[r].id \in DOMAIN releases'
      BY <2>1 DEF Public
    <3> QED
      BY <2>1, <3>1 DEF Record, Remembers, Holding
  <2>4. Packed(r)'
    BY <1>0, <2>1 DEF Packed, Remembers, Same, Closing, Complete
  <2>5. Owner(r)'
    BY <2>1 DEF Owner
  <2> QED
    BY <2>2, <2>3, <2>4, <2>5 DEF RunInv
<1> QED
  BY <1>1, <1>2 DEF Finalize, Publishes

LEMMA ConfirmKnows ==
  ASSUME IInv, NEW r \in Runners, Confirm(r)
  PROVE  RunInv(r)'
<1>0. Types /\ Shape(r) /\ Record(r) /\ Packed(r) /\ Owner(r) /\ job[r] \in Run
  BY RunnerTyped DEF IInv, RunInv
<1>1. Quiet /\ job[r].pc = "confirm" /\ Public' = Public
  BY DEF Confirm, Quiet, hub, npm, Public
<1>2. CASE Stop(r)
  BY <1>0, <1>2, StopFields, IdleKnows
<1>3. CASE job[r].round # "native" /\ Published(r) /\ Goto(r, "done")
  <2>1. job'[r].pc = "done" /\ Remembers(r)
    BY <1>0, <1>3, GotoFields DEF Pcs
  <2>2. job[r].round = "publish"
    BY <1>0, <1>1, <1>3 DEF Shape, Run
  <2>3. tag = job[r].commit /\ SameContents(r, job[r].id)
    BY <1>3 DEF Published, RightFiles, SameBytes, SameContents, Mine
  <2>4. Shape(r)'
    BY <1>0, <1>1, <2>1, <2>2 DEF Shape, Remembers, Same, Publishing, Closing
  <2>5. Record(r)'
    BY <1>0, <1>1, <2>1, <2>3 DEF Record, Remembers, Same, Holding, Quiet, SameContents
  <2>6. Packed(r)'
    BY <1>0, <1>1, <2>1, <2>2 DEF Packed, Remembers, Same, Closing, Quiet, Complete
  <2>7. Owner(r)'
    BY <2>1 DEF Owner
  <2> QED
    BY <2>4, <2>5, <2>6, <2>7 DEF RunInv
<1>4. CASE /\ job[r].round = "native" /\ job[r].kind = "pipeline"
           /\ job' = [job EXCEPT ![r].pc = "check", ![r].round = "preflight"]
  <2>1. /\ job'[r].pc = "check" /\ job'[r].round = "preflight" /\ job'[r].kind = "pipeline"
        /\ job'[r].commit = job[r].commit /\ job'[r].gzip = job[r].gzip
        /\ job'[r].draft = job[r].draft /\ job'[r].sent = job[r].sent
    BY <1>0, <1>4 DEF Run, Types, TypeOK
  <2>2. Shape(r)'
    BY <1>0, <1>1, <2>1 DEF Shape, Publishing, Closing
  <2>3. Record(r)'
    BY <2>1 DEF Record, Holding
  <2>4. Packed(r)'
    BY <1>0, <1>1, <2>1 DEF Packed, Closing, Quiet
  <2>5. Owner(r)'
    BY <1>0, <1>1, <1>4, <2>1 DEF Owner, Shape
  <2> QED
    BY <2>2, <2>3, <2>4, <2>5 DEF RunInv
<1> QED
  BY <1>2, <1>3, <1>4 DEF Confirm, NativePassed

-----------------------------------------------------------------------------
(* The invariant is kept *)

\* A run other than a new pipeline keeps its kind or ends.
Kept(r) == job'[r].kind \in {job[r].kind, "validation"} \/ PackagesFree(r)

LEMMA GotoOrStop ==
  ASSUME Types, NEW r \in Runners, Stop(r) \/ \E x \in Pcs : Goto(r, x)
  PROVE  Moves(r) /\ Kept(r)
<1>1. CASE Stop(r)
  BY <1>1, StopFields DEF Kept, Idle
<1>2. ASSUME NEW x \in Pcs, Goto(r, x)
      PROVE  Moves(r) /\ Kept(r)
  BY <1>2, GotoFields DEF Kept, Remembers, Same
<1> QED
  BY <1>1, <1>2

LEMMA NewRound ==
  ASSUME Types, NEW r \in Runners, NEW round \in {"preflight", "publish"},
         job' = [job EXCEPT ![r].pc = "check", ![r].round = round]
  PROVE  Moves(r) /\ Kept(r)
<1> DEFINE new == [job[r] EXCEPT !.pc = "check", !.round = round]
<1>1. new \in Run /\ new.kind = job[r].kind
  BY RunnerTyped DEF Run, Pcs
<1>2. job' = [job EXCEPT ![r] = new]
  OBVIOUS
<1> HIDE DEF new
<1> QED
  BY <1>1, <1>2, RunMoves DEF Moves, Kept

LEMMA ActsMoves ==
  ASSUME IInv, NEW r \in Runners, Acts(r)
  PROVE  Moves(r) /\ Kept(r)
<1>0. Types /\ job[r] \in Run
  BY RunnerTyped DEF IInv
<1>1. CASE \/ EnterNative(r) \/ ReadTag(r) \/ Rename(r) \/ CheckRegistry(r) \/ Await(r)
           \/ GiveUp(r) \/ VerifyStaged(r) \/ RecheckTag(r) \/ Finalize(r) \/ Leave(r)
           \/ Cancel(r) \/ \E a \in Assets : Tear(r, a)
  <2>1. Stop(r) \/ \E x \in Pcs : Goto(r, x)
    BY <1>1 DEF EnterNative, ReadTag, Rename, CheckRegistry, Await, AfterPackages, GiveUp,
       VerifyStaged, RecheckTag, Finalize, Leave, Cancel, Tear, Pcs
  <2> QED
    BY <1>0, <2>1, GotoOrStop
<1>2. CASE PreparedNative(r) \/ PreparedPackages(r) \/ Confirm(r)
  <2>1. \/ Stop(r) \/ \E x \in Pcs : Goto(r, x)
        \/ \E round \in {"preflight", "publish"} :
             job' = [job EXCEPT ![r].pc = "check", ![r].round = round]
    BY <1>2 DEF PreparedNative, PreparedPackages, Confirm, NativePassed, Pcs
  <2> QED
    BY <1>0, <2>1, GotoOrStop, NewRound
<1>3. ASSUME NEW kind \in {"pipeline", "validation"}, NEW publish \in BOOLEAN,
             NEW c \in Commits, NEW z \in Compressors, Dispatch(r, kind, c, z, publish)
      PROVE  Moves(r) /\ Kept(r)
  BY <1>0, <1>3, DispatchMoves DEF Dispatch, Kept
<1>4. CASE List(r)
  <2>1. Moves(r) /\ (job'[r] = Idle \/ Same(r))
    BY <1>0, <1>4, ListMoves DEF Run, Same
  <2> QED
    BY <2>1 DEF Kept, Idle, Same
<1>5. CASE Touch(r)
  <2>1. Moves(r) /\ (job'[r] = Idle \/ Same(r))
    BY <1>0, <1>5, TouchMoves DEF Run, Same
  <2> QED
    BY <2>1 DEF Kept, Idle, Same
<1>6. ASSUME NEW named \in BOOLEAN, Create(r, named)
      PROVE  Moves(r) /\ Kept(r)
  <2>1. Moves(r) /\ (job'[r] = Idle \/ Same(r))
    BY <1>0, <1>6, CreateMoves DEF Run, Same
  <2> QED
    BY <2>1 DEF Kept, Idle, Same
<1>7. CASE Discover(r)
  <2>1. CASE job' = [job EXCEPT ![r].pc = "submit", ![r].existing = Existing]
    <3> DEFINE new == [job[r] EXCEPT !.pc = "submit", !.existing = Existing]
    <3>1. new \in Run /\ new.kind = job[r].kind
      BY <1>0 DEF Run, Pcs, Existing, Types, TypeOK
    <3>2. job' = [job EXCEPT ![r] = new]
      BY <2>1
    <3> HIDE DEF new
    <3> QED
      BY <1>0, <3>1, <3>2, RunMoves DEF Moves, Kept
  <2> QED
    BY <1>0, <1>7, <2>1, GotoOrStop DEF Discover
<1>8. ASSUME NEW p \in Packages, Submit(r, p)
      PROVE  Moves(r) /\ Kept(r)
  <2>1. CASE job' = [job EXCEPT ![r].sent = @ \union {p}]
    <3> DEFINE new == [job[r] EXCEPT !.sent = @ \union {p}]
    <3>1. new \in Run /\ new.kind = job[r].kind
      BY <1>0 DEF Run
    <3>2. job' = [job EXCEPT ![r] = new]
      BY <2>1
    <3> HIDE DEF new
    <3> QED
      BY <1>0, <3>1, <3>2, RunMoves DEF Moves, Kept
  <2> QED
    BY <1>0, <1>8, <2>1, GotoOrStop DEF Submit
<1>9. ASSUME NEW a \in Assets, Stage(r, a)
      PROVE  Moves(r) /\ Kept(r)
  <2>1. CASE job' = [job EXCEPT ![r].staged = @ \union {a}]
    <3> DEFINE new == [job[r] EXCEPT !.staged = @ \union {a}]
    <3>1. new \in Run /\ new.kind = job[r].kind
      BY <1>0 DEF Run
    <3>2. job' = [job EXCEPT ![r] = new]
      BY <2>1
    <3> HIDE DEF new
    <3> QED
      BY <1>0, <3>1, <3>2, RunMoves DEF Moves, Kept
  <2> QED
    BY <1>0, <1>9, <2>1, GotoOrStop DEF Stage
<1> QED
  BY <1>1, <1>2, <1>3, <1>4, <1>5, <1>6, <1>7, <1>8, <1>9 DEF Acts, Work

LEMMA ActsKnows ==
  ASSUME IInv, Next, NEW r \in Runners, Acts(r)
  PROVE  RunInv(r)'
<1>1. CASE GiveUp(r) \/ Leave(r) \/ Cancel(r) \/ \E a \in Assets : Tear(r, a)
  <2>1. Stop(r)
    BY <1>1 DEF GiveUp, Leave, Cancel, Tear
  <2> QED
    BY <2>1, StopFields, IdleKnows DEF IInv
<1> QED
  BY <1>1, DispatchKnows, EarlyKnows, ListKnows, TouchKnows, CreateKnows, RenameKnows,
     PreparedKnows, DiscoverKnows, SubmitKnows, AwaitKnows, StageKnows, StagedKnows,
     FinalizeKnows, ConfirmKnows DEF Acts, Work

LEMMA RunsStep ==
  ASSUME IInv, [Next]_vars
  PROVE  /\ job' \in [Runners -> Run] /\ Exclusive'
         /\ \A r \in Runners : RunInv(r)'
<1>0. job \in [Runners -> Run] /\ Exclusive /\ \A r \in Runners : Shape(r)
  BY DEF IInv, Types, TypeOK, RunInv
<1>1. CASE UNCHANGED job
  BY <1>0, <1>1, OthersKnow DEF Exclusive
<1>2. ASSUME NEW r \in Runners, Acts(r), Next
      PROVE  job' \in [Runners -> Run] /\ Exclusive' /\ \A o \in Runners : RunInv(o)'
  <2>1. Moves(r) /\ Kept(r)
    BY <1>2, ActsMoves
  <2>2. \A o \in Runners : RunInv(o)'
    BY <1>2, <2>1, ActsKnows, OthersKnow DEF Moves
  <2>3. Exclusive'
    <3>1. CASE job'[r].kind \in {job[r].kind, "validation"}
      BY <1>0, <2>1, <3>1 DEF Moves, Exclusive
    <3>2. CASE PackagesFree(r)
      <4>1. \A o \in Runners : o # r => job[o].kind # "pipeline"
        BY <1>0, <3>2 DEF PackagesFree, Active, Shape, Idle
      <4> QED
        BY <2>1, <4>1 DEF Moves, Exclusive
    <3> QED
      BY <2>1, <3>1, <3>2 DEF Kept
  <2> QED
    BY <2>1, <2>2, <2>3 DEF Moves
<1>3. CASE World
  BY <1>1, <1>3 DEF World, Appear, PushTag, DeleteDraft
<1> QED
  BY <1>1, <1>2, <1>3, NextIs DEF vars

LEMMA HostingStep ==
  ASSUME IInv, [Next]_vars
  PROVE  Hosting'
<1>0. Types /\ Hosting
  BY DEF IInv
<1>1. ASSUME NEW o \in Runners, Publishes(o)
      PROVE  Hosting'
  <2> DEFINE id == job[o].id
  <2>1. /\ Public' = {id} /\ id \in DOMAIN releases
        /\ releases'[id] = [releases[id] EXCEPT !.phase = "public"]
    BY <1>1, PublishesOne
  <2>2. job[o].pc = "finalize" /\ Shape(o) /\ Record(o)
    BY <1>1 DEF Publishes, IInv, RunInv
  <2>3. releases[id].named /\ releases[id].commit = job[o].commit /\ releases[id] \in Release
        /\ \A a \in Assets : releases[id].assets[a] = Mine(o)
    BY <1>0, <2>1, <2>2, ReleasesTyped DEF Record, Shape, Holding, Closing, SameBytes
  <2>4. /\ releases'[id].named /\ releases'[id].commit = job[o].commit
        /\ releases'[id].assets = releases[id].assets
    BY <2>1, <2>3 DEF Release
  <2>5. \A a \in Assets : releases'[id].assets[a].commit = job[o].commit
    BY <2>3, <2>4 DEF Mine
  <2> HIDE DEF id
  <2> QED
    BY <2>1, <2>4, <2>5 DEF Hosting
<1>2. CASE Public' = Public
  <2>1. \A id \in Public : releases'[id] = releases[id]
    BY RecordsStep DEF RecordsGrow
  <2> QED
    BY <1>0, <1>2, <2>1 DEF Hosting
<1> QED
  BY <1>1, <1>2, PublicStep

\* Some run has a package accepted.
Accepts(r, p) ==
  /\ Submit(r, p) /\ registry[p] = Nothing
  /\ registry' = [registry EXCEPT ![p] = Mine(r)]

LEMMA RegistryChanges ==
  ASSUME IInv, [Next]_vars
  PROVE  UNCHANGED registry \/ \E r \in Runners, p \in Packages : Accepts(r, p)
<1>1. ASSUME NEW r \in Runners, Acts(r)
      PROVE  UNCHANGED registry \/ \E p \in Packages : Accepts(r, p)
  BY <1>1 DEF Acts, Work, npm, Accepts, Dispatch, EnterNative, GiveUp, Cancel, ReadTag, List,
     Touch, Create, Rename, PreparedNative, CheckRegistry, PreparedPackages, Discover, Submit,
     Await, Stage, VerifyStaged, RecheckTag, Finalize, Confirm, Leave, Tear
<1>2. CASE World
  BY <1>2 DEF World, Appear, PushTag, DeleteDraft, npm
<1> QED
  BY <1>1, <1>2, NextIs DEF vars, npm

\* What the run did not find or upload itself comes after the next package: npm
\* holds one commit only, and the launcher comes last.
LEMMA AcceptsInOrder ==
  ASSUME IInv, NEW r \in Runners, NEW p \in Packages, Accepts(r, p)
  PROVE  /\ job[r].commit \in Commits
         /\ \A q \in Packages : registry[q] # Nothing => registry[q].commit = job[r].commit
         /\ \A q \in Packages : Precedes(q, p) => registry[q].commit = job[r].commit
         /\ p = Root => \A q \in Packages \ {Root} : registry[q].commit = job[r].commit
<1>0. Types /\ Ordered /\ Shape(r) /\ Packed(r) /\ job[r] \in Run
  BY RunnerTyped DEF IInv, RunInv
<1>1. /\ job[r].pc = "submit" /\ registry[p] = Nothing /\ p \in Missing(r)
      /\ \A q \in Missing(r) \ {p} : Precedes(p, q)
  BY DEF Accepts, Submit
<1>2. job[r].commit \in Commits
  BY <1>0, <1>1 DEF Shape
<1>3. \A q \in Packages : q \notin Missing(r) => registry[q].commit = job[r].commit
  BY <1>0, <1>1 DEF Missing, Packed
<1>4. ASSUME NEW q \in Packages, registry[q] # Nothing
      PROVE  registry[q].commit = job[r].commit
  <2>1. q # p
    BY <1>1, <1>4
  <2>2. q \notin Missing(r)
    BY <1>0, <1>1, <1>4, <2>1 DEF Ordered
  <2> QED
    BY <1>3, <2>2
<1>5. ASSUME NEW q \in Packages, Precedes(q, p)
      PROVE  registry[q].commit = job[r].commit
  <2>1. Position[q] \in Nat /\ Position[p] \in Nat
    BY ConstantsAssumption
  <2>2. q # p /\ ~ Precedes(p, q)
    BY <1>5, <2>1 DEF Precedes
  <2> QED
    BY <1>1, <1>3, <2>2
<1>6. ASSUME p = Root, NEW q \in Packages \ {Root}
      PROVE  registry[q].commit = job[r].commit
  <2>1. ~ Precedes(p, q) /\ q # p
    BY <1>6 DEF Precedes
  <2> QED
    BY <1>1, <1>3, <2>1
<1> QED
  BY <1>2, <1>4, <1>5, <1>6

LEMMA OrderedStep ==
  ASSUME IInv, [Next]_vars
  PROVE  Ordered'
<1>0. Types /\ Ordered /\ registry \in [Packages -> Files]
  BY DEF IInv, Types, TypeOK
<1>1. CASE UNCHANGED registry
  BY <1>0, <1>1 DEF Ordered
<1>2. ASSUME NEW r \in Runners, NEW p \in Packages, Accepts(r, p)
      PROVE  Ordered'
  <2>1. \A q \in Packages : Precedes(q, p) => registry[q] # Nothing
    BY <1>2, AcceptsInOrder, ConstantsAssumption DEF Nothing
  <2>2. \A q \in Packages : registry[q] # Nothing => registry'[q] # Nothing
    BY <1>0, <1>2 DEF Accepts
  <2>3. \A q \in Packages : q # p => registry'[q] = registry[q]
    BY <1>0, <1>2 DEF Accepts
  <2> QED
    BY <1>0, <2>1, <2>2, <2>3 DEF Ordered, Precedes
<1> QED
  BY <1>1, <1>2, RegistryChanges

LEMMA TypesStep ==
  ASSUME IInv, [Next]_vars
  PROVE  Types'
<1>0. faults \in 0 .. MaxFaults /\ deletes \in 0 .. MaxDeletes /\ MaxFaults \in Nat /\ MaxDeletes \in Nat
  BY ConstantsAssumption DEF IInv, Types, TypeOK
<1>1. faults' \in 0 .. MaxFaults /\ deletes' \in 0 .. MaxDeletes
  <2>1. faults' = faults \/ (faults < MaxFaults /\ faults' = faults + 1)
    BY DEF Next, vars, Work, env, Dispatch, EnterNative, GiveUp, Cancel, ReadTag, List,
       Touch, Create, Rename, PreparedNative, CheckRegistry, PreparedPackages, Discover, Submit,
       Await, Stage, VerifyStaged, RecheckTag, Finalize, Confirm, Leave, Tear, Appear, PushTag,
       DeleteDraft
  <2>2. deletes' = deletes \/ (deletes < MaxDeletes /\ deletes' = deletes + 1)
    BY DEF Next, vars, Work, env, Dispatch, EnterNative, GiveUp, Cancel, ReadTag, List,
       Touch, Create, Rename, PreparedNative, CheckRegistry, PreparedPackages, Discover, Submit,
       Await, Stage, VerifyStaged, RecheckTag, Finalize, Confirm, Leave, Tear, Appear, PushTag,
       DeleteDraft
  <2> QED
    BY <1>0, <2>1, <2>2
<1>2. releases' \in Seq(Release)
  BY RecordsStep DEF RecordsGrow
<1>3. \A id \in DOMAIN releases' : releases'[id] \in Release
  BY <1>2
<1>4. \A r \in Runners : job'[r].pc \in {"touch", "rename", "prepared"} =>
        job'[r].id \in DOMAIN releases'
  BY RunsStep DEF RunInv, Record, Holding
<1>5. /\ registry' \in [Packages -> Files] /\ tag' \in Commits \union {None}
      /\ visible' \subseteq {p \in Packages : registry'[p] # Nothing}
  BY RegistryStep DEF RegistryGrow
<1> QED
  BY <1>1, <1>2, <1>3, <1>4, <1>5, RunsStep DEF Types, TypeOK

LEMMA InitIInv == Init => IInv
<1> SUFFICES ASSUME Init PROVE IInv
  OBVIOUS
<1>1. /\ \A r \in Runners : job[r] = Idle
      /\ releases = <<>> /\ tag = None /\ registry = [p \in Packages |-> Nothing]
      /\ visible = {} /\ faults = 0 /\ deletes = 0 /\ job = [r \in Runners |-> Idle]
  BY DEF Init
<1>2. Idle \in Run /\ Idle.pc = "idle" /\ Idle.kind = "validation" /\ ~ Idle.draft
      /\ Idle.round = "native" /\ Idle.sent = {}
  BY DEF Idle, Run, Pcs
<1>3. DOMAIN releases = {} /\ releases \in Seq(Release) /\ Public = {}
  <2>1. DOMAIN releases = {} /\ releases \in Seq(Release)
    BY <1>1
  <2> QED
    BY <2>1 DEF Public
<1>4. Types
  BY <1>1, <1>2, <1>3, FilesAreBytes, ConstantsAssumption DEF Types, TypeOK
<1>5. Exclusive /\ Hosting /\ Ordered
  BY <1>1, <1>2, <1>3 DEF Exclusive, Hosting, Ordered
<1>6. \A r \in Runners : RunInv(r)
  BY <1>1, <1>2 DEF RunInv, Shape, Record, Packed, Owner, Holding, Publishing, Closing
<1> QED
  BY <1>4, <1>5, <1>6 DEF IInv

LEMMA IInvStep == IInv /\ [Next]_vars => IInv'
<1> SUFFICES ASSUME IInv, [Next]_vars PROVE IInv'
  OBVIOUS
<1>2. Types' /\ Hosting' /\ Ordered' /\ Exclusive'
  BY TypesStep, HostingStep, OrderedStep, RunsStep
<1>3. \A r \in Runners : RunInv(r)'
  BY RunsStep
<1> QED
  BY <1>2, <1>3 DEF IInv

\* Every reachable state is one the argument is about.
LEMMA IInvariant == Spec => []IInv
BY InitIInv, IInvStep, PTL DEF Spec

-----------------------------------------------------------------------------
(* The theorems *)

\* Every variable keeps its type, and a run that is about to use a record has one.
THEOREM TypeCorrectness == Spec => []TypeOK
<1>1. IInv => TypeOK
  BY DEF IInv, Types
<1> QED
  BY <1>1, IInvariant, PTL

\* A publishing run that reports success is right (release_pipeline.run,
\* GitHub.publish in release.py), for any number of runs and commits.
THEOREM SuccessIsRight == Spec => []SuccessIsTrue
<1>1. IInv => SuccessIsTrue
  <2> SUFFICES ASSUME IInv, NEW r \in Runners, job[r].pc = "done"
               PROVE  /\ tag = job[r].commit /\ \E id \in Public : SameContents(r, id)
                      /\ visible = Packages
                      /\ \A p \in Packages : registry[p].commit = job[r].commit
    BY DEF SuccessIsTrue
  <2>1. Record(r) /\ Packed(r)
    BY DEF IInv, RunInv
  <2> QED
    BY <2>1 DEF Record, Packed, Complete
<1> QED
  BY <1>1, IInvariant, PTL

\* No step of any run writes to a release that is public (GitHub.publish in
\* release.py uploads by the tag's name).
THEOREM NothingPublicChanges == Spec => PublicUntouched
<1>1. IInv /\ [Next]_vars => [\A id \in Public : releases'[id] = releases[id]]_vars
  BY RecordsStep DEF RecordsGrow
<1> QED
  BY <1>1, IInvariant, PTL DEF Spec, PublicUntouched

-----------------------------------------------------------------------------
(* The promise *)

\* What is hosted, by what is public.
LEMMA HostedIs ==
  Hosting => /\ Public = {} => Hosted = None
             /\ \A id \in Public : Hosted = releases[id].commit
<1> SUFFICES ASSUME Hosting, NEW id \in Public PROVE Hosted = releases[id].commit
  BY DEF Hosted
<1>1. \A o \in Public : o = id
  BY DEF Hosting
<1>2. \A a \in Assets : releases[id].assets[a].commit = releases[id].commit
  BY DEF Hosting
<1>3. \A c : c \in HostedCommits <=> c = releases[id].commit
  BY <1>1, <1>2 DEF HostedCommits
<1>4. HostedCommits = {releases[id].commit}
  BY <1>3
<1>5. Cardinality(HostedCommits) = 1
  BY <1>4, FS_Singleton
<1>6. (CHOOSE c \in HostedCommits : TRUE) = releases[id].commit
  BY <1>4
<1> QED
  BY <1>5, <1>6 DEF Hosted

LEMMA HostedStep ==
  ASSUME IInv, IInv', [Next]_vars
  PROVE  \/ Hosted' = Hosted
         \/ \E o \in Runners : Publishes(o) /\ Hosted = None /\ Hosted' = job[o].commit
<1>0. /\ Public = {} => Hosted = None
      /\ \A id \in Public : Hosted = releases[id].commit
      /\ Public' = {} => Hosted' = None
      /\ \A id \in Public' : Hosted' = releases'[id].commit
  <2>1. Hosting /\ Hosting'
    BY DEF IInv
  <2>2. (Hosting => /\ Public = {} => Hosted = None
                    /\ \A id \in Public : Hosted = releases[id].commit)'
    BY HostedIs, PTL
  <2> QED
    BY <2>1, <2>2, HostedIs
<1>1. CASE Public' = Public
  <2>1. \A id \in Public : releases'[id] = releases[id]
    BY RecordsStep DEF RecordsGrow
  <2> QED
    BY <1>0, <1>1, <2>1
<1>2. ASSUME NEW o \in Runners, Publishes(o)
      PROVE  Hosted = None /\ Hosted' = job[o].commit
  <2>1. /\ Public = {} /\ Public' = {job[o].id} /\ job[o].id \in DOMAIN releases
    BY <1>2, PublishesOne
  <2>2. releases'[job[o].id].commit = releases[job[o].id].commit
    BY <2>1, RecordsStep DEF RecordsGrow
  <2>3. releases[job[o].id].commit = job[o].commit
    BY <1>2 DEF Publishes, IInv, RunInv, Record, Shape, Holding, Closing
  <2> QED
    BY <1>0, <2>1, <2>2, <2>3
<1> QED
  BY <1>1, <1>2, PublicStep

LEMMA VisibleStep ==
  ASSUME IInv, [Next]_vars
  PROVE  UNCHANGED visible \/ \E p \in Packages : Appear(p)
<1>1. ASSUME NEW r \in Runners, Acts(r)
      PROVE  UNCHANGED visible
  BY <1>1 DEF Acts, Work, npm, Dispatch, EnterNative, GiveUp, Cancel, ReadTag, List,
     Touch, Create, Rename, PreparedNative, CheckRegistry, PreparedPackages, Discover, Submit,
     Await, Stage, VerifyStaged, RecheckTag, Finalize, Confirm, Leave, Tear
<1>2. CASE World
  BY <1>2 DEF World, PushTag, DeleteDraft, npm
<1> QED
  BY <1>1, <1>2, NextIs DEF vars, npm

LEMMA PromiseInit == Init => Promise!Init
<1> SUFFICES ASSUME Init PROVE Promise!Init
  OBVIOUS
<1>1. releases = <<>> /\ registry = [p \in Packages |-> Nothing] /\ visible = {}
  BY DEF Init
<1>2. Public = {}
  BY <1>1 DEF Public
<1>3. Hosted = None
  BY <1>2 DEF Hosted
<1>4. [p \in Packages |-> registry[p].commit] = [p \in Packages |-> None]
  BY <1>1 DEF Nothing
<1> QED
  BY <1>1, <1>3, <1>4 DEF Promise!Init

LEMMA PromiseStep == IInv /\ IInv' /\ [Next]_vars => [Promise!Next]_Promise!vars
<1> SUFFICES ASSUME IInv, IInv', [Next]_vars PROVE [Promise!Next]_Promise!vars
  OBVIOUS
<1> DEFINE npmOf == [p \in Packages |-> registry[p].commit]
<1>0. Types /\ registry \in [Packages -> Files] /\ registry' \in [Packages -> Files]
  BY DEF IInv, Types, TypeOK
<1>1. ASSUME NEW r \in Runners, NEW p \in Packages, Accepts(r, p),
             NEW c \in Commits, c = job[r].commit
      PROVE  Promise!Submit(p, c)
  <2>1. /\ \A q \in Packages : registry[q] # Nothing => registry[q].commit = c
        /\ p = Root => \A q \in Packages \ {Root} : registry[q].commit = c
    BY <1>1, AcceptsInOrder
  <2>2. UNCHANGED visible /\ Hosted' = Hosted
    BY <1>1 DEF Accepts, Submit, hub, Hosted, HostedCommits, Public
  <2>3. npmOf' = [npmOf EXCEPT ![p] = c]
    <3>1. registry' = [registry EXCEPT ![p] = Mine(r)] /\ Mine(r).commit = c
      BY <1>1 DEF Accepts, Mine
    <3>2. \A q \in Packages : registry'[q].commit = IF q = p THEN c ELSE registry[q].commit
      BY <1>0, <3>1
    <3> QED
      BY <3>2
  <2>4. npmOf[p] = None /\ \A q \in Packages : npmOf[q] \in {None, c}
    BY <1>0, <1>1, <2>1, FilesAreBytes DEF Accepts
  <2>5. p = Root => \A q \in Packages \ {Root} : npmOf[q] = c
    BY <2>1
  <2> QED
    BY <2>1, <2>2, <2>3, <2>4, <2>5 DEF Promise!Submit
<1>2. ASSUME NEW p \in Packages, Appear(p)
      PROVE  Promise!Appear(p)
  <2>1. /\ registry[p] # Nothing /\ p \notin visible /\ visible' = visible \union {p}
        /\ UNCHANGED registry /\ Hosted' = Hosted
    BY <1>2 DEF Appear, hub, Hosted, HostedCommits, Public
  <2>2. npmOf[p] # None /\ npmOf' = npmOf
    BY <1>0, <2>1, FilesAreBytes
  <2> QED
    BY <2>1, <2>2 DEF Promise!Appear
<1>3. ASSUME NEW o \in Runners, Publishes(o), Hosted = None, Hosted' = job[o].commit,
             UNCHANGED <<registry, visible>>
      PROVE  Promise!Finalize(job[o].commit) /\ job[o].commit \in Commits
  <2>1. Complete(job[o].commit) /\ job[o].commit \in Commits
    BY <1>3 DEF Publishes, IInv, RunInv, Packed, Shape, Closing
  <2>2. \A p \in Packages : npmOf[p] = job[o].commit
    BY <2>1 DEF Complete
  <2>3. npmOf' = npmOf
    BY <1>3
  <2> QED
    BY <1>3, <2>1, <2>2, <2>3 DEF Promise!Finalize, Complete
<1>4. CASE UNCHANGED <<registry, visible>> /\ Hosted' = Hosted
  BY <1>4 DEF Promise!vars
<1>5. CASE \E r \in Runners, p \in Packages : Accepts(r, p)
  <2>1. PICK r \in Runners, p \in Packages : Accepts(r, p)
    BY <1>5
  <2>2. PICK c \in Commits : c = job[r].commit
    BY <2>1, AcceptsInOrder
  <2>3. Promise!Submit(p, c)
    BY <1>1, <2>1, <2>2
  <2> QED
    BY <2>3 DEF Promise!Next
<1>6. CASE \E p \in Packages : Appear(p)
  BY <1>2, <1>6 DEF Promise!Next
<1>7. CASE UNCHANGED <<registry, visible>>
  BY <1>3, <1>4, <1>7, HostedStep DEF Promise!Next
<1> QED
  BY <1>5, <1>6, <1>7, RegistryChanges, VisibleStep

\* The pipeline implements Publication: one commit per version, the launcher last,
\* the hosted release public once and only behind every package.
THEOREM PromiseKept == Spec => PublicationSpec
<1> QED
  BY PromiseInit, PromiseStep, IInvariant, PTL DEF Spec, PublicationSpec, Promise!Spec

-----------------------------------------------------------------------------
(* One record per tag, while drafts are left alone *)

\* Some run brings the first record under the tag.
Names(o) ==
  /\ job[o].pc \in {"create", "rename"} /\ job'[o].pc = "prepared"
  /\ \E id \in DOMAIN releases' : \A i : i \in Matching' <=> i = id

LEMMA MatchingStep ==
  ASSUME IInv, Single, MaxDeletes = 0, [Next]_vars
  PROVE  /\ \A id \in DOMAIN releases' : releases'[id].phase # "deleted"
         /\ \/ \A i : i \in Matching' <=> i \in Matching
            \/ \E o \in Runners : Names(o)
<1> DEFINE Alive == \A id \in DOMAIN releases' : releases'[id].phase # "deleted"
           Stays == \A i : i \in Matching' <=> i \in Matching
<1>0. Types /\ \A id \in DOMAIN releases : releases[id].phase # "deleted"
  BY DEF IInv, Single
<1>1. CASE UNCHANGED releases
  BY <1>0, <1>1 DEF Matching
<1>2. ASSUME NEW r \in Runners, NEW named \in BOOLEAN, Create(r, named), ~ UNCHANGED releases
      PROVE  Alive /\ (Stays \/ Names(r))
  <2> DEFINE e == [commit |-> job[r].commit, phase |-> "draft", named |-> named,
                   assets |-> [a \in Assets |-> Nothing]]
  <2>0. job[r].pc = "create" /\ Shape(r) /\ job[r] \in Run
    BY <1>0, <1>2, RunnerTyped DEF Create, IInv, RunInv
  <2>1. /\ releases' = Append(releases, e)
        /\ named => job'[r].pc = "prepared"
    <3>1. job[r].pc = "create"
      BY <2>0
    <3> QED
      BY <1>0, <1>2, <2>0, CreateMoves DEF Run
  <2>2. e.phase = "draft" /\ e.named = named /\ e \in Release
    BY <2>0, FilesAreBytes DEF Release, Shape
  <2>3. /\ NewId \in DOMAIN releases' /\ NewId \notin DOMAIN releases
        /\ DOMAIN releases' = DOMAIN releases \union {NewId}
        /\ releases'[NewId] = e
        /\ \A o \in DOMAIN releases : releases'[o] = releases[o]
    <3> HIDE DEF e
    <3> QED
      BY <1>0, <2>1, <2>2, AppendRecord
  <2> HIDE DEF e
  <2>4. Alive
    BY <1>0, <2>2, <2>3
  <2>5. Matching = {}
    BY <2>0 DEF Single
  <2>6. \A i : i \in Matching' <=> (named /\ i = NewId)
    BY <1>0, <2>2, <2>3, <2>5 DEF Matching
  <2>7. CASE named
    BY <2>0, <2>1, <2>3, <2>4, <2>6, <2>7 DEF Names
  <2>8. CASE ~ named
    BY <2>4, <2>5, <2>6, <2>8
  <2> QED
    BY <2>7, <2>8
<1>3. ASSUME NEW r \in Runners, Rename(r), ~ UNCHANGED releases
      PROVE  Alive /\ Names(r)
  <2> DEFINE id == job[r].id
  <2>1. /\ job[r].pc = "rename" /\ releases' = [releases EXCEPT ![id].named = TRUE]
        /\ Goto(r, "prepared") /\ id \in DOMAIN releases
    BY <1>3 DEF Rename, IInv, RunInv, Record, Holding
  <2>2. job'[r].pc = "prepared"
    BY <1>0, <2>1, GotoFields DEF Pcs
  <2>3. Matching = {} /\ releases[id] \in Release
    BY <1>0, <2>1, ReleasesTyped DEF Single
  <2>4. /\ DOMAIN releases' = DOMAIN releases
        /\ releases'[id] = [releases[id] EXCEPT !.named = TRUE]
        /\ \A o \in DOMAIN releases : o # id => releases'[o] = releases[o]
    BY <1>0, <2>1 DEF Types
  <2>5. releases'[id].named /\ releases'[id].phase = releases[id].phase
    BY <2>3, <2>4 DEF Release
  <2> HIDE DEF id
  <2>6. Alive
    BY <1>0, <2>1, <2>4, <2>5
  <2>7. \A i : i \in Matching' <=> i = id
    BY <2>1, <2>3, <2>4, <2>5, <2>6 DEF Matching
  <2> QED
    BY <2>1, <2>2, <2>4, <2>6, <2>7 DEF Names
<1>4. ASSUME NEW r \in Runners, NEW a \in Assets, Stage(r, a) \/ Tear(r, a), ~ UNCHANGED releases
      PROVE  Alive /\ Stays
  <2>1. PICK id \in UploadTargets, f \in {Mine(r), Nothing} :
          releases' = [releases EXCEPT ![id].assets[a] = f]
    BY <1>4 DEF Stage, Tear
  <2>2. id \in DOMAIN releases
    BY DEF UploadTargets, Matching
  <2> QED
    BY <1>0, <2>1, <2>2, ReleasesTyped DEF Release, Matching
<1>5. ASSUME NEW r \in Runners, Publishes(r)
      PROVE  Alive /\ Stays
  <2> DEFINE id == job[r].id
  <2>1. releases' = [releases EXCEPT ![id].phase = "public"] /\ id \in DOMAIN releases
    BY <1>5, PublishesOne DEF Publishes
  <2>2. /\ DOMAIN releases' = DOMAIN releases
        /\ releases'[id] = [releases[id] EXCEPT !.phase = "public"]
        /\ \A o \in DOMAIN releases : o # id => releases'[o] = releases[o]
    BY <1>0, <2>1 DEF Types
  <2>3. releases'[id].named = releases[id].named /\ releases'[id].phase = "public"
    BY <1>0, <2>1, <2>2, ReleasesTyped DEF Release
  <2> HIDE DEF id
  <2> QED
    BY <1>0, <2>1, <2>2, <2>3 DEF Matching
<1>6. ASSUME NEW r \in Runners, Acts(r), ~ UNCHANGED releases
      PROVE  \/ \E named \in BOOLEAN : Create(r, named)
             \/ Rename(r) \/ Publishes(r) \/ \E a \in Assets : Stage(r, a) \/ Tear(r, a)
  BY <1>6
  DEF Acts, Work, hub, Dispatch, EnterNative, GiveUp, Cancel, ReadTag, List, Touch,
      PreparedNative, CheckRegistry, PreparedPackages, Discover, Await, Submit,
      VerifyStaged, RecheckTag, Confirm, Leave, Finalize, Publishes
<1>7. CASE World
  <2>1. \A id \in DOMAIN releases : ~ DeleteDraft(id)
    BY DEF DeleteDraft, IInv, Types, TypeOK
  <2> QED
    BY <1>1, <1>7, <2>1 DEF World, Appear, PushTag, hub
<1>8. CASE \E r \in Runners : Acts(r)
  BY <1>1, <1>2, <1>3, <1>4, <1>5, <1>6, <1>8
<1> QED
  BY <1>1, <1>7, <1>8, NextIs DEF vars, hub

\* How a run's own step changes its round and its place.
Onward(r) ==
  /\ NativeBusy(r)' => NativeBusy(r) \/ NativeFree(r)
  /\ job'[r].round # "native" => job[r].round # "native" \/ Matching # {}
  /\ job'[r].pc = "create" => job'[r].round = job[r].round /\ Matching = {} /\ UNCHANGED releases
  /\ job'[r].pc = "rename" => job'[r].round = job[r].round /\ job[r].pc = "create"

LEMMA OnwardSame ==
  ASSUME Types, NEW r \in Runners, job[r].pc \notin {"idle", "queued"}, Same(r),
         job'[r].pc \notin {"create", "rename"}
  PROVE  Onward(r)
BY DEF Onward, Same, NativeBusy

LEMMA OnwardIdle ==
  ASSUME NEW r \in Runners, job'[r] = Idle
  PROVE  Onward(r)
<1>1. job'[r].pc = "idle" /\ job'[r].round = "native"
  BY DEF Idle
<1> QED
  BY <1>1 DEF Onward, NativeBusy

LEMMA ActsOnward ==
  ASSUME IInv, Single, NEW r \in Runners, Acts(r)
  PROVE  Onward(r)
<1>0. Types /\ job[r] \in Run /\ Shape(r) /\ Record(r)
  BY RunnerTyped DEF IInv, RunInv
<1>1. CASE Stop(r)
  BY <1>0, <1>1, StopFields, OnwardIdle
<1>2. ASSUME NEW x \in Pcs \ {"create", "rename"}, Goto(r, x), job[r].pc \notin {"idle", "queued"}
      PROVE  Onward(r)
  <2>1. job'[r].pc = x /\ Remembers(r)
    BY <1>0, <1>2, GotoFields
  <2> QED
    BY <1>0, <1>2, <2>1, OnwardSame DEF Remembers
<1>3. CASE \/ ReadTag(r) \/ Rename(r) \/ CheckRegistry(r) \/ Await(r)
           \/ GiveUp(r) \/ VerifyStaged(r) \/ RecheckTag(r) \/ Finalize(r) \/ Leave(r)
           \/ Cancel(r) \/ \E a \in Assets : Tear(r, a)
  BY <1>1, <1>2, <1>3 DEF ReadTag, Rename, CheckRegistry, Await, AfterPackages, GiveUp,
     VerifyStaged, RecheckTag, Finalize, Leave, Cancel, Tear, Pcs
<1>4. CASE EnterNative(r)
  <2>1. job'[r].pc = "tag" /\ Remembers(r) /\ NativeFree(r) /\ job[r].round = "native"
    BY <1>0, <1>4, GotoFields DEF EnterNative, Pcs, Shape
  <2> QED
    BY <2>1 DEF Onward, Remembers, Same
<1>5. CASE PreparedNative(r) \/ PreparedPackages(r) \/ Confirm(r)
  <2>1. job[r].id \in Matching
    <3>1. job[r].id \in DOMAIN releases /\ releases[job[r].id].named
      BY <1>0, <1>5 DEF PreparedNative, PreparedPackages, Confirm, Record, Holding, IInv, Hosting
    <3> QED
      BY <3>1 DEF Matching, Single
  <2>2. ASSUME NEW round \in {"preflight", "publish"},
               job' = [job EXCEPT ![r].pc = "check", ![r].round = round]
        PROVE  Onward(r)
    <3>1. job'[r].pc = "check" /\ job'[r].round = round
      BY <1>0, <2>2 DEF Run, Types, TypeOK
    <3> QED
      BY <2>1, <3>1 DEF Onward, NativeBusy
  <2> QED
    BY <1>1, <1>2, <1>5, <2>2 DEF PreparedNative, PreparedPackages, Confirm, NativePassed, Pcs
<1>6. ASSUME NEW kind \in {"pipeline", "validation"}, NEW publish \in BOOLEAN,
             NEW c \in Commits, NEW z \in Compressors, Dispatch(r, kind, c, z, publish)
      PROVE  Onward(r)
  <2>1. job'[r].pc = "queued" /\ job'[r].round = "native"
    BY <1>0, <1>6, DispatchMoves
  <2> QED
    BY <2>1 DEF Onward, NativeBusy
<1>7. CASE List(r)
  <2>1. \/ job'[r] = Idle
        \/ Same(r) /\ Matching = {} /\ job'[r].pc = "create"
        \/ Same(r) /\ job'[r].pc \in {"touch", "prepared"}
    BY <1>0, <1>7, ListMoves DEF Run, Same
  <2>2. job[r].pc = "list" /\ UNCHANGED releases
    BY <1>7 DEF List, hub
  <2>3. CASE Same(r) /\ Matching = {} /\ job'[r].pc = "create"
    BY <2>2, <2>3 DEF Onward, Same, NativeBusy
  <2> QED
    BY <1>0, <2>1, <2>2, <2>3, OnwardIdle, OnwardSame
<1>8. CASE Touch(r)
  <2>1. job'[r] = Idle \/ (Same(r) /\ job'[r].pc = "prepared" /\ job[r].pc = "touch")
    BY <1>0, <1>8, TouchMoves DEF Run, Same, Touch
  <2> QED
    BY <1>0, <2>1, OnwardIdle, OnwardSame
<1>9. ASSUME NEW named \in BOOLEAN, Create(r, named)
      PROVE  Onward(r)
  <2>1. job[r].pc = "create"
    BY <1>9 DEF Create
  <2>2. \/ job'[r] = Idle
        \/ Same(r) /\ job'[r].pc \in {"prepared", "rename"}
    BY <1>0, <1>9, CreateMoves DEF Run, Same
  <2>3. CASE Same(r) /\ job'[r].pc = "rename"
    BY <2>1, <2>3 DEF Onward, Same, NativeBusy
  <2> QED
    BY <1>0, <2>1, <2>2, <2>3, OnwardIdle, OnwardSame
<1>10. CASE Discover(r) \/ (\E p \in Packages : Submit(r, p)) \/ \E a \in Assets : Stage(r, a)
  <2>1. \/ Stop(r)
        \/ /\ job[r].pc \in {"discover", "submit", "stage"}
           /\ \/ job' = [job EXCEPT ![r].pc = "submit", ![r].existing = Existing]
              \/ \E p \in Packages : job' = [job EXCEPT ![r].sent = @ \union {p}]
              \/ \E a \in Assets : job' = [job EXCEPT ![r].staged = @ \union {a}]
    BY <1>10 DEF Discover, Submit, Stage
  <2>2. CASE ~ Stop(r)
    <3>1. Same(r) /\ job'[r].pc \in {"submit", job[r].pc}
      BY <1>0, <2>1, <2>2 DEF Run, Types, TypeOK, Same
    <3> QED
      BY <1>0, <2>1, <2>2, <3>1, OnwardSame
  <2> QED
    BY <1>1, <2>2
<1> QED
  BY <1>3, <1>4, <1>5, <1>6, <1>7, <1>8, <1>9, <1>10 DEF Acts, Work

LEMMA SingleInit == Init => Single
<1> SUFFICES ASSUME Init PROVE Single
  OBVIOUS
<1>1. \A r \in Runners : job[r].pc = "idle" /\ job[r].round = "native"
  BY DEF Init, Idle
<1>2. DOMAIN releases = {}
  BY DEF Init
<1> QED
  BY <1>1, <1>2 DEF Single, Matching, NativeBusy

LEMMA SingleStep ==
  ASSUME IInv, Single, MaxDeletes = 0, [Next]_vars
  PROVE  Single'
<1> DEFINE Stays == \A i : i \in Matching' <=> i \in Matching
<1>0. Types /\ \A r \in Runners : Shape(r)
  BY DEF IInv, RunInv
<1>1. /\ \A id \in DOMAIN releases' : releases'[id].phase # "deleted"
      /\ Stays \/ \E o \in Runners : Names(o)
  BY MatchingStep
<1>2. \A i, j \in Matching' : i = j
  BY <1>1 DEF Single, Names
<1>3. Matching # {} => Matching' # {}
  BY <1>1 DEF Names
<1>4. ASSUME NEW r \in Runners, Acts(r)
      PROVE  Single'
  <2>1. Moves(r) /\ Onward(r)
    BY <1>4, ActsMoves, ActsOnward
  <2>2. \A o \in Runners : job'[o].round # "native" => Matching' # {}
    BY <1>3, <2>1 DEF Moves, Onward, Single
  <2>3. \A o, q \in Runners : NativeBusy(o)' /\ NativeBusy(q)' => o = q
    <3>1. \A o \in Runners : o # r => (NativeBusy(o)' <=> NativeBusy(o))
      BY <2>1 DEF Moves, NativeBusy
    <3>2. \A o \in Runners : o # r /\ NativeBusy(r)' => ~ NativeBusy(o)
      BY <2>1 DEF Onward, Single, NativeFree, NativeBusy
    <3> QED
      BY <3>1, <3>2 DEF Single
  <2>4. ASSUME NEW o \in Runners, job'[o].pc \in {"create", "rename"}
        PROVE  job'[o].round = "native" /\ Matching' = {}
    <3>1. job'[o].round = "native" /\ Matching = {}
      BY <2>1, <2>4 DEF Moves, Onward, Single
    <3>2. CASE Stays
      BY <3>1, <3>2
    <3>3. ASSUME NEW q \in Runners, Names(q)
          PROVE  FALSE
      <4>1. NativeBusy(q) /\ job'[q] # job[q]
        BY <3>3 DEF Names, Single, NativeBusy
      <4>2. q = r
        BY <2>1, <4>1 DEF Moves
      <4>3. o # r
        BY <2>4, <3>3, <4>2 DEF Names
      <4>4. NativeBusy(o)
        BY <2>1, <2>4, <4>3 DEF Moves, Single, NativeBusy
      <4> QED
        BY <4>1, <4>2, <4>3, <4>4 DEF Single
    <3> QED
      BY <1>1, <3>2, <3>3
  <2> QED
    BY <1>1, <1>2, <2>2, <2>3, <2>4 DEF Single
<1>5. CASE UNCHANGED job
  <2>1. Stays
    BY <1>1, <1>5 DEF Names
  <2>2. Matching' = Matching
    <3>1. Matching' \subseteq Matching /\ Matching \subseteq Matching'
      BY <2>1
    <3> QED
      BY <3>1
  <2> QED
    BY <1>1, <1>5, <2>2 DEF Single, NativeBusy
<1>6. CASE World
  BY <1>5, <1>6 DEF World, Appear, PushTag, DeleteDraft
<1> QED
  BY <1>4, <1>5, <1>6, NextIs DEF vars

\* While drafts are left alone, two runs never create a record for the same tag
\* (GitHub.prepare in release.py under the groups of the two workflows).
THEOREM OneRecord == Spec => []OneRecordPerTag
<1>1. Init => SingleInv
  BY SingleInit DEF SingleInv
<1>2. IInv /\ SingleInv /\ [Next]_vars => SingleInv'
  BY SingleStep DEF SingleInv
<1>3. SingleInv => OneRecordPerTag
  <2> SUFFICES ASSUME MaxDeletes = 0, Single PROVE Cardinality(Matching) <= 1
    BY DEF SingleInv, OneRecordPerTag
  <2>1. CASE Matching = {}
    BY <2>1, FS_EmptySet
  <2>2. ASSUME NEW id \in Matching
        PROVE  Cardinality(Matching) <= 1
    <3>1. Matching = {id}
      BY DEF Single
    <3>2. Cardinality(Matching) = 1
      BY <3>1, FS_Singleton
    <3> QED
      BY <3>2
  <2> QED
    BY <2>1, <2>2
<1> QED
  BY <1>1, <1>2, <1>3, IInvariant, PTL DEF Spec
=============================================================================
