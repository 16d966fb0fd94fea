---------------------------- MODULE Cadence_proofs ----------------------------
(***************************************************************************)
(* Machine-checked proofs about Cadence, for all durations, limits and     *)
(* lists of earlier releases: deadlines, quiet periods and what a triage   *)
(* answer is used for.                                                     *)
(***************************************************************************)
EXTENDS Cadence, FiniteSetTheorems, TLAPS

Deciding == {"decide", "triage", "open"}

\* Nothing is from the future, and local work is of commits that were made.
Past ==
  /\ \A c \in 1 .. Tip : pushed[c] <= now
  /\ \A c \in 1 .. Len(made) : made[c] <= now
  /\ seen.head[2] \subseteq 1 .. Len(made)
  /\ observed.head[2] \subseteq 1 .. Len(made)

\* What was observed is not younger than its last change, and what is decided
\* about is what was observed.
Observation ==
  /\ changedAt <= now
  /\ \A c \in 1 .. observed.tip : pushed[c] <= changedAt
  /\ \A c \in observed.head[2] : made[c] <= changedAt
  /\ pc \in Deciding => seen = observed /\ released <= seen.tip /\ job = NoJob
  /\ pc = "release" => job # NoJob

\* The record counts from the last release in truth.
Baseline ==
  /\ recorded => releasedAt = published
  /\ ~ recorded => releasedAt = NoTime /\ released = 0
  /\ pc \in Deciding \/ job # NoJob => recorded
  /\ pc = "bootstrap" =>
       /\ Candidates = {} => published = NoTime
       /\ Candidates # {} =>
            \E r \in Candidates : published = r.at /\ \A q \in Candidates : q.at <= r.at

\* The poll timer and the session's limit; and what sleeping well implies.
Timer ==
  /\ pc = "idle" => now <= wakeAt
  /\ pc = "decide" => now = at
  /\ pc = "triage" => at <= now /\ now <= at + TriageTimeout
  /\ pc = "triage" => releasedAt # NoTime /\ at < releasedAt + Daily
  /\ (pc = "idle" /\ healthy /\ job = NoJob /\ Unreleased(seen)) =>
       releasedAt # NoTime /\ wakeAt < releasedAt + Daily + TriageTimeout + Poll

\* Why a job is about to be opened.
Justified ==
  /\ (pc = "triage" \/ (pc = "open" /\ reason \in {"burst", "triage"})) =>
       at - changedAt >= Quiet
  /\ pc = "open" =>
       /\ reason \in {"forced", "first", "daily", "burst", "triage"}
       /\ reason = "first" => releasedAt = NoTime
       /\ reason = "daily" => releasedAt # NoTime /\ at - releasedAt >= Daily
       /\ reason = "triage" => assessed.head = seen.head
  /\ triage.decision # "none" => triage.head = assessed.head

IInv == TypeOK /\ Past /\ Observation /\ Baseline /\ Timer /\ Justified

\* The type invariant, by who changes what.
TypeWorld ==
  /\ now \in Times
  /\ pushed \in Seq(Times) /\ made \in Seq(Times)
  /\ own \subseteq 1 .. Len(made)
  /\ history \in Seq(Releases)

TypeRecord ==
  /\ recorded \in BOOLEAN /\ published \in Times \cup {NoTime}
  /\ released \in 0 .. Tip /\ releasedAt \in Times \cup {NoTime}
  /\ observed \in [head : Heads, tip : 0 .. Tip] /\ changedAt \in Times
  /\ triage \in [decision : Decisions, head : Heads, released : 0 .. Tip, at : Times]
  /\ job \in (released .. Tip) \cup {NoJob}

TypeProcess ==
  /\ pc \in {"down", "idle", "cycle", "bootstrap", "decide", "triage", "open", "release"}
  /\ force \in BOOLEAN /\ at \in Times
  /\ seen \in [head : Heads, tip : 0 .. Tip]
  /\ wakeAt \in Times /\ reason \in Reasons
  /\ healthy \in BOOLEAN
  /\ assessed \in [head : Heads, tip : 0 .. Tip] /\ faults \in 0 .. MaxFaults

LEMMA TypeParts == TypeOK <=> TypeWorld /\ TypeRecord /\ TypeProcess
BY DEF TypeOK, TypeWorld, TypeRecord, TypeProcess

-----------------------------------------------------------------------------
(* What the operators return *)

LEMMA Constants ==
  /\ Daily \in Nat /\ Daily > 0 /\ Poll \in Nat /\ Poll > 0 /\ TriageTimeout \in Nat
  /\ Quiet \in Nat /\ NoTime \notin Nat /\ NoJob \notin Nat
  /\ Histories \subseteq Seq(Releases)
  BY ConstantsAssumption DEF Times

LEMMA CurrentTyped ==
  ASSUME TypeOK
  PROVE  /\ Current \in [head : Heads, tip : 0 .. Tip]
         /\ Current.tip = Tip /\ Current.head[2] = own
<1>1. Tip \in Nat /\ Tip \in 0 .. Tip /\ own \subseteq Nat
  <2>1. Len(pushed) \in Nat /\ Len(made) \in Nat
    BY DEF TypeOK
  <2> QED
    BY <2>1 DEF TypeOK, Tip
<1>2. ReleaseHead \in Heads /\ ReleaseHead[2] = own
  BY <1>1 DEF ReleaseHead, Heads
<1> QED
  BY <1>1, <1>2 DEF Current

\* A commit of the branch stays where it is.
LEMMA PushKeeps ==
  ASSUME TypeOK, Push
  PROVE  /\ pushed' \in Seq(Times) /\ Tip' = Tip + 1 /\ Tip \in Nat
         /\ \A c \in 1 .. Tip : pushed'[c] = pushed[c]
         /\ pushed'[Tip + 1] = now
BY DEF TypeOK, Push, Tip

LEMMA LocalKeeps ==
  ASSUME TypeOK, LocalCommit
  PROVE  /\ made' \in Seq(Times) /\ Len(made') = Len(made) + 1 /\ Len(made) \in Nat
         /\ \A c \in 1 .. Len(made) : made'[c] = made[c]
         /\ made'[Len(made) + 1] = now
BY DEF TypeOK, LocalCommit

LEMMA BaselineTyped ==
  ASSUME TypeOK, NEW b \in Baselines
  PROVE  /\ b.commit \in 0 .. seen.tip /\ b.at \in Times \cup {NoTime}
         /\ Candidates = {} => b.at = NoTime
         /\ Candidates # {} => b \in Candidates /\ \A q \in Candidates : q.at <= b.at
<1>1. seen.tip \in Nat
  BY DEF TypeOK, Tip
<1>2. Range(history) \subseteq Releases
  BY DEF TypeOK, Range
<1>3. CASE Candidates = {}
  BY <1>1, <1>3 DEF Baselines
<1>4. CASE Candidates # {}
  <2>1. b \in Candidates /\ \A q \in Candidates : q.at <= b.at
    BY <1>4 DEF Baselines, Newest
  <2>2. b \in Releases /\ b.commit <= seen.tip
    BY <1>2, <2>1 DEF Candidates
  <2> QED
    BY <1>1, <1>4, <2>1, <2>2 DEF Releases
<1> QED
  BY <1>3, <1>4

LEMMA TotalOfUnreleased ==
  ASSUME TypeOK, Past, released <= seen.tip, Unreleased(seen)
  PROVE  Total(seen) \in Nat /\ Total(seen) > 0
<1> DEFINE S == seen.head[2]
           d == seen.tip - released
<1>1. Len(made) \in Nat /\ S \subseteq 1 .. Len(made)
  BY DEF TypeOK, Past
<1>2. IsFiniteSet(S)
  <2>1. IsFiniteSet(1 .. Len(made))
    BY <1>1, FS_Interval
  <2> HIDE DEF S
  <2> QED
    BY <1>1, <2>1, FS_Subset
<1>3. Cardinality(S) \in Nat /\ (Cardinality(S) = 0) = (S = {})
  BY <1>2, FS_CardinalityType, FS_EmptySet
<1>4. d \in Nat /\ (d > 0 \/ S # {})
  BY DEF TypeOK, Tip, Unreleased
<1>5. Total(seen) = d + Cardinality(S)
  BY DEF Total
<1> HIDE DEF S, d
<1> QED
  BY <1>3, <1>4, <1>5

\* The rules of due, one by one.
LEMMA DueMeans ==
  ASSUME TypeOK
  PROVE  /\ Due(seen, at) \in {"", "first", "daily", "burst"}
         /\ Due(seen, at) = "first" => releasedAt = NoTime
         /\ Due(seen, at) = "daily" => releasedAt # NoTime /\ at - releasedAt >= Daily
         /\ Due(seen, at) = "burst" => at - changedAt >= Quiet
         /\ Due(seen, at) = "" /\ Total(seen) # 0 =>
              releasedAt # NoTime /\ ~ (at - releasedAt >= Daily)
BY DEF Due, Age

-----------------------------------------------------------------------------
(* What the steps preserve *)

LEMMA InitIInv == Init => IInv
<1> SUFFICES ASSUME Init PROVE IInv
  OBVIOUS
<1>1. /\ now = 1 /\ pushed = <<0>> /\ made = <<>> /\ own = {}
      /\ recorded = FALSE /\ released = 0 /\ releasedAt = NoTime /\ changedAt = 0
      /\ pc = "down" /\ job = NoJob
  BY DEF Init
<1>2. Len(pushed) = 1 /\ Tip = 1 /\ Len(made) = 0 /\ pushed \in Seq(Times) /\ made \in Seq(Times)
  BY <1>1 DEF Tip, Times
<1>3. /\ observed = [head |-> <<0, {}>>, tip |-> 0] /\ seen = observed
      /\ assessed = observed
      /\ triage = [decision |-> "none", head |-> <<0, {}>>, released |-> 0, at |-> 0]
  BY DEF Init
<1>4. <<0, {}>> \in Heads
  BY DEF Heads
<1>5. TypeOK
  <2>1. observed \in [head : Heads, tip : 0 .. Tip]
    BY <1>2, <1>3, <1>4
  <2>2. triage \in [decision : Decisions, head : Heads, released : 0 .. Tip, at : Times]
    BY <1>2, <1>3, <1>4 DEF Decisions, Times
  <2>3. history \in Seq(Releases)
    BY Constants DEF Init
  <2>4. force = FALSE /\ at = 0 /\ wakeAt = 0 /\ reason = "" /\ healthy = FALSE
        /\ published = NoTime /\ faults = 0
    BY DEF Init
  <2>5. TypeWorld
    BY <1>1, <1>2, <2>3 DEF TypeWorld, Times
  <2>6. TypeRecord
    <3>1. 0 \in 0 .. Tip /\ 0 \in Nat
      BY <1>2
    <3>2. recorded \in BOOLEAN /\ NoJob \in (released .. Tip) \cup {NoJob}
      BY <1>1
    <3> QED
      BY <1>1, <2>1, <2>2, <2>4, <3>1, <3>2 DEF TypeRecord, Times
  <2>7. TypeProcess
    <3>1. 0 \in 0 .. MaxFaults /\ 0 \in Nat
      BY ConstantsAssumption
    <3>2. force \in BOOLEAN /\ healthy \in BOOLEAN /\ reason \in Reasons
      BY <2>4 DEF Reasons
    <3> QED
      BY <1>1, <1>3, <2>1, <2>4, <3>1, <3>2 DEF TypeProcess, Times
  <2> QED
    BY <2>5, <2>6, <2>7, TypeParts
<1>6. Past
  BY <1>1, <1>2, <1>3 DEF Past
<1>7. Observation
  BY <1>1, <1>2, <1>3 DEF Observation, Deciding
<1>8. Baseline
  BY <1>1 DEF Baseline, Deciding
<1>9. Timer /\ Justified
  BY <1>1, <1>3 DEF Timer, Justified
<1> QED
  BY <1>5, <1>6, <1>7, <1>8, <1>9 DEF IInv

LEMMA TipGrows ==
  ASSUME TypeOK, [Next]_vars
  PROVE  Tip \in Nat /\ Tip' \in Nat /\ Tip <= Tip'
<1>1. Tip \in Nat
  BY DEF TypeOK, Tip
<1>2. CASE Push
  BY <1>1, <1>2, PushKeeps
<1>3. CASE UNCHANGED pushed
  BY <1>1, <1>3 DEF Tip
<1> QED
  BY <1>2, <1>3 DEF Next, Daemon, vars, world, Wake, CycleFails, CycleResumes, Fetch, Observe,
     DecideByCadence, ReuseDecision, KeepWaiting, BeginTriage, TriageEnds, TriageNotSetUp,
     OpenFails, Open, Finish, Pending, Start, Stop, LocalCommit, ReleaseElsewhere, Tick

LEMMA TypeWorldStep == IInv /\ [Next]_vars => TypeWorld'
<1> SUFFICES ASSUME IInv, [Next]_vars PROVE TypeWorld'
  OBVIOUS
<1>0. TypeOK /\ TypeWorld
  BY TypeParts DEF IInv
<1>1. CASE UNCHANGED <<now, pushed, made, own, history>>
  BY <1>0, <1>1 DEF TypeWorld
<1>2. CASE Fetch
  <2>1. history' \in Seq(Releases)
    <3>1. \A i \in DOMAIN history : [history[i] EXCEPT !.tag = TRUE] \in Releases
      <4>1. \A r \in Releases : [r EXCEPT !.tag = TRUE] \in Releases
        BY DEF Releases
      <4>2. \A i \in DOMAIN history : history[i] \in Releases
        BY <1>0 DEF TypeWorld
      <4> QED
        BY <4>1, <4>2
    <3>2. history' = [i \in 1 .. Len(history) |-> [history[i] EXCEPT !.tag = TRUE]]
      BY <1>0, <1>2 DEF Fetch, TypeWorld
    <3>3. Len(history) \in Nat
      BY <1>0 DEF TypeWorld
    <3> DEFINE e(i) == [history[i] EXCEPT !.tag = TRUE]
    <3>4. \A i \in 1 .. Len(history) : e(i) \in Releases
      BY <1>0, <3>1 DEF TypeWorld
    <3>5. history' = [i \in 1 .. Len(history) |-> e(i)]
      BY <3>2
    <3> HIDE DEF e
    <3> QED
      BY <3>3, <3>4, <3>5
  <2> QED
    BY <1>0, <1>2, <2>1 DEF Fetch, TypeWorld
<1>3. CASE Observe
  <2>1. history' = <<>> \/ history' = history
    BY <1>3 DEF Observe
  <2>2. UNCHANGED <<now, pushed, made, own>>
    BY <1>3 DEF Observe
  <2> QED
    BY <1>0, <2>1, <2>2, <<>> \in Seq(Releases) DEF TypeWorld
<1>4. CASE Finish
  BY <1>0, <1>4 DEF Finish, TypeWorld
<1>5. CASE Push
  BY <1>0, <1>5, PushKeeps DEF Push, TypeWorld
<1>6. CASE LocalCommit
  <2>1. own' \subseteq 1 .. Len(made')
    <3>1. own' = own \cup {Len(made) + 1} /\ Len(made') = Len(made) + 1 /\ Len(made) \in Nat
      BY <1>0, <1>6, LocalKeeps DEF LocalCommit
    <3>2. own \subseteq 1 .. Len(made)
      BY <1>0 DEF TypeWorld
    <3>3. \A c \in own' : c \in 1 .. Len(made) \/ c = Len(made) + 1
      BY <3>1, <3>2
    <3>4. \A c \in own' : c \in 1 .. Len(made')
      BY <3>1, <3>3
    <3> QED
      BY <3>4
  <2> QED
    BY <1>0, <1>6, <2>1, LocalKeeps DEF LocalCommit, TypeWorld
<1>7. CASE ReleaseElsewhere
  <2>1. history' \in Seq(Releases)
    BY <1>0, <1>7, TipGrows DEF ReleaseElsewhere, TypeWorld, Releases, Times
  <2> QED
    BY <1>0, <1>7, <2>1 DEF ReleaseElsewhere, TypeWorld
<1>8. CASE Tick
  BY <1>0, <1>8 DEF Tick, world, TypeWorld, Times
<1> QED
  BY <1>1, <1>2, <1>3, <1>4, <1>5, <1>6, <1>7, <1>8
  DEF Next, Daemon, vars, world, Wake, CycleFails, CycleResumes, DecideByCadence, ReuseDecision,
      KeepWaiting, BeginTriage, TriageEnds, TriageNotSetUp, OpenFails, Open, Pending, Start, Stop

LEMMA TypeRecordStep == IInv /\ [Next]_vars => TypeRecord'
<1> SUFFICES ASSUME IInv, [Next]_vars PROVE TypeRecord'
  OBVIOUS
<1>0. TypeOK /\ TypeRecord
  BY TypeParts DEF IInv
<1>t. /\ Tip \in Nat /\ Tip' \in Nat /\ Tip <= Tip'
      /\ seen \in [head : Heads, tip : 0 .. Tip] /\ now \in Times
      /\ NoJob \notin Nat /\ released \in Nat /\ at \in Times
  BY <1>0, TipGrows, Constants DEF TypeOK
<1>s. \A x \in [head : Heads, tip : 0 .. Tip] : x \in [head : Heads, tip : 0 .. Tip']
  BY <1>t
<1>r. \A x \in [decision : Decisions, head : Heads, released : 0 .. Tip, at : Times] :
        x \in [decision : Decisions, head : Heads, released : 0 .. Tip', at : Times]
  BY <1>t
<1>1. CASE UNCHANGED <<record, published>>
  BY <1>0, <1>1, <1>t, <1>s, <1>r DEF record, baseline, TypeRecord
<1>2. CASE Fetch
  <2>1. Range(history) \subseteq Releases
    BY <1>0 DEF TypeOK, Range
  <2>2. published' \in Times \cup {NoTime}
    BY <1>2, <2>1 DEF Fetch, Releases
  <2>3. UNCHANGED <<record, pushed>>
    BY <1>2 DEF Fetch
  <2> QED
    BY <1>0, <2>2, <2>3 DEF TypeRecord, record, baseline, Tip
<1>3. CASE Observe
  <2> DEFINE s == IF recorded THEN Current ELSE seen
  <2>1. s \in [head : Heads, tip : 0 .. Tip]
    BY <1>0, <1>t, CurrentTyped
  <2>2. released' \in 0 .. Tip /\ releasedAt' \in Times \cup {NoTime}
    <3>1. \/ UNCHANGED <<released, releasedAt>>
          \/ \E b \in Baselines : released' = b.commit /\ releasedAt' = b.at
      BY <1>3 DEF Observe, baseline
    <3>2. seen.tip \in 0 .. Tip
      BY <1>t
    <3> QED
      BY <1>0, <1>t, <3>1, <3>2, BaselineTyped DEF TypeRecord
  <2>3. /\ observed' \in {s, observed} /\ changedAt' \in {now, changedAt}
        /\ recorded' \in {TRUE, recorded} /\ job = NoJob
        /\ UNCHANGED <<pushed, triage, job, published>>
    BY <1>3 DEF Observe, baseline
  <2> HIDE DEF s
  <2> QED
    BY <1>0, <1>t, <2>1, <2>2, <2>3 DEF TypeRecord, Tip
<1>4. CASE TriageEnds
  <2>1. ASSUME NEW d \in {"release", "wait", "error"}
        PROVE  Assessment(d) \in [decision : Decisions, head : Heads, released : 0 .. Tip, at : Times]
    BY <1>0, <1>t DEF Assessment, Decisions, TypeRecord
  <2>2. triage' \in [decision : Decisions, head : Heads, released : 0 .. Tip, at : Times]
    BY <1>0, <1>4, <2>1 DEF TriageEnds, TypeRecord
  <2>3. UNCHANGED <<pushed, recorded, released, releasedAt, observed, changedAt, job, published>>
    BY <1>4 DEF TriageEnds, baseline, world
  <2> QED
    BY <1>0, <2>2, <2>3 DEF TypeRecord, Tip
<1>5. CASE OpenFails \/ Open
  <2>1. released <= seen.tip
    BY <1>5 DEF OpenFails, Open, Observation, Deciding, IInv
  <2>2. job' \in {seen.tip, job}
    BY <1>5 DEF OpenFails, Open, Target
  <2>3. seen.tip \in released .. Tip
    BY <1>t, <2>1
  <2>4. UNCHANGED <<pushed, recorded, released, releasedAt, observed, changedAt, triage, published>>
    BY <1>5 DEF OpenFails, Open, baseline, world
  <2> QED
    BY <1>0, <2>2, <2>3, <2>4 DEF TypeRecord, Tip
<1>6. CASE Finish
  <2>1. job \in released .. Tip
    BY <1>0, <1>6 DEF Finish, Observation, IInv, TypeRecord
  <2>2. released' \in 0 .. Tip /\ releasedAt' = now /\ job' = NoJob /\ published' = now
    BY <1>6, <1>t, <2>1 DEF Finish
  <2>3. UNCHANGED <<pushed, recorded, observed, changedAt, triage>>
    BY <1>6 DEF Finish
  <2> QED
    BY <1>0, <1>t, <2>2, <2>3 DEF TypeRecord, Tip
<1> QED
  BY <1>1, <1>2, <1>3, <1>4, <1>5, <1>6
  DEF Next, Daemon, vars, Wake, CycleFails, CycleResumes, DecideByCadence, ReuseDecision,
      KeepWaiting, BeginTriage, TriageNotSetUp, Pending, Start, Stop, Push, LocalCommit,
      ReleaseElsewhere, Tick

LEMMA TypeProcessStep == IInv /\ [Next]_vars => TypeProcess'
<1> SUFFICES ASSUME IInv, [Next]_vars PROVE TypeProcess'
  OBVIOUS
<1>0. TypeOK /\ TypeProcess
  BY TypeParts DEF IInv
<1>t. /\ Tip \in Nat /\ Tip' \in Nat /\ Tip <= Tip'
      /\ now \in Nat /\ Poll \in Nat /\ MaxFaults \in Nat
  BY <1>0, TipGrows, Constants, ConstantsAssumption DEF TypeOK, Times
<1>s. \A x \in [head : Heads, tip : 0 .. Tip] : x \in [head : Heads, tip : 0 .. Tip']
  BY <1>t
<1> DEFINE Seen == seen' \in [head : Heads, tip : 0 .. Tip]
           Assessed == assessed' \in {seen, assessed}
           Bound == faults' \in {faults} \/ Fault
<1>1. ASSUME UNCHANGED <<at, wakeAt, reason, healthy>> \/ Sleep(TRUE) \/ Sleep(FALSE)
               \/ (pc' = "decide" /\ at' = now /\ UNCHANGED <<wakeAt, reason, healthy>>)
               \/ (reason' \in Reasons /\ UNCHANGED <<at, wakeAt, healthy>>),
             pc' \in {"down", "idle", "cycle", "bootstrap", "decide", "triage", "open", "release"},
             force' \in BOOLEAN, Seen, Assessed, Bound
      PROVE  TypeProcess'
  <2>1. wakeAt' \in Nat /\ at' \in Nat /\ reason' \in Reasons /\ healthy' \in BOOLEAN
    <3>1. wakeAt \in Nat /\ at \in Nat /\ reason \in Reasons /\ healthy \in BOOLEAN
      BY <1>0 DEF TypeProcess, Times
    <3>2. CASE Sleep(TRUE) \/ Sleep(FALSE)
      <4>1. wakeAt' = now + Poll /\ at' = 0 /\ reason' = ""
        BY <3>2 DEF Sleep
      <4>2. healthy' = TRUE \/ healthy' = FALSE
        BY <3>2 DEF Sleep
      <4>3. healthy' \in BOOLEAN
        BY <4>2, Zenon
      <4>4. now + Poll \in Nat /\ 0 \in Nat
        BY <1>t
      <4> QED
        BY <4>1, <4>3, <4>4 DEF Reasons
    <3> QED
      BY <1>1, <1>t, <3>1, <3>2
  <2>2. faults' \in 0 .. MaxFaults
    BY <1>0, <1>1, <1>t DEF Fault, TypeProcess
  <2>3. seen' \in [head : Heads, tip : 0 .. Tip'] /\ assessed' \in [head : Heads, tip : 0 .. Tip']
    BY <1>0, <1>1, <1>s DEF TypeProcess
  <2> QED
    BY <1>1, <2>1, <2>2, <2>3 DEF TypeProcess, Times
<1>2. CASE Exit /\ UNCHANGED <<assessed, faults>>
  <2>1. [head |-> <<0, {}>>, tip |-> 0] \in [head : Heads, tip : 0 .. Tip']
    BY <1>t DEF Heads
  <2>2. /\ pc' = "down" /\ wakeAt' = 0 /\ healthy' = FALSE /\ at' = 0 /\ reason' = ""
        /\ force' = FALSE /\ seen' = [head |-> <<0, {}>>, tip |-> 0]
    BY <1>2 DEF Exit
  <2> QED
    BY <1>0, <1>2, <1>s, <2>1, <2>2 DEF TypeProcess, Times, Reasons
<1>3. CASE UNCHANGED <<process, healthy, assessed, faults>>
  BY <1>0, <1>3, <1>s DEF TypeProcess, process
<1>4. force \in BOOLEAN /\ seen \in [head : Heads, tip : 0 .. Tip]
  BY <1>0 DEF TypeProcess
<1>5. CASE Wake \/ CycleResumes \/ Start \/ BeginTriage
  BY <1>1, <1>4, <1>5 DEF Wake, CycleResumes, Start, BeginTriage
<1>6. CASE CycleFails \/ KeepWaiting
  BY <1>1, <1>4, <1>6 DEF CycleFails, KeepWaiting, Sleep
<1>7. CASE DecideByCadence \/ ReuseDecision
  BY <1>0, <1>1, <1>4, <1>7, DueMeans DEF DecideByCadence, ReuseDecision, Reasons
<1>8. CASE Fetch
  BY <1>0, <1>1, <1>4, <1>8, CurrentTyped DEF Fetch
<1>9. CASE Observe
  <2>1. Seen
    BY <1>0, <1>4, <1>9, CurrentTyped DEF Observe
  <2>2. /\ \/ pc' = "decide" /\ at' = now /\ UNCHANGED <<wakeAt, healthy, reason, faults>>
           \/ Fault /\ Sleep(FALSE)
        /\ UNCHANGED <<force, assessed>>
    BY <1>9 DEF Observe
  <2> QED
    BY <1>1, <1>4, <2>1, <2>2 DEF Sleep
<1>10. CASE TriageEnds
  <2>1. /\ \/ pc' = "open" /\ reason' = "triage" /\ UNCHANGED <<at, wakeAt, healthy, faults>>
           \/ Sleep(TRUE) /\ UNCHANGED faults
           \/ Fault /\ Sleep(FALSE)
        /\ UNCHANGED <<force, seen>> /\ assessed' \in {seen, assessed}
    BY <1>10 DEF TriageEnds
  <2> QED
    BY <1>1, <1>4, <2>1 DEF Sleep, Reasons
<1>11. CASE OpenFails \/ Open
  BY <1>1, <1>4, <1>11 DEF OpenFails, Open, Sleep
<1>12. CASE Finish
  BY <1>1, <1>4, <1>12 DEF Finish, Sleep
<1>13. CASE Pending
  BY <1>1, <1>2, <1>4, <1>13 DEF Pending, Sleep
<1> QED
  BY <1>2, <1>3, <1>5, <1>6, <1>7, <1>8, <1>9, <1>10, <1>11, <1>12, <1>13
  DEF Next, Daemon, vars, Stop, TriageNotSetUp, Push, LocalCommit, ReleaseElsewhere, Tick

\* Time and the lists of commits only grow, and the heads come from the world.
LEMMA WorldGrows ==
  ASSUME TypeOK, [Next]_vars
  PROVE  /\ now \in Nat /\ now' \in Nat /\ now <= now'
         /\ Len(made) \in Nat /\ Len(made') \in Nat /\ Len(made) <= Len(made')
         /\ \A c \in 1 .. Tip : pushed'[c] = pushed[c]
         /\ \A c \in 1 .. Len(made) : made'[c] = made[c]
<1>1. now \in Nat /\ Len(made) \in Nat
  BY DEF TypeOK, Times
<1>2. CASE Push
  <2>1. UNCHANGED <<now, made>>
    BY <1>2 DEF Push
  <2> QED
    BY <1>1, <1>2, <2>1, PushKeeps
<1>3. CASE LocalCommit
  BY <1>1, <1>3, LocalKeeps DEF LocalCommit
<1>4. CASE Tick
  BY <1>1, <1>4 DEF Tick, world
<1>5. CASE UNCHANGED <<now, pushed, made>>
  BY <1>1, <1>5
<1> QED
  BY <1>2, <1>3, <1>4, <1>5 DEF Next, Daemon, vars, world, Wake, CycleFails, CycleResumes, Fetch,
     Observe, DecideByCadence, ReuseDecision, KeepWaiting, BeginTriage, TriageEnds,
     TriageNotSetUp, OpenFails, Open, Finish, Pending, Start, Stop, ReleaseElsewhere

LEMMA HeadsSeen ==
  ASSUME TypeOK, [Next]_vars
  PROVE  /\ seen' \in {seen, Current, [head |-> <<0, {}>>, tip |-> 0]}
         /\ observed' \in {observed, seen, Current}
BY DEF Next, Daemon, vars, world, record, baseline, process, Wake, CycleFails, CycleResumes, Fetch,
   Observe, DecideByCadence, ReuseDecision, KeepWaiting, BeginTriage, TriageEnds, TriageNotSetUp,
   OpenFails, Open, Finish, Pending, Start, Stop, Exit, Sleep, Push, LocalCommit,
   ReleaseElsewhere, Tick

LEMMA PastStep == IInv /\ [Next]_vars => Past'
<1> SUFFICES ASSUME IInv, [Next]_vars PROVE Past'
  OBVIOUS
<1>0. TypeOK /\ Past
  BY DEF IInv
<1>1. \A c \in 1 .. Tip' : pushed'[c] <= now'
  <2>1. CASE Push
    <3>1. Tip' = Tip + 1 /\ Tip \in Nat /\ pushed'[Tip + 1] = now /\ now' = now /\ now \in Nat
      BY <1>0, <2>1, PushKeeps DEF Push, TypeOK, Times
    <3>2. \A c \in 1 .. Tip : pushed'[c] <= now
      BY <1>0, <2>1, PushKeeps DEF Past
    <3> QED
      BY <3>1, <3>2
  <2>2. CASE UNCHANGED pushed
    <3>1. \A c \in 1 .. Tip : pushed[c] \in Nat
      BY <1>0 DEF TypeOK, Tip, Times
    <3> QED
      BY <1>0, <2>2, <3>1, WorldGrows DEF Past, Tip
  <2> QED
    BY <2>1, <2>2 DEF Next, Daemon, vars, world, Wake, CycleFails, CycleResumes, Fetch, Observe,
       DecideByCadence, ReuseDecision, KeepWaiting, BeginTriage, TriageEnds, TriageNotSetUp,
       OpenFails, Open, Finish, Pending, Start, Stop, LocalCommit, ReleaseElsewhere, Tick
<1>2. \A c \in 1 .. Len(made') : made'[c] <= now'
  <2>1. CASE LocalCommit
    <3>1. /\ Len(made') = Len(made) + 1 /\ Len(made) \in Nat
          /\ made'[Len(made) + 1] = now /\ now' = now /\ now \in Nat
      BY <1>0, <2>1, LocalKeeps DEF LocalCommit, TypeOK, Times
    <3>2. \A c \in 1 .. Len(made) : made'[c] <= now
      BY <1>0, <2>1, LocalKeeps DEF Past
    <3> QED
      BY <3>1, <3>2
  <2>2. CASE UNCHANGED made
    <3>1. \A c \in 1 .. Len(made) : made[c] \in Nat
      BY <1>0 DEF TypeOK, Times
    <3> QED
      BY <1>0, <2>2, <3>1, WorldGrows DEF Past
  <2> QED
    BY <2>1, <2>2 DEF Next, Daemon, vars, world, Wake, CycleFails, CycleResumes, Fetch, Observe,
       DecideByCadence, ReuseDecision, KeepWaiting, BeginTriage, TriageEnds, TriageNotSetUp,
       OpenFails, Open, Finish, Pending, Start, Stop, Push, ReleaseElsewhere, Tick
<1>3. \A x \in {seen, observed, Current, [head |-> <<0, {}>>, tip |-> 0]} :
        x.head[2] \subseteq 1 .. Len(made')
  <2>1. Current.head[2] \subseteq 1 .. Len(made)
    BY <1>0, CurrentTyped DEF TypeOK
  <2>2. seen.head[2] \subseteq 1 .. Len(made) /\ observed.head[2] \subseteq 1 .. Len(made)
    BY <1>0 DEF Past
  <2>3. 1 .. Len(made) \subseteq 1 .. Len(made')
    BY <1>0, WorldGrows
  <2>4. [head |-> <<0, {}>>, tip |-> 0].head[2] = {}
    OBVIOUS
  <2> QED
    BY <2>1, <2>2, <2>3, <2>4
<1>4. seen'.head[2] \subseteq 1 .. Len(made') /\ observed'.head[2] \subseteq 1 .. Len(made')
  BY <1>0, <1>3, HeadsSeen
<1> QED
  BY <1>1, <1>2, <1>4 DEF Past

\* A baseline is the latest candidate's time.
LEMMA BaselineInTruth ==
  ASSUME IInv, pc = "bootstrap", NEW b \in Baselines
  PROVE  b.at = published
<1>1. /\ Candidates = {} => b.at = NoTime
      /\ Candidates # {} => b \in Candidates /\ \A q \in Candidates : q.at <= b.at
  BY BaselineTyped DEF IInv
<1>2. \A q \in Candidates : q.at \in Nat
  <2>1. Range(history) \subseteq Releases
    BY DEF IInv, TypeOK, Range
  <2> QED
    BY <2>1 DEF Candidates, Releases, Times
<1>3. CASE Candidates = {}
  BY <1>1, <1>3 DEF IInv, Baseline
<1>4. CASE Candidates # {}
  <2>1. PICK r \in Candidates : published = r.at /\ \A q \in Candidates : q.at <= r.at
    BY <1>4 DEF IInv, Baseline
  <2>2. b.at <= r.at /\ r.at <= b.at /\ b.at \in Nat /\ r.at \in Nat
    BY <1>1, <1>2, <1>4, <2>1
  <2> QED
    BY <2>1, <2>2
<1> QED
  BY <1>3, <1>4

\* What the two observers of the world do.
LEMMA ObserveKnown ==
  ASSUME IInv, Observe
  PROVE  \E s \in [head : Heads, tip : 0 .. Tip] :
           /\ seen' = s /\ s \in {seen, Current} /\ s.head[2] \subseteq 1 .. Len(made)
           /\ job = NoJob /\ job' = NoJob
           /\ UNCHANGED <<now, pushed, made, own, triage, force, assessed, published>>
           /\ \/ UNCHANGED <<history, baseline, observed, changedAt>>
              \/ /\ recorded' = TRUE /\ observed' = s
                 /\ released' \in 0 .. s.tip /\ releasedAt' = published
                 /\ changedAt' = IF Changed(s) THEN now ELSE changedAt
           /\ \/ Sleep(FALSE)
              \/ recorded' = TRUE /\ observed' = s /\ pc' = "decide" /\ at' = now
                   /\ UNCHANGED <<wakeAt, healthy, reason>>
<1> DEFINE s == IF recorded THEN Current ELSE seen
<1>0. TypeOK /\ Past /\ Baseline
  BY DEF IInv
<1>1. s \in [head : Heads, tip : 0 .. Tip] /\ s.head[2] \subseteq 1 .. Len(made)
  BY <1>0, CurrentTyped DEF TypeOK, Past
<1>2. /\ seen' = s /\ s \in {seen, Current} /\ job = NoJob /\ job' = NoJob
      /\ UNCHANGED <<now, pushed, made, own, triage, force, assessed, published>>
  BY DEF Observe
<1>3. \/ UNCHANGED <<history, baseline, observed, changedAt>>
      \/ /\ recorded' = TRUE /\ observed' = s
         /\ changedAt' = IF Changed(s) THEN now ELSE changedAt
         /\ IF recorded THEN UNCHANGED <<released, releasedAt>>
            ELSE \E b \in Baselines : released' = b.commit /\ releasedAt' = b.at
  BY DEF Observe
<1>4. ASSUME IF recorded THEN UNCHANGED <<released, releasedAt>>
             ELSE \E b \in Baselines : released' = b.commit /\ releasedAt' = b.at
      PROVE  released' \in 0 .. s.tip /\ releasedAt' = published
  <2>1. CASE recorded
    <3>1. s.tip = Tip /\ released \in 0 .. Tip
      BY <1>0, <2>1, CurrentTyped DEF TypeOK
    <3> QED
      BY <1>0, <1>4, <2>1, <3>1 DEF Baseline
  <2>2. CASE ~ recorded
    <3>1. pc = "bootstrap" /\ s = seen
      BY <2>2 DEF Observe
    <3> QED
      BY <1>0, <1>4, <2>2, <3>1, BaselineTyped, BaselineInTruth
  <2> QED
    BY <2>1, <2>2
<1>5. \/ Sleep(FALSE)
      \/ recorded' = TRUE /\ observed' = s /\ pc' = "decide" /\ at' = now
           /\ UNCHANGED <<wakeAt, healthy, reason>>
  BY DEF Observe
<1> HIDE DEF s
<1> QED
  BY <1>1, <1>2, <1>3, <1>4, <1>5

LEMMA ObservationStep == IInv /\ [Next]_vars => Observation'
<1> SUFFICES ASSUME IInv, [Next]_vars PROVE Observation'
  OBVIOUS
<1>0. TypeOK /\ Past /\ Observation
  BY DEF IInv
<1>1. CASE Observe
  <2>1. PICK s \in [head : Heads, tip : 0 .. Tip] :
           /\ seen' = s /\ s \in {seen, Current} /\ s.head[2] \subseteq 1 .. Len(made)
           /\ job = NoJob /\ job' = NoJob
           /\ UNCHANGED <<now, pushed, made, own, triage, force, assessed, published>>
           /\ \/ UNCHANGED <<history, baseline, observed, changedAt>>
              \/ /\ recorded' = TRUE /\ observed' = s
                 /\ released' \in 0 .. s.tip /\ releasedAt' = published
                 /\ changedAt' = IF Changed(s) THEN now ELSE changedAt
           /\ \/ Sleep(FALSE)
              \/ recorded' = TRUE /\ observed' = s /\ pc' = "decide" /\ at' = now
                   /\ UNCHANGED <<wakeAt, healthy, reason>>
    BY <1>1, ObserveKnown
  <2>2. changedAt' <= now' /\ (\A c \in 1 .. observed'.tip : pushed'[c] <= changedAt')
        /\ \A c \in observed'.head[2] : made'[c] <= changedAt'
    <3>1. CASE UNCHANGED <<observed, changedAt>>
      BY <1>0, <2>1, <3>1 DEF Observation
    <3>2. CASE observed' = s /\ ~ Changed(s) /\ changedAt' = changedAt
      BY <1>0, <2>1, <3>2 DEF Observation, Changed
    <3>3. CASE observed' = s /\ changedAt' = now
      <4>1. \A c \in 1 .. s.tip : c \in 1 .. Tip
        BY <1>0, <2>1, WorldGrows, TipGrows
      <4>2. now <= now
        BY <1>0 DEF TypeOK, Times
      <4> QED
        BY <1>0, <2>1, <3>3, <4>1, <4>2 DEF Past
    <3> QED
      BY <2>1, <3>1, <3>2, <3>3
  <2>3. pc' \in Deciding => seen' = observed' /\ released' <= seen'.tip /\ job' = NoJob
    <3>1. CASE Sleep(FALSE)
      BY <3>1 DEF Sleep, Deciding
    <3>2. CASE pc' = "decide" /\ recorded' = TRUE /\ observed' = s
      <4>1. released' \in 0 .. s.tip
        <5>1. CASE UNCHANGED <<history, baseline, observed, changedAt>>
          <6>1. recorded /\ released' = released
            BY <3>2, <5>1 DEF baseline
          <6>2. s = Current
            BY <1>1, <2>1, <6>1 DEF Observe
          <6> QED
            BY <1>0, <6>1, <6>2, CurrentTyped DEF TypeOK
        <5> QED
          BY <2>1, <5>1
      <4> QED
        BY <2>1, <3>2, <4>1
    <3> QED
      BY <2>1, <3>1, <3>2
  <2>4. pc' # "release"
    BY <2>1 DEF Sleep
  <2> QED
    BY <2>2, <2>3, <2>4 DEF Observation
<1>2. CASE ~ Observe
  <2>1. UNCHANGED <<observed, changedAt>>
    BY <1>2 DEF Next, Daemon, vars, world, record, process, baseline, Wake, CycleFails,
       CycleResumes, Fetch, DecideByCadence, ReuseDecision, KeepWaiting, BeginTriage, TriageEnds,
       TriageNotSetUp, OpenFails, Open, Finish, Pending, Start, Stop, Push, LocalCommit,
       ReleaseElsewhere, Tick
  <2>2. observed.tip \in 0 .. Tip /\ observed.head[2] \subseteq 1 .. Len(made) /\ changedAt \in Nat
    BY <1>0 DEF TypeOK, Past, Times
  <2>3. changedAt' <= now'
    BY <1>0, <2>1, <2>2, WorldGrows DEF Observation
  <2>4. \A c \in 1 .. observed'.tip : pushed'[c] <= changedAt'
    <3>1. \A c \in 1 .. observed.tip : c \in 1 .. Tip
      BY <1>0, <2>2, TipGrows
    <3> QED
      BY <1>0, <2>1, <3>1, WorldGrows DEF Observation
  <2>5. \A c \in observed'.head[2] : made'[c] <= changedAt'
    BY <1>0, <2>1, <2>2, WorldGrows DEF Observation
  <2>6. pc' \in Deciding => UNCHANGED <<seen, released, job>> /\ pc \in Deciding
    BY <1>2 DEF Next, Daemon, vars, world, record, process, baseline, Deciding, Wake, CycleFails,
       CycleResumes, Fetch, DecideByCadence, ReuseDecision, KeepWaiting, BeginTriage, TriageEnds,
       TriageNotSetUp, OpenFails, Open, Finish, Pending, Start, Stop, Push, LocalCommit,
       ReleaseElsewhere, Tick, Sleep, Exit
  <2>7. pc' = "release" => job' # NoJob
    <3>1. CASE Open
      BY <1>0, <3>1, Constants DEF Open, Target, TypeOK
    <3>2. CASE CycleResumes
      BY <3>2 DEF CycleResumes, record
    <3>3. CASE ~ Open /\ ~ CycleResumes
      <4>1. pc' = "release" => pc = "release" /\ job' = job
        BY <1>2, <3>3 DEF Next, Daemon, vars, world, record, process, Wake, CycleFails,
           Fetch, DecideByCadence, ReuseDecision, KeepWaiting, BeginTriage, TriageEnds,
           TriageNotSetUp, OpenFails, Finish, Pending, Start, Stop, Push, LocalCommit,
           ReleaseElsewhere, Tick, Sleep, Exit
      <4> QED
        BY <1>0, <4>1 DEF Observation
    <3> QED
      BY <3>1, <3>2, <3>3
  <2> QED
    BY <1>0, <2>1, <2>3, <2>4, <2>5, <2>6, <2>7 DEF Observation
<1> QED
  BY <1>1, <1>2

\* The candidates after a fetch are the releases it found on the branch.
LEMMA FetchFindsAll ==
  ASSUME IInv, Fetch
  PROVE  /\ Candidates' = {} => published' = NoTime
         /\ Candidates' # {} =>
              \E r \in Candidates' : published' = r.at /\ \A q \in Candidates' : q.at <= r.at
<1> DEFINE known == {r \in Range(history) : r.commit <= Tip}
           Fetched(r) == [r EXCEPT !.tag = TRUE]
<1>1. history \in Seq(Releases)
  BY DEF IInv, TypeOK
<1>2. \A r \in Releases : /\ Fetched(r).tag = TRUE /\ Fetched(r).commit = r.commit
                          /\ Fetched(r).at = r.at
  BY DEF Releases
<1>3. DOMAIN history' = DOMAIN history /\ \A i \in DOMAIN history : history'[i] = Fetched(history[i])
  BY DEF Fetch
<1>4. seen'.tip = Tip
  BY CurrentTyped DEF Fetch, IInv
<1>5. \A i \in DOMAIN history : history[i] \in Releases
  BY <1>1
<1> HIDE DEF Fetched
<1>6. \A r \in known : Fetched(r) \in Candidates' /\ Fetched(r).at = r.at
  BY <1>2, <1>3, <1>4, <1>5 DEF Candidates, Range
<1>7. \A q \in Candidates' : \E r \in known : q.at = r.at
  BY <1>2, <1>3, <1>4, <1>5 DEF Candidates, Range
<1>8. \/ known = {} /\ published' = NoTime
      \/ \E r \in known : published' = r.at /\ \A q \in known : q.at <= r.at
  BY DEF Fetch
<1> HIDE DEF known
<1> QED
  BY <1>6, <1>7, <1>8

\* A release listed after the fetch is no candidate.
LEMMA CandidatesStay ==
  ASSUME IInv, ReleaseElsewhere
  PROVE  Candidates' = Candidates
<1>1. PICK c \in 0 .. Tip :
        history' = <<[commit |-> c, at |-> now, tag |-> FALSE]>> \o history
  BY DEF ReleaseElsewhere
<1> DEFINE x == [commit |-> c, at |-> now, tag |-> FALSE]
<1>2. x \in Releases /\ x.tag = FALSE
  BY WorldGrows, TipGrows DEF Releases, IInv, TypeOK, Times
<1>3. history \in Seq(Releases) /\ history' = <<x>> \o history /\ seen' = seen
  BY <1>1 DEF IInv, TypeOK, ReleaseElsewhere, process
<1> HIDE DEF x
<1>4. /\ Len(history') = Len(history) + 1 /\ Len(history) \in Nat
      /\ history'[1] = x
      /\ \A i \in 1 .. Len(history) : history'[i + 1] = history[i]
      /\ DOMAIN history = 1 .. Len(history) /\ DOMAIN history' = 1 .. Len(history')
  BY <1>2, <1>3
<1>5. \A i \in DOMAIN history' : i = 1 \/ (i - 1 \in DOMAIN history /\ history'[i] = history[i - 1])
  <2>1. \A i \in 1 .. Len(history) + 1 : i = 1 \/ (i - 1 \in 1 .. Len(history) /\ (i - 1) + 1 = i)
    BY <1>4
  <2> QED
    BY <1>4, <2>1
<1>6. \A i \in DOMAIN history : i + 1 \in DOMAIN history' /\ history'[i + 1] = history[i]
  BY <1>4
<1>7. \A r : r \in Range(history') <=> r = x \/ r \in Range(history)
  <2>1. 1 \in DOMAIN history'
    BY <1>4
  <2> QED
    <3>1. x \in Range(history')
      BY <1>4, <2>1 DEF Range
    <3>2. \A r \in Range(history) : r \in Range(history')
      BY <1>6 DEF Range
    <3>3. \A r \in Range(history') : r = x \/ r \in Range(history)
      BY <1>4, <1>5 DEF Range
    <3> QED
      BY <3>1, <3>2, <3>3
<1>8. \A r : r \in Candidates' <=> r \in Candidates
  BY <1>2, <1>3, <1>7 DEF Candidates
<1>9. Candidates' \subseteq Candidates /\ Candidates \subseteq Candidates'
  BY <1>8
<1> QED
  BY <1>9

LEMMA BaselineStep == IInv /\ [Next]_vars => Baseline'
<1> SUFFICES ASSUME IInv, [Next]_vars PROVE Baseline'
  OBVIOUS
<1>0. TypeOK /\ Observation /\ Baseline
  BY DEF IInv
<1>1. CASE Fetch
  <2>1. UNCHANGED <<recorded, released, releasedAt, job>> /\ ~ recorded /\ pc' = "bootstrap"
    BY <1>1 DEF Fetch, record, baseline
  <2> QED
    BY <1>0, <1>1, <2>1, FetchFindsAll DEF Baseline, Deciding
<1>2. CASE Observe
  <2>1. PICK s \in [head : Heads, tip : 0 .. Tip] :
           /\ seen' = s /\ s \in {seen, Current} /\ s.head[2] \subseteq 1 .. Len(made)
           /\ job = NoJob /\ job' = NoJob
           /\ UNCHANGED <<now, pushed, made, own, triage, force, assessed, published>>
           /\ \/ UNCHANGED <<history, baseline, observed, changedAt>>
              \/ /\ recorded' = TRUE /\ observed' = s
                 /\ released' \in 0 .. s.tip /\ releasedAt' = published
                 /\ changedAt' = IF Changed(s) THEN now ELSE changedAt
           /\ \/ Sleep(FALSE)
              \/ recorded' = TRUE /\ observed' = s /\ pc' = "decide" /\ at' = now
                   /\ UNCHANGED <<wakeAt, healthy, reason>>
    BY <1>2, ObserveKnown
  <2>2. pc' # "bootstrap" /\ (pc' \in Deciding => recorded')
    BY <2>1 DEF Sleep, Deciding
  <2> QED
    BY <1>0, <2>1, <2>2 DEF Baseline, baseline
<1>3. CASE Finish
  <2>1. recorded /\ UNCHANGED recorded /\ releasedAt' = now /\ published' = now
        /\ pc' = "idle" /\ job' = NoJob
    BY <1>0, <1>3 DEF Finish, Sleep, Observation, Baseline
  <2> QED
    BY <2>1 DEF Baseline, Deciding
<1>4. CASE OpenFails \/ Open
  <2>1. recorded /\ UNCHANGED <<recorded, released, releasedAt, published>> /\ pc' # "bootstrap"
    BY <1>0, <1>4 DEF OpenFails, Open, baseline, Baseline, Deciding, Sleep
  <2> QED
    BY <1>0, <2>1 DEF Baseline
<1>5. CASE ReleaseElsewhere
  <2>1. UNCHANGED <<recorded, released, releasedAt, published, job, pc>>
    BY <1>5 DEF ReleaseElsewhere, record, baseline, process
  <2> QED
    BY <1>0, <1>5, <2>1, CandidatesStay DEF Baseline
<1>6. CASE ~ (Fetch \/ Observe \/ Finish \/ OpenFails \/ Open \/ ReleaseElsewhere)
  <2>1. /\ UNCHANGED <<recorded, released, releasedAt, published, job, history>>
        /\ pc' = "bootstrap" => pc = "bootstrap" /\ seen' = seen
        /\ pc' \in Deciding => pc \in Deciding
    BY <1>6 DEF Next, Daemon, vars, world, record, process, baseline, Deciding, Wake, CycleFails,
       CycleResumes, DecideByCadence, ReuseDecision, KeepWaiting, BeginTriage, TriageEnds,
       TriageNotSetUp, Pending, Start, Stop, Push, LocalCommit, Tick, Sleep, Exit
  <2>2. pc' = "bootstrap" => Candidates' = Candidates
    BY <2>1 DEF Candidates
  <2> QED
    BY <1>0, <2>1, <2>2 DEF Baseline
<1> QED
  BY <1>1, <1>2, <1>3, <1>4, <1>5, <1>6

\* Between the rules of the cadence the last release is known and not old.
LEMMA BetweenRules ==
  ASSUME IInv, pc = "decide", ~ Cadenced, Unreleased(seen)
  PROVE  releasedAt # NoTime /\ releasedAt \in Nat /\ at \in Nat /\ at < releasedAt + Daily
<1>0. TypeOK /\ Past /\ Observation /\ pc \in Deciding
  BY DEF IInv, Deciding
<1>1. Total(seen) # 0
  BY <1>0, TotalOfUnreleased DEF Observation
<1>2. Due(seen, at) = ""
  BY DEF Cadenced
<1>3. releasedAt # NoTime /\ ~ (at - releasedAt >= Daily)
  BY <1>0, <1>1, <1>2, DueMeans
<1> QED
  BY <1>0, <1>3, Constants DEF TypeOK, Times

LEMMA TriageableMeans ==
  ASSUME IInv, pc = "decide", Triageable
  PROVE  /\ releasedAt # NoTime /\ releasedAt \in Nat /\ at \in Nat
         /\ at < releasedAt + Daily /\ at - changedAt >= Quiet
<1>1. TypeOK
  BY DEF IInv
<1>2. Total(seen) > 0 /\ ~ Cadenced /\ at - changedAt >= Quiet
  BY DEF Triageable
<1>3. Due(seen, at) = ""
  BY <1>2 DEF Cadenced
<1>4. Total(seen) # 0
  BY <1>2
<1>5. releasedAt # NoTime /\ ~ (at - releasedAt >= Daily)
  BY <1>1, <1>3, <1>4, DueMeans
<1>6. releasedAt \in Nat /\ at \in Nat
  BY <1>1, <1>5 DEF TypeOK, Times
<1> QED
  BY <1>2, <1>5, <1>6, Constants

LEMMA TimerStep == IInv /\ [Next]_vars => Timer'
<1> SUFFICES ASSUME IInv, [Next]_vars PROVE Timer'
  OBVIOUS
<1>0. TypeOK /\ Observation /\ Timer
  BY DEF IInv
<1>t. /\ now \in Nat /\ at \in Nat /\ wakeAt \in Nat
      /\ Daily \in Nat /\ Daily > 0 /\ Poll \in Nat /\ Poll > 0 /\ TriageTimeout \in Nat
      /\ NoTime \notin Nat
  BY <1>0, Constants DEF TypeOK, Times
<1>1. ASSUME Sleep(FALSE), now' = now
      PROVE  Timer'
  <2>1. pc' = "idle" /\ wakeAt' = now + Poll /\ healthy' = FALSE
    BY <1>1 DEF Sleep
  <2> QED
    BY <1>1, <1>t, <2>1 DEF Timer
<1>2. ASSUME Sleep(TRUE), now' = now,
             job' = NoJob /\ Unreleased(seen)' =>
               /\ releasedAt' # NoTime
               /\ wakeAt' < releasedAt' + Daily + TriageTimeout + Poll
      PROVE  Timer'
  <2>1. pc' = "idle" /\ wakeAt' = now + Poll
    BY <1>2 DEF Sleep
  <2> QED
    BY <1>2, <1>t, <2>1 DEF Timer
<1>3. CASE Observe
  <2>1. PICK s \in [head : Heads, tip : 0 .. Tip] :
           /\ seen' = s /\ s \in {seen, Current} /\ s.head[2] \subseteq 1 .. Len(made)
           /\ job = NoJob /\ job' = NoJob
           /\ UNCHANGED <<now, pushed, made, own, triage, force, assessed, published>>
           /\ \/ UNCHANGED <<history, baseline, observed, changedAt>>
              \/ /\ recorded' = TRUE /\ observed' = s
                 /\ released' \in 0 .. s.tip /\ releasedAt' = published
                 /\ changedAt' = IF Changed(s) THEN now ELSE changedAt
           /\ \/ Sleep(FALSE)
              \/ recorded' = TRUE /\ observed' = s /\ pc' = "decide" /\ at' = now
                   /\ UNCHANGED <<wakeAt, healthy, reason>>
    BY <1>3, ObserveKnown
  <2>2. CASE pc' = "decide" /\ at' = now
    BY <1>t, <2>1, <2>2 DEF Timer
  <2> QED
    BY <1>1, <2>1, <2>2
<1>4. CASE KeepWaiting
  <2>1. pc = "decide" /\ ~ Cadenced /\ Sleep(TRUE)
        /\ UNCHANGED <<now, seen, released, releasedAt, job>> /\ wakeAt' = now + Poll
    BY <1>4 DEF KeepWaiting, record, baseline, Sleep
  <2>2. Unreleased(seen)' = Unreleased(seen)
    BY <2>1 DEF Unreleased
  <2>3. now = at
    BY <1>0, <2>1 DEF Timer
  <2> QED
    BY <1>2, <1>t, <2>1, <2>2, <2>3, BetweenRules
<1>5. CASE BeginTriage
  <2>1. pc = "decide" /\ Triageable /\ pc' = "triage" /\ UNCHANGED <<now, at, releasedAt>>
    BY <1>5 DEF BeginTriage, record, baseline
  <2>2. now = at
    BY <1>0, <2>1 DEF Timer
  <2> QED
    BY <1>t, <2>1, <2>2, TriageableMeans DEF Timer
<1>6. CASE TriageEnds
  <2>1. /\ \/ pc' = "open" \/ Sleep(TRUE) \/ Sleep(FALSE)
        /\ pc = "triage" /\ UNCHANGED <<now, releasedAt>>
    BY <1>6 DEF TriageEnds, baseline
  <2>2. /\ releasedAt # NoTime /\ releasedAt \in Nat
        /\ at < releasedAt + Daily /\ now <= at + TriageTimeout
    BY <1>0, <2>1 DEF Timer, TypeOK, Times
  <2>3. CASE Sleep(TRUE)
    <3>1. wakeAt' = now + Poll
      BY <2>3 DEF Sleep
    <3> QED
      BY <1>2, <1>t, <2>1, <2>2, <2>3, <3>1
  <2>4. CASE pc' = "open"
    BY <2>4 DEF Timer
  <2> QED
    BY <1>1, <2>1, <2>3, <2>4
<1>7. CASE Finish
  <2>1. Sleep(TRUE) /\ releasedAt' = now /\ now' = now /\ wakeAt' = now + Poll
    BY <1>7 DEF Finish, Sleep
  <2> QED
    BY <1>2, <1>t, <2>1
<1>8. CASE Pending
  <2>1. job # NoJob /\ UNCHANGED <<job, now>>
    BY <1>0, <1>8 DEF Pending, Observation, record
  <2>2. CASE Sleep(TRUE)
    BY <1>2, <2>1, <2>2
  <2>3. CASE Exit
    BY <2>3 DEF Exit, Timer
  <2> QED
    BY <1>8, <2>2, <2>3 DEF Pending
<1>9. CASE CycleFails \/ OpenFails
  BY <1>1, <1>9 DEF CycleFails, OpenFails
<1>10. CASE Tick
  <2>1. /\ now' = now + 1 /\ pc # "decide"
        /\ pc = "idle" => now < wakeAt
        /\ pc = "triage" => now < at + TriageTimeout
        /\ UNCHANGED <<pc, at, wakeAt, seen, healthy, job, released, releasedAt>>
    BY <1>10 DEF Tick, process, record, baseline
  <2>2. Unreleased(seen)' = Unreleased(seen)
    BY <2>1 DEF Unreleased
  <2>3. (pc' = "idle" => now' <= wakeAt') /\ (pc' = "decide" => now' = at')
        /\ (pc' = "triage" => at' <= now' /\ now' <= at' + TriageTimeout)
    BY <1>0, <1>t, <2>1 DEF Timer
  <2> QED
    BY <1>0, <2>1, <2>2, <2>3 DEF Timer
<1>11. CASE ~ (Observe \/ KeepWaiting \/ BeginTriage \/ TriageEnds \/ Finish \/ Pending
                \/ CycleFails \/ OpenFails \/ Tick)
  <2>1. \/ UNCHANGED <<now, pc, at, wakeAt, seen, healthy, job, released, releasedAt>>
        \/ pc' \notin {"idle", "decide", "triage"}
    BY <1>11 DEF Next, Daemon, vars, world, record, process, baseline, Wake, CycleResumes, Fetch,
       DecideByCadence, ReuseDecision, TriageNotSetUp, Open, Start, Stop, Push, LocalCommit,
       ReleaseElsewhere, Exit
  <2>2. ASSUME UNCHANGED <<now, pc, at, wakeAt, seen, healthy, job, released, releasedAt>>
        PROVE  Timer'
    <3>1. Unreleased(seen)' = Unreleased(seen)
      BY <2>2 DEF Unreleased
    <3> QED
      BY <1>0, <2>2, <3>1 DEF Timer
  <2> QED
    BY <2>1, <2>2 DEF Timer
<1> QED
  BY <1>3, <1>4, <1>5, <1>6, <1>7, <1>8, <1>9, <1>10, <1>11

LEMMA JustifiedStep == IInv /\ [Next]_vars => Justified'
<1> SUFFICES ASSUME IInv, [Next]_vars PROVE Justified'
  OBVIOUS
<1>0. TypeOK /\ Justified
  BY DEF IInv
<1>1. ASSUME pc' \notin {"triage", "open"}, UNCHANGED <<triage, assessed>>
      PROVE  Justified'
  BY <1>0, <1>1 DEF Justified
<1>2. CASE DecideByCadence
  <2>1. /\ pc' = "open" /\ Cadenced /\ UNCHANGED <<at, changedAt, releasedAt, triage, assessed>>
        /\ reason' = IF force /\ Total(seen) > 0 THEN "forced" ELSE Due(seen, at)
    BY <1>2 DEF DecideByCadence, record, baseline
  <2>2. CASE reason' = "forced"
    BY <1>0, <2>1, <2>2 DEF Justified
  <2>3. CASE reason' = Due(seen, at) /\ Due(seen, at) # ""
    BY <1>0, <2>1, <2>3, DueMeans DEF Justified
  <2> QED
    BY <2>1, <2>2, <2>3 DEF Cadenced
<1>3. CASE ReuseDecision
  <2>1. /\ pc = "decide" /\ Triageable /\ Applies(seen) /\ reason' = "triage" /\ pc' = "open"
        /\ UNCHANGED <<at, changedAt, releasedAt, triage, assessed, seen>>
    BY <1>3 DEF ReuseDecision, record, baseline
  <2>2. assessed.head = seen.head
    BY <1>0, <2>1 DEF Applies, Justified
  <2> QED
    BY <1>0, <2>1, <2>2, TriageableMeans DEF Justified
<1>4. CASE BeginTriage
  <2>1. /\ pc = "decide" /\ Triageable /\ pc' = "triage"
        /\ UNCHANGED <<at, changedAt, releasedAt, triage, assessed, seen>>
    BY <1>4 DEF BeginTriage, record, baseline
  <2> QED
    BY <1>0, <2>1, TriageableMeans DEF Justified
<1>5. CASE TriageEnds
  <2>1. UNCHANGED <<changedAt, releasedAt, seen>> /\ pc = "triage"
    BY <1>5 DEF TriageEnds, baseline
  <2>2. PICK d \in {"release", "wait", "error"} :
          \/ /\ triage' = Assessment(d) /\ assessed' = seen
             /\ \/ d = "release" /\ pc' = "open" /\ reason' = "triage" /\ at' = at
                \/ Sleep(TRUE) \/ Sleep(FALSE)
          \/ Sleep(FALSE) /\ UNCHANGED <<triage, assessed>>
    BY <1>5 DEF TriageEnds
  <2>3. CASE Sleep(FALSE) /\ UNCHANGED <<triage, assessed>>
    BY <1>1, <2>3 DEF Sleep
  <2>4. CASE triage' = Assessment(d) /\ assessed' = seen
    <3>1. triage'.head = assessed'.head /\ assessed'.head = seen'.head
      BY <2>1, <2>4 DEF Assessment
    <3> QED
      BY <1>0, <2>1, <2>2, <2>4, <3>1 DEF Justified, Sleep
  <2> QED
    BY <2>2, <2>3, <2>4
<1>6. CASE Observe
  BY <1>1, <1>6 DEF Observe, Sleep
<1>7. CASE ~ (DecideByCadence \/ ReuseDecision \/ BeginTriage \/ TriageEnds \/ Observe)
  <2>1. UNCHANGED <<triage, assessed>> /\
        \/ pc' \notin {"triage", "open"}
        \/ UNCHANGED <<pc, reason, at, changedAt, releasedAt, seen>>
    BY <1>7 DEF Next, Daemon, vars, world, record, process, baseline, Wake, CycleResumes, Fetch,
       CycleFails, KeepWaiting, TriageNotSetUp, OpenFails, Open, Finish, Pending, Start, Stop,
       Push, LocalCommit, ReleaseElsewhere, Tick, Sleep, Exit
  <2> QED
    BY <1>0, <1>1, <2>1 DEF Justified
<1> QED
  BY <1>2, <1>3, <1>4, <1>5, <1>6, <1>7

-----------------------------------------------------------------------------
(* The theorems *)

LEMMA IInvStep == IInv /\ [Next]_vars => IInv'
<1>1. IInv /\ [Next]_vars => TypeOK'
  <2> SUFFICES ASSUME IInv, [Next]_vars PROVE TypeOK'
    OBVIOUS
  <2>1. TypeWorld' /\ TypeRecord' /\ TypeProcess'
    BY TypeWorldStep, TypeRecordStep, TypeProcessStep
  <2> QED
    BY <2>1 DEF TypeOK, TypeWorld, TypeRecord, TypeProcess
<1> QED
  BY <1>1, PastStep, ObservationStep, BaselineStep, TimerStep, JustifiedStep DEF IInv

\* Every reachable state is one the argument is about.
LEMMA IInvariant == Spec => []IInv
BY InitIInv, IInvStep, PTL DEF Spec

\* Every variable keeps its type: a pending target is on the branch and not
\* behind the release, and no decision is about a branch longer than it is.
THEOREM TypeCorrectness == Spec => []TypeOK
<1>1. IInv => TypeOK
  BY DEF IInv
<1> QED
  BY <1>1, IInvariant, PTL

\* The daily deadline is kept for every choice of durations (bootstrap, cycle,
\* due in release.go; decide in triage.go).
THEOREM DeadlineIsKept == Spec => []DeadlineKept
<1>1. IInv => DeadlineKept
  <2> SUFFICES ASSUME IInv, pc = "idle", healthy, job = NoJob, Unreleased(seen)
               PROVE  releasedAt # NoTime /\ now < releasedAt + Daily + TriageTimeout + Poll
    BY DEF DeadlineKept
  <2>1. /\ releasedAt # NoTime /\ wakeAt < releasedAt + Daily + TriageTimeout + Poll
        /\ now <= wakeAt
    BY DEF IInv, Timer
  <2>2. releasedAt \in Nat /\ now \in Nat /\ wakeAt \in Nat
    BY <2>1 DEF IInv, TypeOK, Times
  <2> QED
    BY <2>1, <2>2, Constants
<1> QED
  BY <1>1, IInvariant, PTL

\* What is released early has been quiet (due in release.go, decide and
\* runTriage in triage.go): the reason it was opened for speaks of the very head
\* and branch whose last change the record holds, and counts from the last
\* release in truth.
THEOREM EarlyIsQuiet == Spec => EarlyReleaseIsQuiet
<1> DEFINE Early == /\ pc = "open" /\ job' # job /\ reason # "forced"
                    /\ published # NoTime /\ at < published + Daily
           Settled == /\ \A c \in released + 1 .. seen.tip : at - pushed[c] >= Quiet
                      /\ \A c \in seen.head[2] : at - made[c] >= Quiet
<1>1. IInv => (Early => Settled)
  <2> SUFFICES ASSUME IInv, pc = "open", reason # "forced",
                      published # NoTime, at < published + Daily
               PROVE  Settled
    OBVIOUS
  <2>0. TypeOK /\ Past /\ Observation /\ Baseline /\ Justified /\ pc \in Deciding
    BY DEF IInv, Deciding
  <2>1. releasedAt = published /\ at \in Nat /\ published \in Nat /\ changedAt \in Nat
        /\ Daily \in Nat /\ Quiet \in Nat
    BY <2>0, Constants DEF Baseline, TypeOK, Times
  <2>2. reason # "first" /\ reason # "daily"
    BY <2>0, <2>1 DEF Justified
  <2>3. at - changedAt >= Quiet
    BY <2>0, <2>2 DEF Justified
  <2>4. seen = observed
    BY <2>0 DEF Observation
  <2>5. ASSUME NEW c \in released + 1 .. seen.tip
        PROVE  at - pushed[c] >= Quiet
    <3>1. c \in 1 .. observed.tip /\ c \in 1 .. Len(pushed)
      BY <2>0, <2>4, TipGrows DEF TypeOK, Tip
    <3>2. pushed[c] \in Nat /\ pushed[c] <= changedAt
      BY <2>0, <3>1 DEF TypeOK, Times, Observation
    <3> QED
      BY <2>1, <2>3, <3>2
  <2>6. ASSUME NEW c \in seen.head[2]
        PROVE  at - made[c] >= Quiet
    <3>1. c \in 1 .. Len(made) /\ c \in observed.head[2]
      BY <2>0, <2>4 DEF Past
    <3>2. made[c] \in Nat /\ made[c] <= changedAt
      BY <2>0, <3>1 DEF TypeOK, Times, Observation
    <3> QED
      BY <2>1, <2>3, <3>2
  <2> QED
    BY <2>5, <2>6
<1> QED
  BY <1>1, IInvariant, PTL DEF EarlyReleaseIsQuiet

\* An answer is used for the head it was asked about (runTriage in triage.go).
THEOREM TriageIsInformed == Spec => DecisionIsInformed
<1> DEFINE Used == \/ pc = "open" /\ job' # job /\ reason = "triage"
                   \/ pc = "decide" /\ pc' = "idle" /\ Triageable /\ triage.decision = "wait"
<1>1. IInv /\ [Next]_vars => [Used => assessed.head = seen.head]_vars
  <2> SUFFICES ASSUME IInv, Next, Used PROVE assessed.head = seen.head
    OBVIOUS
  <2>1. CASE pc = "open" /\ reason = "triage"
    BY <2>1 DEF IInv, Justified
  <2>2. CASE pc = "decide" /\ pc' = "idle" /\ Triageable
    <3>1. KeepWaiting
      BY <2>2 DEF Next, Daemon, process, Wake, CycleFails, CycleResumes, Fetch, Observe,
         DecideByCadence, ReuseDecision, BeginTriage, TriageEnds, TriageNotSetUp, OpenFails, Open,
         Finish, Pending, Start, Stop, Exit, Push, LocalCommit, ReleaseElsewhere, Tick,
         IInv, Baseline, Deciding
    <3>2. Applies(seen)
      BY <2>2, <3>1 DEF KeepWaiting, Deferred
    <3> QED
      BY <3>2 DEF Applies, IInv, Justified
  <2> QED
    BY <2>1, <2>2
<1> QED
  BY <1>1, IInvariant, PTL DEF Spec, DecisionIsInformed
=============================================================================
