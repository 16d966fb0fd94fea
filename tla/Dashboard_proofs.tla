--------------------------- MODULE Dashboard_proofs ---------------------------
(***************************************************************************)
(* Machine-checked proofs about the terminal: about Dashboard and History, *)
(* for terminals of every height, details of every length and histories of *)
(* every limit (what is drawn fits, the selection follows its release, the *)
(* summary tells the truth, the history keeps the newest receipts), about  *)
(* Transcript (every line shows what was said, and nothing is lost) and    *)
(* about KeyDecoder (the keys are those typed).                            *)
(***************************************************************************)
EXTENDS Dashboard, Transcript, KeyDecoder, FiniteSetTheorems, SequenceTheorems, TLAPS

-----------------------------------------------------------------------------
(* Snapshots.                                                               *)

\* A list of releases in which no two have the same identity.
IsSnapshot(list) ==
  /\ Len(list) \in Nat /\ DOMAIN list = 1 .. Len(list)
  /\ Len(list) = 0 => list = <<>>
  /\ \A i, j \in DOMAIN list : list[i].id = list[j].id => i = j

LEMMA EmptyIsSnapshot == IsSnapshot(<<>>) /\ Len(<<>>) = 0 /\ ElementsOf(<<>>) = {}
  BY DEF IsSnapshot, ElementsOf

LEMMA ShortConcatenations ==
  ASSUME NEW S, NEW a \in S, NEW b \in S
  PROVE  /\ <<>> \o <<>> = <<>> /\ <<a>> \o <<>> = <<a>> /\ <<>> \o <<b>> = <<b>>
         /\ <<a>> \o <<b>> = <<a, b>>
  <1>1. <<>> \in Seq(S) /\ <<a>> \in Seq(S) /\ <<b>> \in Seq(S) /\ <<a, b>> \in Seq(S)
    OBVIOUS
  <1>2. <<>> \o <<>> = <<>> /\ <<a>> \o <<>> = <<a>> /\ <<>> \o <<b>> = <<b>>
    BY <1>1, ConcatEmptySeq
  <1>3. <<a>> \o <<b>> = <<a, b>>
    <2>1. /\ Len(<<a>>) = 1 /\ Len(<<b>>) = 1 /\ Len(<<a, b>>) = 2
          /\ <<a>>[1] = a /\ <<b>>[1] = b /\ <<a, b>>[1] = a /\ <<a, b>>[2] = b
      OBVIOUS
    <2>2. /\ <<a>> \o <<b>> \in Seq(S) /\ Len(<<a>> \o <<b>>) = 2
          /\ (<<a>> \o <<b>>)[1] = a /\ (<<a>> \o <<b>>)[2] = b
      BY <1>1, <2>1, ConcatProperties
    <2>3. \A i \in 1 .. 2 : (<<a>> \o <<b>>)[i] = <<a, b>>[i]
      BY <2>1, <2>2
    <2>. QED
      BY <1>1, <2>1, <2>2, <2>3, SeqEqual
  <1>. QED
    BY <1>2, <1>3

LEMMA ReleasesAreSnapshot ==
  ASSUME NEW s
  PROVE  IsSnapshot(Releases(s))
  <1>. DEFINE r == [id |-> <<"release", s.last>>, status |-> "released"]
             j == [id |-> <<"job", s.job>>, status |-> s.phase]
  <1>1. r.id # j.id
    <2>1. r.id[1] = "release" /\ j.id[1] = "job"
      OBVIOUS
    <2>. HIDE DEF r, j
    <2>. QED
      BY <2>1
  <1>2. Releases(s) \in {<<>>, <<r>>, <<j>>, <<r, j>>}
    <2>. HIDE DEF r, j
    <2>1. <<>> \o <<>> = <<>> /\ <<r>> \o <<>> = <<r>> /\ <<>> \o <<j>> = <<j>>
          /\ <<r>> \o <<j>> = <<r, j>>
      BY ShortConcatenations, r \in {r, j}, j \in {r, j}
    <2>2. Releases(s) = IF s = None THEN <<>>
                        ELSE (IF s.last = 0 THEN <<>> ELSE <<r>>)
                             \o (IF s.job = 0 THEN <<>> ELSE <<j>>)
      BY DEF Releases, r, j
    <2>. QED
      BY <2>1, <2>2
  <1>. HIDE DEF r, j
  <1>3. IsSnapshot(<<>>) /\ IsSnapshot(<<r>>) /\ IsSnapshot(<<j>>)
    BY DEF IsSnapshot
  <1>4. IsSnapshot(<<r, j>>)
    BY <1>1 DEF IsSnapshot
  <1>. QED
    BY <1>2, <1>3, <1>4

-----------------------------------------------------------------------------
(* The selection.                                                           *)

UiType == [view : 0 .. 2, selected : Nat, scroll : Nat, detail : BOOLEAN, stopping : BOOLEAN]

\* What is selected is listed, or there is nothing to select.
UiInv ==
  /\ ui \in UiType /\ canceled \in BOOLEAN
  /\ ui.selected = 0 \/ ui.selected < Len(progress)
  /\ IsSnapshot(progress)

LEMMA ClampedIsListed ==
  ASSUME NEW list, Len(list) \in Nat, NEW n \in Int
  PROVE  /\ Clamped(n, list) \in Nat
         /\ Clamped(n, list) = 0 \/ Clamped(n, list) < Len(list)
         /\ n = 0 => Clamped(n, list) = 0
         /\ n \in 0 .. Len(list) - 1 => Clamped(n, list) = n
  <1>1. PICK m \in Nat : m = Len(list)
    OBVIOUS
  <1>2. Clamped(n, list) = LargerOf(0, SmallerOf(n, m - 1))
    BY <1>1 DEF Clamped
  <1>. QED
    BY <1>1, <1>2 DEF LargerOf, SmallerOf

LEMMA FollowedIsListed ==
  ASSUME NEW u \in UiType, NEW old, NEW new, IsSnapshot(new)
  PROVE  LET v == Followed(u, old, new)
         IN v \in UiType /\ (v.selected = 0 \/ v.selected < Len(new))
  <1>. DEFINE kept == {i \in DOMAIN new : /\ u.detail \/ u.selected > 0
                                          /\ Len(old) > u.selected
                                          /\ new[i].id = At(old, u.selected).id}
             n == IF kept = {} THEN u.selected ELSE Len(new) - (CHOOSE i \in kept : TRUE)
  <1>1. Followed(u, old, new) = [u EXCEPT !.selected = Clamped(n, new)]
    BY DEF Followed
  <1>2. kept # {} => (CHOOSE i \in kept : TRUE) \in 1 .. Len(new)
    BY DEF IsSnapshot
  <1>3. n \in Int
    <2>. HIDE DEF kept
    <2>. QED
      BY <1>2 DEF IsSnapshot, UiType
  <1>. HIDE DEF n
  <1>4. Clamped(n, new) \in Nat /\ (Clamped(n, new) = 0 \/ Clamped(n, new) < Len(new))
    BY <1>3, ClampedIsListed DEF IsSnapshot
  <1>. QED
    BY <1>1, <1>4 DEF UiType

\* A snapshot comes from the engine's copy of the record, or nothing is shown
\* differently.
LEMMA UpdateKeepsUi ==
  ASSUME UiInv, NEW s, Update(Releases(s)), UNCHANGED canceled
  PROVE  UiInv'
  <1>1. IsSnapshot(progress')
    BY ReleasesAreSnapshot DEF Update
  <1>2. ui' = Followed(ui, progress, progress')
    BY DEF Update
  <1>. QED
    BY <1>1, <1>2, FollowedIsListed DEF UiInv

\* A step that saves shows a snapshot, or nothing.
LEMMA SaveShows ==
  ASSUME NEW s, Save(s)
  PROVE  /\ Update(Releases(s)) \/ UNCHANGED <<progress, ui, initial>>
         /\ UNCHANGED <<once, start, blind, canceled, tty, session, summary>>
         /\ engine = "cycle" /\ engine' \in {"cycle", "timer"}
  BY DEF Save, ending

LEMMA RemainingIsNat ==
  ASSUME NEW h \in Heights
  PROVE  Remaining(h) \in Nat
  BY ConstantsAssumption DEF Remaining, Header, LargerOf

LEMMA DrawnScrollIsNat ==
  ASSUME UiInv, NEW h \in Heights
  PROVE  DrawnScroll(h) \in Nat
  BY RemainingIsNat, ConstantsAssumption DEF DrawnScroll, LargerOf, SmallerOf, UiInv, UiType

LEMMA PressedIsListed ==
  ASSUME UiInv, NEW key
  PROVE  LET u == Pressed(ui, key)
         IN u \in UiType /\ (u.selected = 0 \/ u.selected < Len(progress))
  <1>. USE DEF UiType
  <1>1. ScrollDetail(ui, key) \in UiType /\ ScrollDetail(ui, key).selected = ui.selected
    BY ConstantsAssumption, ScreenAssumption DEF UiInv, ScrollDetail, LargerOf
  <1>2. LET u == Browse(ui, key)
        IN u \in UiType /\ (u.selected = 0 \/ u.selected < Len(progress))
    <2>. USE ClampedIsListed DEF UiInv, IsSnapshot
    <2>1. CASE key = "down"
      BY <2>1 DEF Browse
    <2>2. CASE key = "up"
      BY <2>2 DEF Browse, LargerOf
    <2>3. CASE key = "g"
      BY <2>3 DEF Browse
    <2>4. CASE key = "G"
      BY <2>4 DEF Browse, LargerOf
    <2>5. CASE key = "enter"
      BY <2>5 DEF Browse
    <2>6. CASE key \notin {"down", "up", "g", "G", "enter"}
      BY <2>6 DEF Browse
    <2>. QED
      BY <2>1, <2>2, <2>3, <2>4, <2>5, <2>6
  <1>3. \A k \in DOMAIN ViewOf : ViewOf[k] \in 0 .. 2
    BY DEF ViewOf
  <1>4. (ui.view + 1) % 3 \in 0 .. 2
    BY DEF UiInv
  <1>. QED
    BY <1>1, <1>2, <1>3, <1>4 DEF Pressed, UiInv

LEMMA UiInvHolds == Spec => []UiInv
  <1>1. Init => UiInv
    <2>. SUFFICES ASSUME Init
                  PROVE  UiInv
      OBVIOUS
    <2>1. /\ ui = [view |-> 0, selected |-> 0, scroll |-> 0, detail |-> FALSE, stopping |-> FALSE]
          /\ canceled = FALSE /\ progress = <<>>
      BY DEF Init
    <2>2. ui \in UiType /\ ui.selected = 0
      BY <2>1 DEF UiType
    <2>3. canceled \in BOOLEAN
      BY <2>1
    <2>4. IsSnapshot(progress)
      BY <2>1, EmptyIsSnapshot
    <2>. QED
      BY <2>2, <2>3, <2>4 DEF UiInv
  <1>2. UiInv /\ [Next]_vars => UiInv'
    <2>. SUFFICES ASSUME UiInv, [Next]_vars
                  PROVE  UiInv'
      OBVIOUS
    <2>1. CASE Cycle
      BY <2>1, UpdateKeepsUi DEF Cycle, ending
    <2>2. ASSUME NEW s, Save(s)
          PROVE  UiInv'
      BY <2>2, SaveShows, UpdateKeepsUi DEF UiInv
    <2>3. CASE OpenJob \/ Advance \/ \E at \in Times : Finish(at)
      BY <2>2, <2>3 DEF OpenJob, Advance, Finish
    <2>4. CASE EndCycle \/ Return \/ Collect \/ HangUp \/ Signal
      BY <2>4 DEF EndCycle, Return, Collect, HangUp, Signal, shown, ending, UiInv
    <2>5. ASSUME NEW key \in Keys, Press(key)
          PROVE  UiInv'
      BY <2>5, PressedIsListed DEF Press, UiInv
    <2>6. ASSUME NEW h \in Heights, Tick(h)
          PROVE  UiInv'
      BY <2>6, DrawnScrollIsNat DEF Tick, UiInv, UiType, HungUp
    <2>7. CASE UNCHANGED vars
      BY <2>7 DEF vars, shown, ending, UiInv
    <2>. QED
      BY <2>1, <2>3, <2>4, <2>5, <2>6, <2>7 DEF Next
  <1>. QED
    BY <1>1, <1>2, PTL DEF Spec

-----------------------------------------------------------------------------
(* What is drawn.                                                           *)

LEMMA ListLimitFits ==
  ASSUME UiInv, NEW h \in Heights
  PROVE  /\ ListLimit(h) \in 0 .. Remaining(h)
         /\ Remaining(h) > 0 => ListLimit(h) > 0
         /\ Remaining(h) >= 5 /\ ui.view = 0 => ListLimit(h) + 2 <= Remaining(h)
  <1>1. PICK n \in Nat : n = Remaining(h)
    BY RemainingIsNat
  <1>2. ListLimit(h) = IF ui.view = 0 /\ n >= 5 THEN LargerOf(2, n \div 2) ELSE n
    BY <1>1 DEF ListLimit
  <1>. QED
    BY <1>1, <1>2 DEF LargerOf

\* A list shows no more releases than it has rows, and the selected one.
LEMMA ListedFits ==
  ASSUME UiInv, NEW h \in Heights
  PROVE  /\ Cardinality(Listed(h)) \in 0 .. ListLimit(h)
         /\ Remaining(h) > 0 /\ progress # <<>> => ui.selected \in Listed(h)
  <1>1. PICK limit \in Nat : limit = ListLimit(h) /\ (Remaining(h) > 0 => limit > 0)
    BY ListLimitFits, RemainingIsNat
  <1>2. PICK len \in Nat : len = Len(progress) /\ (progress # <<>> => len > 0)
    <2>1. Len(progress) \in Nat /\ (progress # <<>> => Len(progress) # 0)
      BY DEF UiInv, IsSnapshot
    <2>. DEFINE n == Len(progress)
    <2>. HIDE DEF n
    <2>2. n \in Nat /\ (progress # <<>> => n > 0)
      BY <2>1 DEF n
    <2>. QED
      BY <2>2 DEF n
  <1>3. PICK sel \in Nat : sel = ui.selected /\ (sel = 0 \/ sel < len)
    BY <1>2 DEF UiInv, UiType
  <1>. DEFINE from == LargerOf(0, sel - limit + 1)
             to == SmallerOf(len, from + limit) - 1
  <1>4. Listed(h) = from .. to
    BY <1>1, <1>2, <1>3 DEF Listed
  <1>5. from \in Nat /\ to \in Int /\ to - from + 1 <= limit
    BY DEF LargerOf, SmallerOf
  <1>6. limit > 0 /\ len > 0 => sel \in from .. to
    BY <1>3 DEF LargerOf, SmallerOf
  <1>. HIDE DEF from, to
  <1>7. Cardinality(from .. to) = IF from > to THEN 0 ELSE to - from + 1
    BY <1>5, FS_Interval
  <1>. QED
    BY <1>1, <1>2, <1>3, <1>4, <1>5, <1>6, <1>7

\* What is drawn fits the terminal, whatever its height, the releases, and the
\* selection and scroll position they were left with.
LEMMA FrameFitsHere == ASSUME UiInv PROVE FrameFits
  <1>. SUFFICES ASSUME NEW h \in Heights
                PROVE  IF InDetail
                       THEN /\ Window(h).last - Window(h).first + 1 = SmallerOf(DetailRows, Remaining(h))
                            /\ Window(h).first \in 1..(DetailRows + 1)
                       ELSE ui.view # 2 =>
                            /\ \A n \in 0..ActivityLimit : ListRows(h, n) <= Remaining(h)
                            /\ Remaining(h) > 0 /\ progress # <<>> => ui.selected \in Listed(h)
    BY DEF FrameFits
  <1>1. CASE InDetail
    <2>1. PICK n \in Nat : n = Remaining(h)
      BY RemainingIsNat
    <2>2. PICK from \in Nat : from = ui.scroll
      BY DEF UiInv, UiType
    <2>3. DrawnScroll(h) = SmallerOf(from, LargerOf(0, DetailRows - n))
      BY <1>1, <2>1, <2>2 DEF DrawnScroll
    <2>4. /\ Window(h).first = DrawnScroll(h) + 1
          /\ Window(h).last = SmallerOf(DetailRows, DrawnScroll(h) + n)
      BY <2>1 DEF Window
    <2>. QED
      BY <1>1, <2>1, <2>3, <2>4, ConstantsAssumption DEF SmallerOf, LargerOf
  <1>2. CASE ~InDetail
    <2>1. PICK r \in Nat : r = Remaining(h)
      BY RemainingIsNat
    <2>2. PICK limit \in 0 .. r : /\ limit = ListLimit(h)
                                  /\ r > 0 => limit > 0
                                  /\ r >= 5 /\ ui.view = 0 => limit + 2 <= r
      BY <2>1, ListLimitFits
    <2>3. PICK c \in 0 .. limit : c = Cardinality(Listed(h))
      BY <2>2, ListedFits
    <2>4. ASSUME NEW n \in 0 .. ActivityLimit
          PROVE  ListRows(h, n) <= r
      <3>. DEFINE list == IF limit = 0 THEN 0 ELSE LargerOf(1, c)
      <3>1. list \in 0 .. r
        BY <2>2, <2>3 DEF LargerOf
      <3>2. ListRows(h, n) = IF ui.view = 0 /\ r - list >= 3
                             THEN list + 2 + SmallerOf(r - list - 2, n) ELSE list
        BY <2>1, <2>2, <2>3 DEF ListRows
      <3>. HIDE DEF list
      <3>3. n \in Nat
        BY ConstantsAssumption
      <3>. QED
        BY <3>1, <3>2, <3>3 DEF SmallerOf
    <2>. QED
      BY <1>2, <2>1, <2>4, ListedFits
  <1>. QED
    BY <1>1, <1>2

\* At every height the body leaves room for the footer, a list shows the selected
\* release wherever there is a row for it, and a detail fills the rows it can
\* (dashboard.go:237, 271-275, 366-375).
THEOREM EveryFrameFits == Spec => []FrameFits
  BY UiInvHolds, FrameFitsHere, PTL

-----------------------------------------------------------------------------
(* The selection follows its release.                                       *)

\* What OpenStays asks of a step that shows another snapshot.
Stays ==
  LET kept == {i \in DOMAIN progress' : progress # <<>> /\ progress'[i].id = At(progress, ui.selected).id}
  IN /\ (ui.detail \/ ui.selected > 0) /\ kept # {} =>
          \A i \in kept : At(progress', ui'.selected) = progress'[i]
     /\ ~ui.detail /\ ui.selected = 0 => ui'.selected = 0

LEMMA FollowedStays ==
  ASSUME UiInv, NEW s, Update(Releases(s))
  PROVE  Stays
  <1>. DEFINE new == Releases(s)
             wanted == {i \in DOMAIN new : progress # <<>> /\ new[i].id = At(progress, ui.selected).id}
             kept == {i \in DOMAIN new : /\ ui.detail \/ ui.selected > 0
                                         /\ Len(progress) > ui.selected
                                         /\ new[i].id = At(progress, ui.selected).id}
             n == IF kept = {} THEN ui.selected ELSE Len(new) - (CHOOSE i \in kept : TRUE)
  <1>1. progress' = new /\ IsSnapshot(new)
    BY ReleasesAreSnapshot DEF Update
  <1>. HIDE DEF new
  <1>2. ui'.selected = Clamped(n, new)
    <2>1. ui' = [ui EXCEPT !.selected = Clamped(n, new)]
      BY DEF Update, Followed, new
    <2>. QED
      BY <2>1 DEF UiInv, UiType
  <1>3. CASE ui.detail \/ ui.selected > 0
    <2>. SUFFICES ASSUME NEW i \in wanted
                  PROVE  At(new, ui'.selected) = new[i]
      BY <1>1, <1>3 DEF Stays, UiInv, UiType
    <2>1. Len(progress) > ui.selected
      <3>1. progress # <<>> /\ Len(progress) \in Nat /\ Len(progress) # 0
        BY DEF UiInv, IsSnapshot
      <3>. QED
        BY <3>1 DEF UiInv, UiType
    <2>2. i \in kept
      BY <1>3, <2>1
    <2>3. \A k \in kept : k = i
      BY <1>1 DEF IsSnapshot
    <2>. HIDE DEF kept
    <2>4. n = Len(new) - i
      BY <2>2, <2>3
    <2>. HIDE DEF n
    <2>5. i \in 1 .. Len(new) /\ Len(new) \in Nat
      BY <1>1 DEF IsSnapshot
    <2>6. PICK m \in Nat : m = Len(new)
      BY <2>5
    <2>7. ui'.selected = Len(new) - i
      BY <1>2, <2>4, <2>5, <2>6, ClampedIsListed
    <2>. QED
      BY <2>5, <2>6, <2>7 DEF At
  <1>4. CASE ~ui.detail /\ ui.selected = 0
    <2>1. kept = {}
      BY <1>4
    <2>2. n = 0
      BY <1>4, <2>1
    <2>3. ui'.selected = 0
      BY <1>1, <1>2, <2>2, ClampedIsListed DEF IsSnapshot
    <2>. QED
      BY <1>4, <2>3 DEF Stays
  <1>. QED
    BY <1>3, <1>4 DEF UiInv, UiType

\* The release that is open, or that was browsed to, stays selected while it is
\* listed; without browsing the newest is selected (dashboard.go:63-75).
THEOREM OpenReleaseStays == Spec => OpenStays
  <1>1. UiInv /\ [Next]_vars => [progress' # progress => Stays]_vars
    <2>. SUFFICES ASSUME UiInv, Next, progress' # progress
                  PROVE  Stays
      OBVIOUS
    <2>1. ASSUME NEW s, Save(s)
          PROVE  Stays
      BY <2>1, SaveShows, FollowedStays
    <2>2. CASE Cycle
      BY <2>2, FollowedStays DEF Cycle
    <2>3. CASE OpenJob \/ Advance \/ \E at \in Times : Finish(at)
      BY <2>1, <2>3 DEF OpenJob, Advance, Finish
    <2>. QED
      BY <2>2, <2>3 DEF Next, EndCycle, Return, Press, Tick, Collect, Signal, HangUp, shown
  <1>. QED
    BY <1>1, UiInvHolds, PTL DEF Spec, OpenStays, Stays

-----------------------------------------------------------------------------
(* The summary.                                                             *)

\* What the summary compares with: until something is shown the record is as it
\* was when the run began, and the first snapshot of a record shows it so.
Compared ==
  ~blind => \/ /\ initial = None /\ progress = <<>> /\ engine \in {"begin", "done"}
               /\ start = ElementsOf(Releases(saved))
            \/ initial = start

\* A run that returned without an error was a single cycle, and the session is
\* not ended before.
Returned ==
  /\ failed \in BOOLEAN /\ once \in BOOLEAN
  /\ engine = "done" => failed \/ once
  /\ session = "ended" => engine = "done"

SummaryInv == start # None /\ Compared /\ Returned /\ SummaryIsTrue

LEMMA FirstReleasesAreListed ==
  ASSUME saved.last \in {0, 1}, saved.job \in {0, 1, 2},
         saved.job # 0 => saved.phase = "pending"
  PROVE  ElementsOf(Releases(saved)) \in SUBSET FirstReleases
  <1>. DEFINE r == [id |-> <<"release", saved.last>>, status |-> "released"]
             j == [id |-> <<"job", saved.job>>, status |-> saved.phase]
  <1>1. saved.last # 0 => r \in FirstReleases
    BY DEF FirstReleases
  <1>2. saved.job # 0 => j \in FirstReleases
    BY DEF FirstReleases
  <1>3. Releases(saved) = IF saved = None THEN <<>>
                          ELSE (IF saved.last = 0 THEN <<>> ELSE <<r>>)
                               \o (IF saved.job = 0 THEN <<>> ELSE <<j>>)
    BY DEF Releases
  <1>. HIDE DEF r, j
  <1>4. <<>> \o <<>> = <<>> /\ <<r>> \o <<>> = <<r>> /\ <<>> \o <<j>> = <<j>>
        /\ <<r>> \o <<j>> = <<r, j>>
    BY ShortConcatenations, r \in {r, j}, j \in {r, j}
  <1>5. ElementsOf(<<>>) = {} /\ ElementsOf(<<r>>) = {r} /\ ElementsOf(<<j>>) = {j}
        /\ ElementsOf(<<r, j>>) = {r, j}
    <2>1. /\ DOMAIN <<>> = {} /\ DOMAIN <<r>> = {1} /\ DOMAIN <<j>> = {1}
          /\ DOMAIN <<r, j>> = {1, 2}
      OBVIOUS
    <2>2. <<r>>[1] = r /\ <<j>>[1] = j /\ <<r, j>>[1] = r /\ <<r, j>>[2] = j
      OBVIOUS
    <2>. QED
      BY <2>1, <2>2 DEF ElementsOf
  <1>. QED
    BY <1>1, <1>2, <1>3, <1>4, <1>5

LEMMA SummaryInvHolds == Spec => []SummaryInv
  <1>1. Init => SummaryInv
    <2>. SUFFICES ASSUME Init
                  PROVE  SummaryInv
      OBVIOUS
    <2>1. saved.last \in {0, 1} /\ saved.job \in {0, 1, 2} /\ (saved.job # 0 => saved.phase = "pending")
      BY DEF Init
    <2>2. /\ start = ElementsOf(Releases(saved)) /\ initial = None /\ progress = <<>>
          /\ engine = "begin" /\ failed = FALSE /\ once \in BOOLEAN /\ session = "open"
      BY DEF Init
    <2>3. start # None
      BY <2>1, <2>2, FirstReleasesAreListed, NoneAssumption
    <2>. QED
      BY <2>2, <2>3 DEF SummaryInv, Compared, Returned, SummaryIsTrue
  <1>2. UiInv /\ SummaryInv /\ [Next]_vars => SummaryInv'
    <2>. SUFFICES ASSUME UiInv, SummaryInv, [Next]_vars
                  PROVE  SummaryInv'
      OBVIOUS
    <2>. USE DEF SummaryInv
    <2>1. start' = start /\ once' = once
      BY DEF Next, Cycle, OpenJob, Advance, Finish, Save, EndCycle, Return, Press, Tick, Collect,
             Signal, HangUp, vars
    <2>2. CASE Cycle
      <3>1. session' = session /\ session # "ended"
        BY <2>2 DEF Cycle, Returned, ending
      <3>2. engine' # "done" /\ failed' \in BOOLEAN
        BY <2>2 DEF Cycle
      <3>3. Compared'
        <4>1. CASE Update(Releases(saved)) /\ UNCHANGED blind
          <5>1. initial' = IF initial = None THEN ElementsOf(Releases(saved)) ELSE initial
            BY <4>1 DEF Update, FirstSeen
          <5>. QED
            BY <2>1, <4>1, <5>1 DEF Compared
        <4>2. CASE Update(Releases(state)) /\ blind' = (blind \/ initial = None)
          <5>1. initial # None => initial' = initial
            BY <4>2 DEF Update, FirstSeen
          <5>. QED
            BY <2>1, <4>2, <5>1 DEF Compared
        <4>. QED
          BY <2>2, <4>1, <4>2 DEF Cycle
      <3>. QED
        BY <2>1, <3>1, <3>2, <3>3 DEF Returned, SummaryIsTrue
    <2>3. ASSUME NEW s, Save(s)
          PROVE  SummaryInv'
      <3>1. session' = session /\ session # "ended" /\ engine' # "done"
        BY <2>3, SaveShows DEF Returned
      <3>2. failed' \in BOOLEAN
        BY <2>3 DEF Save, Returned
      <3>3. Compared'
        BY <2>1, <2>3, SaveShows DEF Compared, Update, FirstSeen
      <3>. QED
        BY <2>1, <3>1, <3>2, <3>3 DEF Returned, SummaryIsTrue
    <2>4. CASE OpenJob \/ Advance \/ \E at \in Times : Finish(at)
      BY <2>3, <2>4 DEF OpenJob, Advance, Finish
    <2>5. CASE EndCycle \/ Return
      <3>1. session # "ended" /\ UNCHANGED <<saved, shown, ending>>
        BY <2>5 DEF EndCycle, Return, Returned
      <3>2. failed' \in BOOLEAN /\ (engine' = "done" => failed' \/ once')
        BY <2>1, <2>5 DEF EndCycle, Return, Returned, UiInv
      <3>3. engine' \in {"timer", "done"} /\ (engine = "cycle" \/ engine' = "done")
        BY <2>5 DEF EndCycle, Return
      <3>. QED
        BY <2>1, <3>1, <3>2, <3>3 DEF Returned, Compared, SummaryIsTrue, shown, ending
    <2>6. CASE Collect
      <3>1. engine = "done" /\ UNCHANGED <<saved, engine, failed, ui, initial, progress, blind>>
        BY <2>6 DEF Collect, record, shown
      <3>2. summary' = [status |-> Outcome,
                        changed |-> {f \in ElementsOf(progress) : initial = None \/ f \notin initial}]
        BY <2>6 DEF Collect
      <3>3. summary'.status = "complete" => once /\ ~failed /\ ~ui.stopping
        BY <3>1, <3>2 DEF Outcome, Returned
      <3>4. ASSUME ~blind, NEW f \in ElementsOf(progress)
            PROVE  (f \in summary'.changed) = (f \notin start)
        <4>1. initial = start
          BY <3>4, EmptyIsSnapshot DEF Compared
        <4>. QED
          BY <3>2, <3>4, <4>1
      <3>5. SummaryIsTrue'
        BY <2>1, <3>1, <3>3, <3>4 DEF SummaryIsTrue, ElementsOf
      <3>. QED
        BY <2>1, <3>1, <3>5 DEF Compared, Returned
    <2>7. CASE (\E key \in Keys : Press(key)) \/ (\E h \in Heights : Tick(h)) \/ Signal \/ HangUp
      <3>1. /\ session # "ended" /\ session' = session
            /\ UNCHANGED <<saved, engine, failed, initial, progress, blind>>
        BY <2>7 DEF Press, Tick, Signal, HangUp, record, shown
      <3>. QED
        BY <2>1, <3>1 DEF Compared, Returned, SummaryIsTrue
    <2>8. CASE UNCHANGED vars
      BY <2>8 DEF vars, record, shown, ending, Compared, Returned, SummaryIsTrue
    <2>. QED
      BY <2>2, <2>4, <2>5, <2>6, <2>7, <2>8 DEF Next
  <1>. QED
    BY <1>1, <1>2, UiInvHolds, PTL DEF Spec

\* The summary says "complete" only of a single cycle that ended well and that
\* nobody stopped, and lists exactly what changed since the run began
\* (dashboard.go:43-48, 449-474).
THEOREM SummaryTellsTheTruth == Spec => []SummaryIsTrue
  BY SummaryInvHolds, PTL DEF SummaryInv

-----------------------------------------------------------------------------
(* Receipts in their order.  Counting the later ones gives each of a finite *)
(* set its place.                                                           *)

Receipts == [at : Nat, tag : Nat, commit : Nat]

Later(E, r) == {q \in E : Before(r, q)}
Earlier(E, r) == {q \in E : Before(q, r)}

Newest(E) == {r \in E : Cardinality(Later(E, r)) < HistoryLimit}

LEMMA BeforeIsOrder ==
  /\ \A a \in Receipts : ~Before(a, a)
  /\ \A a, b \in Receipts : a = b \/ Before(a, b) \/ Before(b, a)
  /\ \A a, b \in Receipts : Before(a, b) => ~Before(b, a)
  /\ \A a, b, c \in Receipts : Before(a, b) /\ Before(b, c) => Before(a, c)
  BY DEF Receipts, Before

LEMMA LaterIsCounted ==
  ASSUME NEW E \in SUBSET Receipts, IsFiniteSet(E), NEW r \in E
  PROVE  /\ IsFiniteSet(Later(E, r)) /\ Cardinality(Later(E, r)) \in Nat
         /\ Cardinality(E) \in Nat /\ Cardinality(Later(E, r)) < Cardinality(E)
  <1>1. Later(E, r) \in SUBSET E /\ r \notin Later(E, r)
    BY BeforeIsOrder DEF Later
  <1>2. /\ IsFiniteSet(Later(E, r)) /\ Cardinality(Later(E, r)) <= Cardinality(E)
        /\ Cardinality(Later(E, r)) # Cardinality(E)
    BY <1>1, FS_Subset
  <1>3. Cardinality(Later(E, r)) \in Nat /\ Cardinality(E) \in Nat
    BY <1>2, FS_CardinalityType
  <1>. QED
    BY <1>2, <1>3

LEMMA LaterFalls ==
  ASSUME NEW E \in SUBSET Receipts, IsFiniteSet(E), NEW r \in E, NEW q \in E, Before(r, q)
  PROVE  Cardinality(Later(E, q)) < Cardinality(Later(E, r))
  <1>1. Later(E, q) \in SUBSET Later(E, r)
    <2>. SUFFICES ASSUME NEW p \in E, Before(q, p)
                  PROVE  Before(r, p)
      BY DEF Later
    <2>. QED
      BY BeforeIsOrder
  <1>2. q \in Later(E, r) /\ q \notin Later(E, q)
    BY BeforeIsOrder DEF Later
  <1>3. /\ Cardinality(Later(E, q)) <= Cardinality(Later(E, r))
        /\ Cardinality(Later(E, q)) # Cardinality(Later(E, r))
    BY <1>1, <1>2, LaterIsCounted, FS_Subset
  <1>. QED
    BY <1>3, LaterIsCounted

\* Every place is taken, by one receipt only.
LEMMA LaterOnto ==
  ASSUME NEW E \in SUBSET Receipts, IsFiniteSet(E)
  PROVE  /\ \A r, q \in E : Cardinality(Later(E, r)) = Cardinality(Later(E, q)) => r = q
         /\ \A n \in Nat : n < Cardinality(E) => \E r \in E : Cardinality(Later(E, r)) = n
  <1>. DEFINE C(r) == Cardinality(Later(E, r))
             T == 0 .. Cardinality(E) - 1
             f == [r \in E |-> C(r)]
  <1>1. Cardinality(E) \in Nat
    BY FS_CardinalityType
  <1>2. IsFiniteSet(T) /\ Cardinality(T) = Cardinality(E)
    <2>. DEFINE n == Cardinality(E) - 1
    <2>0. n \in Int /\ n + 1 \in Nat /\ n + 1 = Cardinality(E)
      BY <1>1
    <2>. HIDE DEF n
    <2>1. IsFiniteSet(0 .. n) /\ Cardinality(0 .. n) = IF 0 > n THEN 0 ELSE n - 0 + 1
      BY <2>0, FS_Interval
    <2>. QED
      BY <2>0, <2>1 DEF n
  <1>3. \A r, q \in E : C(r) = C(q) => r = q
    <2>. SUFFICES ASSUME NEW r \in E, NEW q \in E, r # q
                  PROVE  C(r) # C(q)
      OBVIOUS
    <2>1. C(r) \in Nat /\ C(q) \in Nat
      BY LaterIsCounted
    <2>2. C(r) < C(q) \/ C(q) < C(r)
      BY BeforeIsOrder, LaterFalls
    <2>. QED
      BY <2>1, <2>2
  <1>4. \A r \in E : C(r) \in T
    BY <1>1, LaterIsCounted
  <1>. HIDE DEF C, T
  <1>5. f \in Injection(E, T)
    BY <1>3, <1>4 DEF Injection, IsInjective
  <1>6. f \in Surjection(E, T)
    BY <1>2, <1>5, FS_Injection
  <1>7. \A n \in T : \E r \in E : f[r] = n
    BY <1>6 DEF Surjection
  <1>8. \A n \in Nat : n < Cardinality(E) => n \in T
    BY <1>1 DEF T
  <1>. QED
    BY <1>3, <1>7, <1>8 DEF C

\* The later and the earlier ones are all the others.
LEMMA EarlierIsCounted ==
  ASSUME NEW E \in SUBSET Receipts, IsFiniteSet(E), NEW r \in E
  PROVE  /\ IsFiniteSet(Earlier(E, r))
         /\ Cardinality(Earlier(E, r)) = Cardinality(E) - Cardinality(Later(E, r)) - 1
  <1>. DEFINE S == Later(E, r) \union {r}
  <1>1. IsFiniteSet(S) /\ Cardinality(S) = Cardinality(Later(E, r)) + 1
    <2>1. r \notin Later(E, r)
      BY BeforeIsOrder DEF Later
    <2>. QED
      BY <2>1, LaterIsCounted, FS_AddElement
  <1>2. Earlier(E, r) = E \ S
    BY BeforeIsOrder DEF Earlier, Later
  <1>3. E \intersect S = S
    BY DEF Later
  <1>. HIDE DEF S
  <1>4. IsFiniteSet(E \ S) /\ Cardinality(E \ S) = Cardinality(E) - Cardinality(S)
    <2>1. IsFiniteSet(E \ S) /\ Cardinality(E \ S) = Cardinality(E) - Cardinality(E \intersect S)
      BY FS_Difference
    <2>. QED
      BY <1>3, <2>1
  <1>. QED
    BY <1>1, <1>2, <1>4, LaterIsCounted

\* Keeping the newest and adding one keeps what adding it and keeping the newest
\* does: nothing that was dropped is ever needed again.
LEMMA NewestIsEnough ==
  ASSUME NEW E \in SUBSET Receipts, IsFiniteSet(E), NEW X \in SUBSET Receipts, IsFiniteSet(X)
  PROVE  Newest(Newest(E) \union X) = Newest(E \union X)
  <1>. DEFINE F == Newest(E) \union X
             G == E \union X
  <1>1. F \in SUBSET G /\ Newest(E) \in SUBSET E
    BY DEF Newest
  <1>2. G \in SUBSET Receipts /\ IsFiniteSet(G)
    BY FS_Union
  <1>3. F \in SUBSET Receipts /\ IsFiniteSet(F)
    BY <1>1, <1>2, FS_Subset
  <1>4. ASSUME NEW r \in G, Cardinality(Later(G, r)) < HistoryLimit
        PROVE  r \in F /\ Cardinality(Later(F, r)) < HistoryLimit
    <2>1. r \in F
      <3>1. CASE r \in X
        BY <3>1
      <3>2. CASE r \in E
        <4>1. Later(E, r) \in SUBSET Later(G, r)
          BY DEF Later
        <4>2. Cardinality(Later(E, r)) <= Cardinality(Later(G, r))
          BY <1>2, <4>1, LaterIsCounted, FS_Subset
        <4>3. Cardinality(Later(E, r)) \in Nat /\ Cardinality(Later(G, r)) \in Nat
          BY <1>2, <3>2, LaterIsCounted
        <4>4. Cardinality(Later(E, r)) < HistoryLimit
          BY <1>4, <4>2, <4>3, HistoryLimitAssumption
        <4>. QED
          BY <3>2, <4>4 DEF Newest
      <3>. QED
        BY <3>1, <3>2
    <2>2. Later(F, r) \in SUBSET Later(G, r)
      BY <1>1 DEF Later
    <2>3. Cardinality(Later(F, r)) <= Cardinality(Later(G, r))
      BY <1>2, <2>2, LaterIsCounted, FS_Subset
    <2>4. Cardinality(Later(F, r)) \in Nat /\ Cardinality(Later(G, r)) \in Nat
      BY <1>2, <1>3, <2>1, LaterIsCounted
    <2>. QED
      BY <1>4, <2>1, <2>3, <2>4, HistoryLimitAssumption
  <1>5. ASSUME NEW r \in F, Cardinality(Later(F, r)) < HistoryLimit
        PROVE  Cardinality(Later(G, r)) < HistoryLimit
    <2>. DEFINE lost == Later(G, r) \ Later(F, r)
    <2>1. CASE lost = {}
      <3>1. Later(G, r) = Later(F, r)
        BY <1>1, <2>1 DEF Later
      <3>. QED
        BY <1>5, <3>1
    <2>2. CASE lost # {}
      <3>1. lost \in SUBSET E /\ lost \intersect Newest(E) = {}
        BY DEF Later
      <3>2. IsFiniteSet(lost) /\ lost \in SUBSET Receipts /\ Cardinality(lost) \in Nat \ {0}
        <4>1. IsFiniteSet(lost) /\ lost \in SUBSET Receipts
          BY <3>1, FS_Subset
        <4>. HIDE DEF lost
        <4>. QED
          BY <2>2, <4>1, FS_CardinalityType, FS_EmptySet
      <3>3. PICK q \in lost : Cardinality(Later(lost, q)) = 0
        <4>. HIDE DEF lost
        <4>. QED
          BY <3>2, LaterOnto
      <3>4. Later(lost, q) = {}
        <4>. HIDE DEF lost
        <4>. QED
          BY <3>2, <3>3, LaterIsCounted, FS_EmptySet
      <3>5. q \in E /\ q \notin Newest(E) /\ Before(r, q) /\ r \in Receipts
        BY <1>3, <3>1 DEF Later
      <3>6. Later(E, q) \in SUBSET Later(F, r)
        <4>. SUFFICES ASSUME NEW p \in E, Before(q, p)
                      PROVE  p \in F /\ Before(r, p)
          BY DEF Later
        <4>1. Before(r, p)
          BY <3>5, BeforeIsOrder
        <4>2. p \notin lost
          BY <3>4 DEF Later
        <4>. QED
          BY <4>1, <4>2 DEF Later
      <3>7. Cardinality(Later(E, q)) <= Cardinality(Later(F, r))
        BY <1>3, <3>6, LaterIsCounted, FS_Subset
      <3>8. Cardinality(Later(E, q)) \in Nat /\ Cardinality(Later(F, r)) \in Nat
        BY <1>3, <3>5, LaterIsCounted
      <3>9. Cardinality(Later(E, q)) < HistoryLimit
        BY <1>5, <3>7, <3>8, HistoryLimitAssumption
      <3>. QED
        BY <3>5, <3>9 DEF Newest
    <2>. QED
      BY <2>1, <2>2
  <1>. HIDE DEF F, G
  <1>6. Newest(F) = Newest(G)
    BY <1>1, <1>4, <1>5 DEF Newest
  <1>. QED
    BY <1>6 DEF F, G

-----------------------------------------------------------------------------
(* Sorting and picking.                                                     *)

LEMMA FunctionIsSequence ==
  ASSUME NEW S, NEW n \in Nat, NEW f \in [1 .. n -> S]
  PROVE  f \in Seq(S) /\ Len(f) = n
  <1>1. f \in Seq(S)
    BY SeqDef
  <1>2. DOMAIN f = 1 .. Len(f) /\ Len(f) \in Nat
    BY <1>1, LenProperties
  <1>3. PICK m \in Nat : m = Len(f)
    BY <1>2
  <1>4. 1 .. m = 1 .. n
    BY <1>2, <1>3
  <1>. QED
    BY <1>1, <1>3, <1>4

OnePerElement(s) == \A i, j \in DOMAIN s : s[i] = s[j] => i = j

\* A list without repetitions is as long as the set of what it lists.
LEMMA ElementsAreCounted ==
  ASSUME NEW s \in Seq(Receipts), OnePerElement(s)
  PROVE  /\ ElementsOf(s) \in SUBSET Receipts /\ IsFiniteSet(ElementsOf(s))
         /\ Cardinality(ElementsOf(s)) = Len(s)
  <1>. DEFINE n == Len(s)
             f == [i \in 1 .. n |-> s[i]]
  <1>1. n \in Nat /\ DOMAIN s = 1 .. n /\ \A i \in 1 .. n : s[i] \in Receipts
    BY LenProperties, ElementOfSeq
  <1>. HIDE DEF n
  <1>2. IsFiniteSet(1 .. n) /\ Cardinality(1 .. n) = n
    BY <1>1, FS_Interval
  <1>3. f \in Bijection(1 .. n, ElementsOf(s))
    BY <1>1 DEF Bijection, Injection, Surjection, IsInjective, ElementsOf, OnePerElement
  <1>4. IsFiniteSet(ElementsOf(s)) /\ Cardinality(ElementsOf(s)) = Cardinality(1 .. n)
    BY <1>2, <1>3, FS_Bijection DEF ExistsBijection
  <1>. QED
    BY <1>1, <1>2, <1>4 DEF ElementsOf, n

\* A list in order: each element has as many later ones as follow it.
InOrder(s) ==
  \A i \in DOMAIN s : Cardinality(Later(ElementsOf(s), s[i])) = Len(s) - i

LEMMA SortedIsInOrder ==
  ASSUME NEW s \in Seq(Receipts), OnePerElement(s)
  PROVE  /\ Sorted(s) \in Seq(Receipts) /\ Len(Sorted(s)) = Len(s)
         /\ ElementsOf(Sorted(s)) = ElementsOf(s)
         /\ InOrder(Sorted(s)) /\ OnePerElement(Sorted(s))
  <1>. DEFINE E == ElementsOf(s)
             n == Len(s)
             Rank(i) == Cardinality({j \in DOMAIN s : Before(s[j], s[i]) \/ (j < i /\ ~Before(s[i], s[j]))})
             v == [k \in DOMAIN s |-> s[CHOOSE i \in DOMAIN s : Rank(i) = k - 1]]
  <1>1. Sorted(s) = v
    BY DEF Sorted
  <1>2. /\ n \in Nat /\ DOMAIN s = 1 .. n /\ \A i \in 1 .. n : s[i] \in Receipts
        /\ E \in SUBSET Receipts /\ IsFiniteSet(E) /\ Cardinality(E) = n
    BY LenProperties, ElementOfSeq, ElementsAreCounted
  <1>3. ASSUME NEW i \in 1 .. n
        PROVE  Rank(i) = n - 1 - Cardinality(Later(E, s[i]))
    <2>. DEFINE I == {j \in DOMAIN s : Before(s[j], s[i]) \/ (j < i /\ ~Before(s[i], s[j]))}
               f == [j \in I |-> s[j]]
    <2>1. s[i] \in E
      BY <1>2 DEF ElementsOf
    <2>2. I = {j \in 1 .. n : Before(s[j], s[i])}
      <3>. SUFFICES ASSUME NEW j \in 1 .. n, j < i, ~Before(s[i], s[j])
                    PROVE  Before(s[j], s[i])
        BY <1>2
      <3>1. s[i] # s[j]
        BY <1>2 DEF OnePerElement
      <3>. QED
        BY <1>2, <3>1, BeforeIsOrder
    <2>3. f \in Bijection(I, Earlier(E, s[i]))
      <3>. HIDE DEF n
      <3>1. \A j \in I : f[j] = s[j] /\ s[j] \in Earlier(E, s[i])
        BY <1>2, <2>2 DEF Earlier, ElementsOf
      <3>2. \A j, k \in I : s[j] = s[k] => j = k
        BY DEF OnePerElement
      <3>3. \A q \in Earlier(E, s[i]) : \E j \in I : s[j] = q
        BY <1>2, <2>2 DEF Earlier, ElementsOf
      <3>. HIDE DEF I
      <3>4. f \in [I -> Earlier(E, s[i])]
        BY <3>1
      <3>. QED
        BY <3>1, <3>2, <3>3, <3>4 DEF Bijection, Injection, Surjection, IsInjective
    <2>4. IsFiniteSet(I)
      <3>1. IsFiniteSet(1 .. n)
        BY <1>2, FS_Interval
      <3>. QED
        BY <2>2, <3>1, FS_Subset
    <2>. HIDE DEF I
    <2>5. Cardinality(I) = Cardinality(Earlier(E, s[i]))
      BY <2>3, <2>4, FS_Bijection DEF ExistsBijection
    <2>6. Rank(i) = Cardinality(I)
      BY DEF I
    <2>7. Cardinality(Earlier(E, s[i])) = n - Cardinality(Later(E, s[i])) - 1
      BY <1>2, <2>1, EarlierIsCounted
    <2>8. Cardinality(Later(E, s[i])) \in Nat
      BY <1>2, <2>1, LaterIsCounted
    <2>. QED
      BY <1>2, <2>5, <2>6, <2>7, <2>8
  <1>. HIDE DEF E, n, Rank
  <1>4. ASSUME NEW k \in 1 .. n
        PROVE  v[k] \in E /\ Cardinality(Later(E, v[k])) = n - k
    <2>1. \E i \in DOMAIN s : Rank(i) = k - 1
      <3>1. n - k \in Nat /\ n - k < n
        BY <1>2
      <3>2. PICK r \in E : Cardinality(Later(E, r)) = n - k
        BY <1>2, <3>1, LaterOnto
      <3>3. PICK i \in 1 .. n : s[i] = r
        BY <1>2 DEF E, ElementsOf
      <3>4. Rank(i) = n - 1 - (n - k)
        BY <1>3, <3>2, <3>3
      <3>. QED
        BY <1>2, <3>4
    <2>. DEFINE i == CHOOSE i \in DOMAIN s : Rank(i) = k - 1
    <2>2. i \in 1 .. n /\ Rank(i) = k - 1
      BY <1>2, <2>1
    <2>3. v[k] = s[i]
      BY <1>2
    <2>. HIDE DEF i
    <2>4. s[i] \in E
      BY <1>2, <2>2 DEF E, ElementsOf
    <2>5. Cardinality(Later(E, s[i])) \in Nat
      BY <1>2, <2>4, LaterIsCounted
    <2>6. k - 1 = n - 1 - Cardinality(Later(E, s[i]))
      BY <1>3, <2>2
    <2>. QED
      BY <1>2, <2>3, <2>4, <2>5, <2>6
  <1>5. v \in [1 .. n -> Receipts] /\ DOMAIN v = 1 .. n
    BY <1>2, <1>4
  <1>. HIDE DEF v
  <1>6. v \in Seq(Receipts) /\ Len(v) = n
    BY <1>2, <1>5, FunctionIsSequence
  <1>7. ElementsOf(v) = E
    <2>1. ElementsOf(v) \in SUBSET E
      BY <1>4, <1>5 DEF ElementsOf
    <2>2. ASSUME NEW r \in E
          PROVE  r \in ElementsOf(v)
      <3>1. PICK m \in Nat : m = Cardinality(Later(E, r)) /\ m < n
        BY <1>2, LaterIsCounted
      <3>2. n - m \in 1 .. n /\ n - (n - m) = m
        BY <1>2, <3>1
      <3>3. v[n - m] \in E /\ Cardinality(Later(E, v[n - m])) = m
        BY <1>4, <3>2
      <3>4. v[n - m] = r
        BY <1>2, <3>1, <3>3, LaterOnto
      <3>. QED
        BY <1>5, <3>2, <3>4 DEF ElementsOf
    <2>. QED
      BY <2>1, <2>2
  <1>8. OnePerElement(v)
    <2>. SUFFICES ASSUME NEW i \in 1 .. n, NEW j \in 1 .. n, v[i] = v[j]
                  PROVE  i = j
      BY <1>5 DEF OnePerElement
    <2>1. n - i = n - j
      BY <1>4
    <2>. QED
      BY <1>2, <2>1
  <1>9. InOrder(v)
    BY <1>4, <1>5, <1>6, <1>7 DEF InOrder
  <1>. QED
    BY <1>1, <1>6, <1>7, <1>8, <1>9 DEF E, n

LEMMA EndIsPicked ==
  ASSUME NEW n \in Nat, NEW a \in 0 .. n, NEW s
  PROVE  Pick(s, (a + 1) .. n) = [k \in 1 .. (n - a) |-> s[a + k]]
  <1>. DEFINE I == (a + 1) .. n
             Nth(i) == Cardinality({j \in I : j <= i})
  <1>0. a \in Nat
    OBVIOUS
  <1>1. Cardinality(I) = n - a
    <2>. DEFINE b == a + 1
    <2>1. b \in Int /\ b = a + 1
      OBVIOUS
    <2>. HIDE DEF b
    <2>2. Cardinality(b .. n) = IF b > n THEN 0 ELSE n - b + 1
      BY <2>1, FS_Interval
    <2>. QED
      BY <2>1, <2>2 DEF b
  <1>2. ASSUME NEW i \in I
        PROVE  Nth(i) = i - a
    <2>. DEFINE b == a + 1
    <2>1. b \in Int /\ b = a + 1
      OBVIOUS
    <2>2. {j \in I : j <= i} = b .. i /\ i \in Int /\ i >= b
      OBVIOUS
    <2>. HIDE DEF b, I
    <2>3. Cardinality(b .. i) = IF b > i THEN 0 ELSE i - b + 1
      BY <2>1, <2>2, FS_Interval
    <2>4. Nth(i) = Cardinality(b .. i)
      BY <2>2
    <2>. HIDE DEF Nth
    <2>. QED
      BY <1>0, <2>1, <2>2, <2>3, <2>4
  <1>. HIDE DEF Nth
  <1>3. ASSUME NEW k \in 1 .. (n - a)
        PROVE  (CHOOSE i \in I : Nth(i) = k) = a + k
    <2>1. a + k \in I /\ Nth(a + k) = k
      BY <1>2
    <2>2. \A i \in I : Nth(i) = k => i = a + k
      BY <1>2
    <2>. QED
      BY <2>1, <2>2
  <1>. HIDE DEF I
  <1>4. Pick(s, I) = [k \in 1 .. Cardinality(I) |-> s[CHOOSE i \in I : Nth(i) = k]]
    BY DEF Pick, Nth
  <1>. QED
    BY <1>1, <1>3, <1>4 DEF I

\* No two receipts are of the same release.
OnePerRelease(E) == \A r, q \in E : Same(r, q) => r = q

\* What reading the list s as a history gives.
ReadBack(s) == Latest(Unique(Sorted(s)))

\* A history is the newest of what the list holds, in order and each once.
LEMMA ReadIsNewest ==
  ASSUME NEW s \in Seq(Receipts), OnePerElement(s), OnePerRelease(ElementsOf(s))
  PROVE  /\ ReadBack(s) \in Seq(Receipts) /\ OnePerElement(ReadBack(s))
         /\ ElementsOf(ReadBack(s)) = Newest(ElementsOf(s))
         /\ \A i, j \in DOMAIN ReadBack(s) : i < j => Before(ReadBack(s)[i], ReadBack(s)[j])
  <1>. DEFINE v == Sorted(s)
             n == Len(s)
             E == ElementsOf(s)
             a == IF n > HistoryLimit THEN n - HistoryLimit ELSE 0
             w == [k \in 1 .. (n - a) |-> v[a + k]]
  <1>1. /\ v \in Seq(Receipts) /\ Len(v) = n /\ DOMAIN v = 1 .. n /\ n \in Nat
        /\ ElementsOf(v) = E /\ OnePerElement(v)
        /\ \A i \in 1 .. n : v[i] \in E /\ Cardinality(Later(E, v[i])) = n - i
    <2>1. /\ v \in Seq(Receipts) /\ Len(v) = n /\ ElementsOf(v) = E
          /\ InOrder(v) /\ OnePerElement(v)
      BY SortedIsInOrder
    <2>2. DOMAIN v = 1 .. n /\ n \in Nat
      BY <2>1, LenProperties
    <2>. HIDE DEF v, n, E
    <2>. QED
      BY <2>1, <2>2 DEF InOrder, ElementsOf
  <1>2. E \in SUBSET Receipts /\ IsFiniteSet(E)
    BY ElementsAreCounted
  <1>3. a \in 0 .. n
    BY <1>1, HistoryLimitAssumption
  <1>4. Unique(v) = [k \in 1 .. n |-> v[k]]
    <2>. HIDE DEF v, n, E
    <2>1. {i \in DOMAIN v : \A j \in 1 .. (i - 1) : ~Same(v[i], v[j])} = 1 .. n
      <3>. SUFFICES ASSUME NEW i \in 1 .. n, NEW j \in 1 .. (i - 1)
                    PROVE  ~Same(v[i], v[j])
        BY <1>1
      <3>1. j \in 1 .. n /\ i # j
        BY <1>1
      <3>. QED
        BY <1>1, <3>1 DEF OnePerRelease, OnePerElement, E
    <2>2. Pick(v, (0 + 1) .. n) = [k \in 1 .. (n - 0) |-> v[0 + k]]
      BY <1>1, EndIsPicked
    <2>3. Pick(v, 1 .. n) = [k \in 1 .. n |-> v[k]]
      <3>1. 0 + 1 = 1 /\ n - 0 = n /\ \A k \in 1 .. n : 0 + k = k
        BY <1>1
      <3>. QED
        BY <2>2, <3>1
    <2>. QED
      BY <2>1, <2>3 DEF Unique
  <1>5. Unique(v) = v
    <2>. HIDE DEF v, n
    <2>. QED
      BY <1>1, <1>4, LenProperties
  <1>6. Latest(v) = w
    <2>1. {i \in DOMAIN v : i > Len(v) - HistoryLimit} = (a + 1) .. n
      <3>. HIDE DEF v, n
      <3>. QED
        BY <1>1, HistoryLimitAssumption
    <2>. HIDE DEF v, n, a
    <2>2. Pick(v, (a + 1) .. n) = w
      BY <1>1, <1>3, EndIsPicked
    <2>. QED
      BY <2>1, <2>2 DEF Latest
  <1>7. ReadBack(s) = w
    BY <1>5, <1>6 DEF ReadBack
  <1>8. \A k \in 1 .. (n - a) : a + k \in 1 .. n
    <2>. HIDE DEF n, a
    <2>. QED
      BY <1>1, <1>3
  <1>. HIDE DEF v, n, E
  <1>9. w \in Seq(Receipts) /\ DOMAIN w = 1 .. (n - a)
    <2>1. n - a \in Nat
      BY <1>1, <1>3
    <2>. HIDE DEF a
    <2>2. w \in [1 .. (n - a) -> Receipts]
      BY <1>1, <1>2, <1>8
    <2>. QED
      BY <2>1, <2>2, FunctionIsSequence
  <1>10. OnePerElement(w)
    <2>. HIDE DEF a
    <2>. SUFFICES ASSUME NEW i \in 1 .. (n - a), NEW j \in 1 .. (n - a), v[a + i] = v[a + j]
                  PROVE  i = j
      BY DEF OnePerElement
    <2>1. a + i = a + j
      BY <1>1, <1>8 DEF OnePerElement
    <2>. QED
      BY <1>1, <1>3, <2>1
  <1>11. ElementsOf(w) = Newest(E)
    <2>1. ASSUME NEW i \in DOMAIN w
          PROVE  w[i] \in Newest(E)
      <3>1. a + i \in 1 .. n /\ w[i] = v[a + i] /\ n - (a + i) < HistoryLimit
        BY <1>1, <1>3, <1>8, <1>9, HistoryLimitAssumption
      <3>. HIDE DEF a
      <3>. QED
        BY <1>1, <3>1 DEF Newest
    <2>2. ASSUME NEW r \in Newest(E)
          PROVE  \E i \in DOMAIN w : w[i] = r
      <3>1. PICK k \in 1 .. n : v[k] = r
        BY <1>1 DEF Newest, ElementsOf
      <3>2. n - k < HistoryLimit
        BY <1>1, <3>1 DEF Newest
      <3>3. k - a \in 1 .. (n - a) /\ a + (k - a) = k
        BY <1>1, <3>2, HistoryLimitAssumption
      <3>. HIDE DEF a
      <3>. QED
        BY <1>9, <3>1, <3>3
    <2>. QED
      BY <2>1, <2>2 DEF ElementsOf
  <1>12. ASSUME NEW i \in DOMAIN w, NEW j \in DOMAIN w, i < j
         PROVE  Before(w[i], w[j])
    <2>1. a + i \in 1 .. n /\ a + j \in 1 .. n /\ w[i] = v[a + i] /\ w[j] = v[a + j] /\ a + i < a + j
      <3>. HIDE DEF a
      <3>. QED
        BY <1>1, <1>3, <1>8, <1>9, <1>12
    <2>. HIDE DEF a, w
    <2>2. PICK b \in 1 .. n : b = a + i
      BY <2>1
    <2>3. PICK c \in 1 .. n : c = a + j
      BY <2>1
    <2>4. /\ v[b] \in E /\ v[c] \in E
          /\ Cardinality(Later(E, v[c])) < Cardinality(Later(E, v[b]))
      BY <1>1, <2>1, <2>2, <2>3
    <2>5. ~Before(v[c], v[b]) /\ v[b] # v[c]
      <3>1. Cardinality(Later(E, v[b])) \in Nat /\ Cardinality(Later(E, v[c])) \in Nat
        BY <1>2, <2>4, LaterIsCounted
      <3>2. ~(Cardinality(Later(E, v[b])) < Cardinality(Later(E, v[c])))
        BY <2>4, <3>1
      <3>. QED
        BY <1>2, <2>4, <3>1, <3>2, LaterFalls
    <2>6. Before(v[b], v[c])
      BY <1>2, <2>4, <2>5, BeforeIsOrder
    <2>. QED
      BY <2>1, <2>2, <2>3, <2>6
  <1>. HIDE DEF w
  <1>. QED
    BY <1>7, <1>9, <1>10, <1>11, <1>12 DEF E

-----------------------------------------------------------------------------
(* The history of the record.                                               *)

Records ==
  [last : Nat, releasedAt : Nat, job : Nat, phase : {"none", "pending", "publish"},
   history : Seq(Receipts), ever : SUBSET Receipts]

\* What VerifiedHistory sorts.
Items(s) == s.history \o Legacy(s)

\* A record lists the newest of all that was verified, each once, if perhaps not
\* in order; and a pending job has a number that was never released.
Faithful(s) ==
  /\ s \in Records /\ IsFiniteSet(s.ever) /\ OnePerRelease(s.ever)
  /\ \A r \in s.ever : r.tag <= s.last
  /\ Items(s) \in Seq(Receipts) /\ OnePerElement(Items(s))
  /\ ElementsOf(Items(s)) = Newest(s.ever)
  /\ s.job \in {0, s.last + 1}

HistoryInv == Faithful(saved) /\ (state # None => Faithful(state))

LEMMA FaithfulHistory ==
  ASSUME NEW s, Faithful(s)
  PROVE  LET h == VerifiedHistory(s)
         IN /\ h \in Seq(Receipts) /\ OnePerElement(h)
            /\ ElementsOf(h) = Newest(s.ever) /\ Len(h) = Cardinality(Newest(s.ever))
            /\ \A i, j \in DOMAIN h : i < j => Before(h[i], h[j])
  <1>. DEFINE h == VerifiedHistory(s)
  <1>1. h = ReadBack(Items(s))
    BY DEF VerifiedHistory, ReadBack, Items
  <1>2. s.ever \in SUBSET Receipts /\ IsFiniteSet(s.ever)
    BY DEF Faithful, Records
  <1>3. OnePerRelease(ElementsOf(Items(s)))
    BY DEF Faithful, OnePerRelease, Newest
  <1>4. /\ h \in Seq(Receipts) /\ OnePerElement(h) /\ ElementsOf(h) = Newest(Newest(s.ever))
        /\ \A i, j \in DOMAIN h : i < j => Before(h[i], h[j])
    <2>. HIDE DEF h
    <2>. QED
      BY <1>1, <1>3, ReadIsNewest DEF Faithful
  <1>5. Newest(Newest(s.ever) \union {}) = Newest(s.ever \union {})
    BY <1>2, NewestIsEnough, FS_EmptySet
  <1>6. ElementsOf(h) = Newest(s.ever)
    BY <1>4, <1>5
  <1>. HIDE DEF h
  <1>7. Len(h) = Cardinality(Newest(s.ever))
    BY <1>4, <1>6, ElementsAreCounted
  <1>. QED
    BY <1>4, <1>6, <1>7 DEF h

\* What Finish saves.
Finished(s, at) ==
  [RecordVerified(s, [tag |-> s.job, commit |-> s.job], at) EXCEPT
     !.last = s.job, !.releasedAt = at, !.job = 0, !.phase = "none",
     !.ever = @ \union {Receipt(at, [tag |-> s.job, commit |-> s.job])}]

LEMMA FinishedIsFaithful ==
  ASSUME NEW s, Faithful(s), s.job # 0, NEW at \in Times
  PROVE  Faithful(Finished(s, at))
  <1>. DEFINE n == s.job
             result == [tag |-> n, commit |-> n]
             x == Receipt(at, result)
             h == VerifiedHistory(s)
             old == [s EXCEPT !.history = h]
             longer == Append(h, x)
             next == [old EXCEPT !.history = longer]
             new == Finished(s, at)
  <1>1. n \in Nat \ {0} /\ n = s.last + 1 /\ s.last \in Nat /\ s.ever \in SUBSET Receipts
        /\ IsFiniteSet(s.ever) /\ s \in Records
    BY DEF Faithful, Records
  <1>2. x \in Receipts /\ x.tag = n
    BY <1>1, ConstantsAssumption DEF Receipt, Receipts
  <1>3. \A r \in s.ever : r.tag < n /\ r \in Receipts
    BY <1>1 DEF Faithful, Receipts
  <1>4. /\ h \in Seq(Receipts) /\ OnePerElement(h) /\ ElementsOf(h) = Newest(s.ever)
        /\ DOMAIN h = 1 .. Len(h) /\ Len(h) \in Nat
    BY FaithfulHistory, LenProperties
  <1>. HIDE DEF h, x, n
  <1>5. \A i \in DOMAIN h : h[i] \in s.ever
    BY <1>4 DEF ElementsOf, Newest
  <1>6. /\ longer \in Seq(Receipts) /\ longer # <<>> /\ DOMAIN longer = 1 .. (Len(h) + 1)
        /\ \A i \in 1 .. Len(h) : longer[i] = h[i]
        /\ longer[Len(h) + 1] = x
    <2>1. /\ longer \in Seq(Receipts) /\ longer # <<>> /\ Len(longer) = Len(h) + 1
          /\ \A i \in 1 .. Len(h) : longer[i] = h[i]
          /\ longer[Len(h) + 1] = x
      BY <1>2, <1>4, AppendProperties
    <2>. QED
      BY <2>1, LenProperties
  <1>. HIDE DEF longer
  <1>7. ElementsOf(longer) = Newest(s.ever) \union {x}
    BY <1>4, <1>6 DEF ElementsOf
  <1>8. OnePerElement(longer)
    <2>. SUFFICES ASSUME NEW i \in 1 .. (Len(h) + 1), NEW j \in 1 .. (Len(h) + 1),
                         longer[i] = longer[j]
                  PROVE  i = j
      BY <1>6 DEF OnePerElement
    <2>1. \A k \in 1 .. Len(h) : longer[k] # x
      <3>. SUFFICES ASSUME NEW k \in 1 .. Len(h)
                    PROVE  longer[k] # x
        OBVIOUS
      <3>1. longer[k] \in s.ever
        BY <1>4, <1>5, <1>6
      <3>2. longer[k].tag < n /\ longer[k].tag \in Nat
        BY <1>3, <3>1 DEF Receipts
      <3>. QED
        BY <1>1, <1>2, <3>2
    <2>2. CASE i = Len(h) + 1 \/ j = Len(h) + 1
      BY <1>4, <1>6, <2>1, <2>2
    <2>3. CASE i # Len(h) + 1 /\ j # Len(h) + 1
      <3>1. i \in 1 .. Len(h) /\ j \in 1 .. Len(h)
        BY <1>4, <2>3
      <3>. QED
        BY <1>4, <1>6, <3>1 DEF OnePerElement
    <2>. QED
      BY <2>2, <2>3
  <1>. DEFINE all == s.ever \union {x}
  <1>9. OnePerRelease(all)
    <2>. SUFFICES ASSUME NEW r \in all, NEW q \in all, Same(r, q)
                  PROVE  r = q
      BY DEF OnePerRelease
    <2>1. CASE r \in s.ever /\ q \in s.ever
      BY <2>1 DEF Faithful, OnePerRelease
    <2>2. CASE r = x /\ q = x
      BY <2>2
    <2>3. CASE (r = x /\ q \in s.ever) \/ (q = x /\ r \in s.ever)
      BY <1>1, <1>2, <1>3, <2>3 DEF Same, Receipts
    <2>. QED
      BY <2>1, <2>2, <2>3
  <1>10. IsFiniteSet({x}) /\ all \in SUBSET Receipts /\ IsFiniteSet(all)
    BY <1>1, <1>2, FS_Singleton, FS_AddElement
  <1>11. Newest(Newest(s.ever) \union {x}) = Newest(all)
    BY <1>1, <1>2, <1>10, NewestIsEnough
  <1>12. OnePerRelease(ElementsOf(longer))
    BY <1>7, <1>9 DEF OnePerRelease, Newest
  <1>13. /\ ReadBack(longer) \in Seq(Receipts) /\ OnePerElement(ReadBack(longer))
         /\ ElementsOf(ReadBack(longer)) = Newest(all)
    BY <1>6, <1>7, <1>8, <1>11, <1>12, ReadIsNewest
  <1>14. ReadBack(longer) # <<>>
    <2>1. Cardinality(all) \in Nat \ {0}
      <3>1. Cardinality(all) \in Nat /\ all # {}
        BY <1>10, FS_CardinalityType
      <3>. HIDE DEF all
      <3>. QED
        BY <1>10, <3>1, FS_EmptySet
    <2>2. PICK r \in all : Cardinality(Later(all, r)) = 0
      <3>. HIDE DEF all
      <3>. QED
        BY <1>10, <2>1, LaterOnto
    <2>3. r \in Newest(all)
      BY <2>2, HistoryLimitAssumption DEF Newest
    <2>. QED
      BY <1>13, <2>3, EmptyIsSnapshot
  <1>15. old.history = h /\ old \in Records
    BY <1>1, <1>4 DEF Records
  <1>16. ~ \E i \in DOMAIN old.history : Same(old.history[i], result)
    BY <1>1, <1>3, <1>5, <1>15 DEF Same
  <1>17. VerifiedHistory(next) = ReadBack(longer)
    <2>1. next.history = longer
      BY <1>15 DEF Records
    <2>2. Legacy(next) = <<>>
      BY <1>6, <2>1 DEF Legacy
    <2>3. next.history \o Legacy(next) = longer
      BY <1>6, <2>1, <2>2, ConcatEmptySeq
    <2>. HIDE DEF next
    <2>. QED
      BY <2>3 DEF VerifiedHistory, ReadBack
  <1>18. RecordVerified(s, result, at) = [old EXCEPT !.history = ReadBack(longer)]
    <2>1. [old EXCEPT !.history = Append(@, Receipt(at, result))] = next
      BY <1>15 DEF longer, x, Records
    <2>. HIDE DEF next
    <2>. QED
      BY <1>16, <1>17, <2>1 DEF RecordVerified, h
  <1>19. /\ new \in Records /\ new.last = n /\ new.job = 0 /\ new.ever = all
         /\ new.history = ReadBack(longer)
    <2>1. new = [[old EXCEPT !.history = ReadBack(longer)] EXCEPT
                   !.last = n, !.releasedAt = at, !.job = 0, !.phase = "none",
                   !.ever = @ \union {x}]
      BY <1>18 DEF Finished, n, x
    <2>2. at \in Nat
      BY ConstantsAssumption
    <2>3. old.ever = s.ever
      BY <1>1 DEF Records
    <2>. HIDE DEF old, new
    <2>. QED
      BY <1>1, <1>10, <1>13, <1>15, <2>1, <2>2, <2>3 DEF Records
  <1>. HIDE DEF new
  <1>20. Items(new) = ReadBack(longer)
    <2>1. Legacy(new) = <<>>
      BY <1>14, <1>19 DEF Legacy
    <2>. QED
      BY <1>13, <1>19, <2>1, ConcatEmptySeq DEF Items
  <1>21. \A r \in new.ever : r.tag <= new.last
    BY <1>1, <1>2, <1>3, <1>19 DEF Receipts
  <1>22. Faithful(new)
    <2>. HIDE DEF all
    <2>. QED
      BY <1>9, <1>10, <1>13, <1>19, <1>20, <1>21 DEF Faithful
  <1>. QED
    BY <1>22 DEF new

LEMMA FirstIsFaithful == Init => Faithful(saved)
  <1>. SUFFICES ASSUME Init
                PROVE  Faithful(saved)
    OBVIOUS
  <1>. DEFINE First(l, t) == Receipt(t, [tag |-> l, commit |-> l])
  <1>1. PICK l \in {0, 1}, t \in Times \union {Unknown}, j \in {0, 1, 2}, legacy \in BOOLEAN :
          saved = [last |-> l, releasedAt |-> t, job |-> j,
                   phase |-> IF j = 0 THEN "none" ELSE "pending",
                   history |-> IF legacy THEN <<>> ELSE <<First(l, t)>>,
                   ever |-> IF l = 0 THEN {} ELSE {First(l, t)}]
    BY DEF Init
  <1>2. saved.job \in {0, saved.last + 1} /\ (saved.last = 0 => saved.history = <<>>)
    BY DEF Init
  <1>. DEFINE x == First(l, t)
  <1>3. x \in Receipts /\ x.tag = l
    BY ConstantsAssumption DEF Receipt, Receipts, Unknown
  <1>. HIDE DEF x
  <1>4. /\ saved.last = l /\ saved.releasedAt = t
        /\ saved.history = IF legacy THEN <<>> ELSE <<x>>
        /\ saved.ever = IF l = 0 THEN {} ELSE {x}
    BY <1>1 DEF x
  <1>5. <<x>> \in Seq(Receipts) /\ <<>> \in Seq(Receipts) /\ <<x>> # <<>>
    BY <1>3
  <1>6. saved \in Records
    <2>1. t \in Nat
      BY ConstantsAssumption DEF Unknown
    <2>2. saved.history \in Seq(Receipts) /\ saved.ever \in SUBSET Receipts
      BY <1>3, <1>4, <1>5
    <2>3. saved = [last |-> l, releasedAt |-> t, job |-> j,
                   phase |-> IF j = 0 THEN "none" ELSE "pending",
                   history |-> saved.history, ever |-> saved.ever]
      BY <1>1
    <2>. DEFINE h == saved.history
               e == saved.ever
    <2>. HIDE DEF h, e
    <2>4. [last |-> l, releasedAt |-> t, job |-> j,
           phase |-> IF j = 0 THEN "none" ELSE "pending", history |-> h, ever |-> e] \in Records
      BY <2>1, <2>2 DEF Records, h, e
    <2>. QED
      BY <2>3, <2>4 DEF h, e
  <1>7. Legacy(saved) = IF saved.history = <<>> /\ l # 0 THEN <<x>> ELSE <<>>
    BY <1>4 DEF Legacy, x
  <1>8. Items(saved) = IF l = 0 THEN <<>> ELSE <<x>>
    <2>1. CASE l = 0
      BY <1>2, <1>4, <1>5, <1>7, <2>1, ConcatEmptySeq DEF Items
    <2>2. CASE l # 0 /\ legacy
      BY <1>4, <1>5, <1>7, <2>2, ConcatEmptySeq DEF Items
    <2>3. CASE l # 0 /\ ~legacy
      BY <1>4, <1>5, <1>7, <2>3, ConcatEmptySeq DEF Items
    <2>. QED
      BY <2>1, <2>2, <2>3
  <1>9. ElementsOf(Items(saved)) = saved.ever /\ OnePerElement(Items(saved))
    <2>1. DOMAIN <<x>> = {1} /\ <<x>>[1] = x
      OBVIOUS
    <2>2. ElementsOf(<<x>>) = {x} /\ OnePerElement(<<x>>)
      BY <2>1 DEF ElementsOf, OnePerElement
    <2>3. ElementsOf(<<>>) = {} /\ OnePerElement(<<>>)
      BY EmptyIsSnapshot DEF OnePerElement
    <2>. QED
      BY <1>4, <1>8, <2>2, <2>3
  <1>10. Newest({}) = {} /\ Newest({x}) = {x}
    <2>1. Later({x}, x) = {}
      BY <1>3, BeforeIsOrder DEF Later
    <2>2. Cardinality(Later({x}, x)) < HistoryLimit
      BY <2>1, FS_EmptySet, HistoryLimitAssumption
    <2>. QED
      BY <2>2 DEF Newest
  <1>11. IsFiniteSet(saved.ever) /\ OnePerRelease(saved.ever) /\ (\A r \in saved.ever : r.tag <= saved.last)
    <2>1. IsFiniteSet({x}) /\ IsFiniteSet({})
      BY FS_EmptySet, FS_Singleton
    <2>2. saved.ever \in {{}, {x}} /\ (saved.ever = {x} => saved.last = l)
      BY <1>4
    <2>3. IsFiniteSet(saved.ever) /\ OnePerRelease(saved.ever)
      BY <2>1, <2>2 DEF OnePerRelease
    <2>4. \A r \in saved.ever : r.tag <= saved.last
      BY <1>3, <2>2
    <2>. QED
      BY <2>3, <2>4
  <1>12. Items(saved) \in Seq(Receipts) /\ ElementsOf(Items(saved)) = Newest(saved.ever)
    BY <1>4, <1>5, <1>8, <1>9, <1>10
  <1>. QED
    BY <1>2, <1>6, <1>9, <1>11, <1>12 DEF Faithful

LEMMA HistoryInvHolds == Spec => []HistoryInv
  <1>1. Init => HistoryInv
    BY FirstIsFaithful DEF HistoryInv, Init
  <1>2. HistoryInv /\ [Next]_vars => HistoryInv'
    <2>. SUFFICES ASSUME HistoryInv, [Next]_vars
                  PROVE  HistoryInv'
      OBVIOUS
    <2>. USE DEF HistoryInv
    <2>1. ASSUME NEW s, Save(s), Faithful(s)
          PROVE  HistoryInv'
      <3>1. state' = s /\ saved' \in {saved, s}
        BY <2>1 DEF Save
      <3>. QED
        BY <2>1, <3>1
    <2>2. CASE Cycle
      <3>1. saved' = saved /\ state' \in {saved, state}
        BY <2>2 DEF Cycle
      <3>. QED
        BY <3>1
    <2>3. CASE OpenJob
      <3>. DEFINE s == [state EXCEPT !.job = state.last + 1, !.phase = "pending"]
      <3>1. Save(s) /\ Faithful(state) /\ state \in Records
        BY <2>3 DEF OpenJob, Faithful
      <3>2. s \in Records /\ s.last = state.last /\ s.releasedAt = state.releasedAt
            /\ s.history = state.history /\ s.ever = state.ever /\ s.job = s.last + 1
        <4>1. state.last + 1 \in Nat
          BY <3>1 DEF Records
        <4>. DEFINE n == state.last + 1
        <4>. HIDE DEF n
        <4>2. [state EXCEPT !.job = n, !.phase = "pending"] \in Records
          BY <3>1, <4>1 DEF Records, n
        <4>3. s = [state EXCEPT !.job = n, !.phase = "pending"]
          BY DEF n
        <4>. HIDE DEF s
        <4>4. s.last = state.last /\ s.releasedAt = state.releasedAt
              /\ s.history = state.history /\ s.ever = state.ever /\ s.job = n
          BY <3>1, <4>3 DEF Records
        <4>. QED
          BY <4>2, <4>3, <4>4 DEF n
      <3>. HIDE DEF s
      <3>3. Items(s) = Items(state)
        BY <3>2 DEF Items, Legacy
      <3>4. Faithful(s)
        BY <3>1, <3>2, <3>3 DEF Faithful
      <3>. QED
        BY <2>1, <3>1, <3>4
    <2>4. CASE Advance
      <3>. DEFINE s == [state EXCEPT !.phase = "publish"]
      <3>1. Save(s) /\ Faithful(state) /\ state \in Records
        BY <2>4 DEF Advance, Faithful
      <3>2. s \in Records /\ s.last = state.last /\ s.releasedAt = state.releasedAt
            /\ s.history = state.history /\ s.ever = state.ever /\ s.job = state.job
        BY <3>1 DEF Records
      <3>. HIDE DEF s
      <3>3. Items(s) = Items(state)
        BY <3>2 DEF Items, Legacy
      <3>4. Faithful(s)
        BY <3>1, <3>2, <3>3 DEF Faithful
      <3>. QED
        BY <2>1, <3>1, <3>4
    <2>5. ASSUME NEW at \in Times, Finish(at)
          PROVE  HistoryInv'
      <3>1. Save(Finished(state, at)) /\ Faithful(state) /\ state.job # 0
        BY <2>5 DEF Finish, Finished
      <3>. QED
        BY <2>1, <3>1, FinishedIsFaithful
    <2>6. CASE \/ EndCycle \/ Return \/ (\E key \in Keys : Press(key))
               \/ (\E h \in Heights : Tick(h)) \/ Collect \/ Signal \/ HangUp \/ UNCHANGED vars
      <3>1. saved' = saved /\ state' = state
        BY <2>6 DEF EndCycle, Return, Press, Tick, Collect, Signal, HangUp, vars, record
      <3>. QED
        BY <3>1
    <2>. QED
      BY <2>2, <2>3, <2>4, <2>5, <2>6 DEF Next
  <1>. QED
    BY <1>1, <1>2, PTL DEF Spec

\* The history a record gives is the newest of all that was ever verified, in
\* order and each once, though the clock may step back between two releases, a
\* record may have begun without a history, and any save may fail
\* (history.go:21-98).
THEOREM HistoryKeepsTheLatest == Spec => []HistoryIsLatest
  <1>1. HistoryInv => HistoryIsLatest
    <2>. SUFFICES ASSUME HistoryInv
                  PROVE  HistoryIsLatest
      OBVIOUS
    <2>1. Newest(saved.ever) =
            {r \in saved.ever : Cardinality({q \in saved.ever : Before(r, q)}) < HistoryLimit}
      BY DEF Newest, Later
    <2>. QED
      BY <2>1, FaithfulHistory DEF HistoryInv, HistoryIsLatest
  <1>. QED
    BY <1>1, HistoryInvHolds, PTL

-----------------------------------------------------------------------------
(* The activity and the console: Transcript, for streams, records and       *)
(* heights without a bound.                                                 *)

Pieces  == Nat \union {LineBreak}
Sources == Streams \union {Event}
Lines   == [of : Sources, text : Seq(Pieces)]
Sinks   == [lines : Seq(Lines), open : BOOLEAN, key : Sources]
LogRecords == [of : Sources, piece : Pieces]

SinksInv ==
  /\ console \in Sinks /\ activity \in Sinks
  /\ viewed \in BOOLEAN /\ scroll \in Nat

LogInv ==
  /\ log \in Seq(LogRecords)
  /\ \A j \in 1 .. Len(log) : log[j].of = Event => log[j].piece = LineBreak

\* A line is open when the last record left one, and for its stream.
OpenInv ==
  /\ console.open <=> (log # <<>> /\ log[Len(log)].piece # LineBreak)
  /\ console.open => console.key = log[Len(log)].of
  /\ activity.open <=> console.open
  /\ activity.key = console.key

ConsoleIsFaithful ==
  /\ Len(console.lines) = Cardinality(Starts)
  /\ \A i \in Starts :
       LET line == console.lines[Place(i, Starts)]
       IN /\ line.of = log[i].of
          /\ ListsPieces(line.text, {j \in LineFrom(i) : log[j].piece # LineBreak})

TranscriptInv ==
  /\ SinksInv /\ LogInv /\ OpenInv
  /\ TranscriptIsFaithful

-----------------------------------------------------------------------------
(* Places.                                                                  *)

LEMMA PlacesAreCounted ==
  ASSUME NEW n \in Nat, NEW S \in SUBSET (1 .. n), NEW i \in S
  PROVE  /\ IsFiniteSet(S) /\ Cardinality(S) \in Nat
         /\ Place(i, S) \in 1 .. Cardinality(S)
         /\ (\E k \in S : i < k) => Place(i, S) < Cardinality(S)
         /\ (\A k \in S : k <= i) => Place(i, S) = Cardinality(S)
  <1>. DEFINE P == {j \in S : j <= i}
  <1>1. IsFiniteSet(S) /\ Cardinality(S) \in Nat
    <2>1. IsFiniteSet(1 .. n)
      BY FS_Interval
    <2>2. IsFiniteSet(S)
      BY <2>1, FS_Subset
    <2>. QED
      BY <2>2, FS_CardinalityType
  <1>2. P \in SUBSET S
    OBVIOUS
  <1>3. /\ IsFiniteSet(P) /\ Cardinality(P) <= Cardinality(S)
        /\ Cardinality(S) = Cardinality(P) => S = P
    BY <1>1, <1>2, FS_Subset
  <1>4. Cardinality(P) \in Nat /\ (Cardinality(P) = 0 <=> P = {})
    BY <1>3, FS_CardinalityType, FS_EmptySet
  <1>5. i \in P
    OBVIOUS
  <1>6. (\E k \in S : i < k) => P # S
    OBVIOUS
  <1>7. (\A k \in S : k <= i) => P = S
    OBVIOUS
  <1>8. Place(i, S) = Cardinality(P)
    BY DEF Place
  <1>. HIDE DEF P
  <1>. QED
    BY <1>1, <1>3, <1>4, <1>5, <1>6, <1>7, <1>8

LEMMA PlacesStay ==
  ASSUME NEW n \in Nat, NEW S \in SUBSET (1 .. n)
  PROVE  /\ S \union {n + 1} \in SUBSET (1 .. n + 1)
         /\ \A i \in 1 .. n : Place(i, S \union {n + 1}) = Place(i, S)
         /\ Place(n + 1, S \union {n + 1}) = Cardinality(S) + 1
         /\ Cardinality(S \union {n + 1}) = Cardinality(S) + 1
  <1>1. ASSUME NEW i \in 1 .. n
        PROVE  Place(i, S \union {n + 1}) = Place(i, S)
    <2>1. {j \in S \union {n + 1} : j <= i} = {j \in S : j <= i}
      OBVIOUS
    <2>. QED
      BY <2>1 DEF Place
  <1>2. {j \in S \union {n + 1} : j <= n + 1} = S \union {n + 1}
    <2>1. ASSUME NEW j \in S \union {n + 1}
          PROVE  j <= n + 1
      OBVIOUS
    <2>. QED
      BY <2>1
  <1>3. IsFiniteSet(S)
    <2>1. IsFiniteSet(1 .. n)
      BY FS_Interval
    <2>. QED
      BY <2>1, FS_Subset
  <1>4. Cardinality(S \union {n + 1}) = Cardinality(S) + 1
    BY <1>3, FS_AddElement, n + 1 \notin S
  <1>5. S \union {n + 1} \in SUBSET (1 .. n + 1)
    OBVIOUS
  <1>. QED
    BY <1>1, <1>2, <1>4, <1>5 DEF Place

-----------------------------------------------------------------------------
(* What is kept.                                                            *)

\* The same line joins a whole list and what is kept of it.
LEMMA KeptCounts ==
  ASSUME NEW S, NEW s \in Seq(S)
  PROVE  /\ Len(s) \in Nat
         /\ Kept(s) \in Seq(S)
         /\ Len(Kept(s)) = SmallerOf(Len(s), ActivityLimit)
         /\ \A i \in 1 .. Len(Kept(s)) : Kept(s)[i] = s[Len(s) - Len(Kept(s)) + i]
  <1>1. Len(s) \in Nat /\ \A i \in 1 .. Len(s) : s[i] \in S
    BY LenProperties, ElementOfSeq
  <1>2. ActivityLimit \in Nat \ {0}
    BY ScreenAssumption
  <1>3. CASE Len(s) > ActivityLimit
    <2>. DEFINE m == Len(s) - ActivityLimit + 1
                n == Len(s)
    <2>1. m \in Int /\ n \in Int /\ m <= n /\ \A i \in m .. n : s[i] \in S
      BY <1>1, <1>2, <1>3
    <2>2. Kept(s) = SubSeq(s, m, n)
      BY <1>3 DEF Kept
    <2>3. n - m + 1 = ActivityLimit /\ \A i \in Int : m + i - 1 = n - ActivityLimit + i
      BY <1>1, <1>2
    <2>. HIDE DEF m, n
    <2>4. /\ SubSeq(s, m, n) \in Seq(S)
          /\ Len(SubSeq(s, m, n)) = IF m <= n THEN n - m + 1 ELSE 0
          /\ \A i \in 1 .. n - m + 1 : SubSeq(s, m, n)[i] = s[m + i - 1]
      BY <2>1, SubSeqProperties
    <2>. QED
      BY <1>1, <1>2, <1>3, <2>1, <2>2, <2>3, <2>4 DEF SmallerOf, n
  <1>4. CASE ~(Len(s) > ActivityLimit)
    <2>1. Kept(s) = s
      BY <1>4 DEF Kept
    <2>. QED
      BY <1>1, <1>2, <1>4, <2>1 DEF SmallerOf
  <1>. QED
    BY <1>3, <1>4

LEMMA KeptAppends ==
  ASSUME NEW S, NEW s \in Seq(S), NEW e \in S
  PROVE  Kept(Append(Kept(s), e)) = Kept(Append(s, e))
  <1>. DEFINE k == Kept(s)
             a == Append(k, e)
             b == Append(s, e)
             u == Kept(a)
             v == Kept(b)
  <1>1. /\ Len(s) \in Nat /\ k \in Seq(S) /\ Len(k) = SmallerOf(Len(s), ActivityLimit)
        /\ \A i \in 1 .. Len(k) : k[i] = s[Len(s) - Len(k) + i]
    BY KeptCounts
  <1>2. ActivityLimit \in Nat \ {0}
    BY ScreenAssumption
  <1>. HIDE DEF k
  <1>3. /\ a \in Seq(S) /\ Len(a) = Len(k) + 1 /\ a[Len(k) + 1] = e
        /\ \A i \in 1 .. Len(k) : a[i] = k[i]
    BY <1>1, AppendProperties
  <1>4. /\ b \in Seq(S) /\ Len(b) = Len(s) + 1 /\ b[Len(s) + 1] = e
        /\ \A i \in 1 .. Len(s) : b[i] = s[i]
    BY AppendProperties
  <1>. HIDE DEF a, b
  <1>5. /\ u \in Seq(S) /\ Len(u) = SmallerOf(Len(a), ActivityLimit)
        /\ \A i \in 1 .. Len(u) : u[i] = a[Len(a) - Len(u) + i]
    BY <1>3, KeptCounts
  <1>6. /\ v \in Seq(S) /\ Len(v) = SmallerOf(Len(b), ActivityLimit)
        /\ \A i \in 1 .. Len(v) : v[i] = b[Len(b) - Len(v) + i]
    BY <1>4, KeptCounts
  <1>. HIDE DEF u, v
  <1>7. Len(u) \in Nat /\ Len(u) = Len(v)
    BY <1>1, <1>2, <1>3, <1>4, <1>5, <1>6 DEF SmallerOf
  <1>8. ASSUME NEW i \in 1 .. Len(u)
        PROVE  u[i] = v[i]
    <2>. DEFINE l == Len(u)
               n == Len(s)
               m == Len(k)
    <2>0. /\ l \in Nat /\ n \in Nat /\ m \in Nat /\ l >= 1 /\ l <= m + 1 /\ m <= n
          /\ Len(a) = m + 1 /\ Len(b) = n + 1 /\ i \in 1 .. l /\ Len(v) = l
      BY <1>1, <1>2, <1>3, <1>4, <1>5, <1>7 DEF SmallerOf
    <2>1. u[i] = a[m + 1 - l + i] /\ v[i] = b[n + 1 - l + i]
      <3>1. u[i] = a[Len(a) - l + i] /\ v[i] = b[Len(b) - l + i]
        BY <1>5, <1>6, <2>0
      <3>. QED
        BY <2>0, <3>1
    <2>2. CASE i = Len(u)
      <3>1. m + 1 - l + i = m + 1 /\ n + 1 - l + i = n + 1
        BY <2>0, <2>2
      <3>. QED
        BY <1>3, <1>4, <2>1, <3>1
    <2>3. CASE i # Len(u)
      <3>. DEFINE p == Len(k) + 1 - Len(u) + i
      <3>0. i < l
        BY <2>0, <2>3
      <3>. HIDE DEF l, n, m
      <3>1. p \in 1 .. m /\ n - m + p \in 1 .. n /\ n - m + p = n + 1 - l + i
        BY <2>0, <3>0 DEF m, l
      <3>. HIDE DEF p
      <3>2. a[p] = s[Len(s) - Len(k) + p] /\ b[Len(s) - Len(k) + p] = s[Len(s) - Len(k) + p]
        BY <1>1, <1>3, <1>4, <3>1 DEF m, n
      <3>. QED
        BY <2>1, <3>1, <3>2 DEF p, m, n, l
    <2>. QED
      BY <2>2, <2>3
  <1>9. u = v
    BY <1>5, <1>6, <1>7, <1>8, SeqEqual
  <1>. QED
    BY <1>9 DEF u, v, a, b, k

LEMMA SameLine ==
  ASSUME NEW x \in Lines, NEW y \in Lines, x.of = y.of, x.text = y.text
  PROVE  x = y
  <1>1. x = [of |-> x.of, text |-> x.text] /\ y = [of |-> y.of, text |-> y.text]
    BY DEF Lines
  <1>. QED
    BY <1>1

LEMMA JoinedIsLine ==
  ASSUME NEW s \in Seq(Lines), s # <<>>, NEW piece \in Pieces
  PROVE  /\ Joined(s, piece) \in Seq(Lines) /\ Len(Joined(s, piece)) = Len(s)
         /\ \A i \in 1 .. Len(s) : i # Len(s) => Joined(s, piece)[i] = s[i]
         /\ Joined(s, piece)[Len(s)].of = s[Len(s)].of
         /\ Joined(s, piece)[Len(s)].text =
              IF piece = LineBreak THEN s[Len(s)].text ELSE Append(s[Len(s)].text, piece)
  <1>1. Len(s) \in Nat \ {0} /\ \A i \in 1 .. Len(s) : s[i] \in Lines
    BY EmptySeq, ElementOfSeq
  <1>. DEFINE n == Len(s)
             e == [s[n] EXCEPT !.text = Append(@, piece)]
  <1>2. n \in 1 .. Len(s) /\ s[n] \in Lines
    BY <1>1
  <1>3. CASE piece = LineBreak
    BY <1>3 DEF Joined
  <1>4. CASE piece # LineBreak
    <2>1. Append(s[n].text, piece) \in Seq(Pieces)
      BY <1>2, AppendProperties DEF Lines
    <2>2. e \in Lines /\ e.of = s[n].of /\ e.text = Append(s[n].text, piece)
      BY <1>2, <2>1 DEF Lines
    <2>3. Joined(s, piece) = [s EXCEPT ![n] = e]
      BY <1>4 DEF Joined
    <2>. HIDE DEF e, n
    <2>4. /\ [s EXCEPT ![n] = e] \in Seq(Lines) /\ Len([s EXCEPT ![n] = e]) = Len(s)
          /\ \A j \in 1 .. Len(s) : [s EXCEPT ![n] = e][j] = IF j = n THEN e ELSE s[j]
      BY <1>2, <2>2, ExceptSeq
    <2>. QED
      BY <1>2, <1>4, <2>2, <2>3, <2>4 DEF n
  <1>. QED
    BY <1>3, <1>4

LEMMA KeptJoins ==
  ASSUME NEW s \in Seq(Lines), s # <<>>, NEW piece \in Pieces
  PROVE  Kept(s) # <<>> /\ Joined(Kept(s), piece) = Kept(Joined(s, piece))
  <1>. DEFINE k == Kept(s)
             j == Joined(s, piece)
             u == Joined(k, piece)
             v == Kept(j)
  <1>1. /\ Len(s) \in Nat \ {0} /\ k \in Seq(Lines) /\ Len(k) = SmallerOf(Len(s), ActivityLimit)
        /\ \A i \in 1 .. Len(k) : k[i] = s[Len(s) - Len(k) + i]
    BY KeptCounts, EmptySeq
  <1>2. ActivityLimit \in Nat \ {0}
    BY ScreenAssumption
  <1>. HIDE DEF k
  <1>. DEFINE n == Len(s)
             m == Len(k)
  <1>3. m \in Nat \ {0} /\ n \in Nat \ {0} /\ m <= n /\ m = SmallerOf(n, ActivityLimit) /\ k # <<>>
    BY <1>1, <1>2, EmptySeq DEF SmallerOf
  <1>4. /\ j \in Seq(Lines) /\ Len(j) = n
        /\ \A i \in 1 .. n : i # n => j[i] = s[i]
        /\ j[n].of = s[n].of
        /\ j[n].text = IF piece = LineBreak THEN s[n].text ELSE Append(s[n].text, piece)
    BY JoinedIsLine
  <1>5. /\ u \in Seq(Lines) /\ Len(u) = m
        /\ \A i \in 1 .. m : i # m => u[i] = k[i]
        /\ u[m].of = k[m].of
        /\ u[m].text = IF piece = LineBreak THEN k[m].text ELSE Append(k[m].text, piece)
    BY <1>1, <1>3, JoinedIsLine
  <1>. HIDE DEF j, u
  <1>6. /\ v \in Seq(Lines) /\ Len(v) = SmallerOf(Len(j), ActivityLimit)
        /\ \A i \in 1 .. Len(v) : v[i] = j[Len(j) - Len(v) + i]
    BY <1>4, KeptCounts
  <1>. HIDE DEF v
  <1>7. Len(v) = m /\ \A i \in 1 .. m : v[i] = j[n - m + i]
    BY <1>3, <1>4, <1>6
  <1>8. ASSUME NEW i \in 1 .. m
        PROVE  u[i] = v[i]
    <2>1. CASE i = m
      <3>1. n - m + m = n /\ m \in 1 .. Len(k)
        BY <1>3
      <3>2. v[m] = j[n] /\ k[m] = s[n]
        BY <1>1, <1>7, <2>1, <3>1
      <3>3. u[m] \in Lines /\ v[m] \in Lines
        BY <1>3, <1>5, <1>6, <1>7, ElementOfSeq
      <3>4. u[m].of = v[m].of /\ u[m].text = v[m].text
        BY <1>4, <1>5, <3>2
      <3>. QED
        BY <2>1, <3>3, <3>4, SameLine
    <2>2. CASE i # m
      <3>. DEFINE p == n - m + i
      <3>1. p \in 1 .. n /\ p # n
        BY <1>3, <2>2
      <3>2. v[i] = j[p] /\ k[i] = s[p]
        BY <1>1, <1>7
      <3>. HIDE DEF p
      <3>. QED
        BY <1>4, <1>5, <2>2, <3>1, <3>2
    <2>. QED
      BY <2>1, <2>2
  <1>9. u = v
    BY <1>5, <1>6, <1>7, <1>8, SeqEqual
  <1>. QED
    BY <1>3, <1>9 DEF u, v, k, j

-----------------------------------------------------------------------------
(* Lists of pieces.                                                         *)

\* The text lists the pieces that f has at the places R.
Lists(text, R, f) ==
  Len(text) = Cardinality(R) /\ \A j \in R : text[Place(j, R)] = f[j].piece

LEMMA ListsGrow ==
  ASSUME NEW n \in Nat, NEW R \in SUBSET (1 .. n), NEW text \in Seq(Pieces), NEW f, NEW g,
         Lists(text, R, f), \A j \in 1 .. n : g[j] = f[j], g[n + 1].piece \in Pieces
  PROVE  Lists(text, R, g) /\ Lists(Append(text, g[n + 1].piece), R \union {n + 1}, g)
  <1>. DEFINE p == g[n + 1].piece
             m == Cardinality(R)
             grown == Append(text, p)
  <1>1. Lists(text, R, g)
    BY DEF Lists
  <1>2. Len(text) = m /\ m \in Nat
    BY LenProperties DEF Lists
  <1>3. /\ Len(grown) = m + 1 /\ grown[m + 1] = p
        /\ \A i \in 1 .. m : grown[i] = text[i]
    BY <1>2, AppendProperties
  <1>4. /\ Cardinality(R \union {n + 1}) = m + 1
        /\ Place(n + 1, R \union {n + 1}) = m + 1
        /\ \A j \in 1 .. n : Place(j, R \union {n + 1}) = Place(j, R)
    BY PlacesStay
  <1>. HIDE DEF m, grown
  <1>5. ASSUME NEW j \in R \union {n + 1}
        PROVE  grown[Place(j, R \union {n + 1})] = g[j].piece
    <2>1. CASE j \in R
      <3>1. Place(j, R) \in 1 .. m
        BY <2>1, PlacesAreCounted DEF m
      <3>2. text[Place(j, R)] = g[j].piece
        BY <1>1, <2>1 DEF Lists
      <3>. QED
        BY <1>3, <1>4, <2>1, <3>1, <3>2
    <2>2. CASE j = n + 1
      BY <1>3, <1>4, <2>2
    <2>. QED
      BY <2>1, <2>2
  <1>6. Lists(grown, R \union {n + 1}, g)
    BY <1>3, <1>4, <1>5 DEF Lists
  <1>. QED
    BY <1>1, <1>6 DEF grown

LEMMA ListsBegin ==
  ASSUME NEW n \in Nat, NEW g
  PROVE  Lists(<<>>, {}, g) /\ Lists(<<g[n + 1].piece>>, {n + 1}, g)
  <1>1. Lists(<<>>, {}, g)
    BY FS_EmptySet DEF Lists
  <1>2. {} \in SUBSET (1 .. n) /\ {} \union {n + 1} = {n + 1}
    OBVIOUS
  <1>3. Place(n + 1, {n + 1}) = 1 /\ Cardinality({n + 1}) = 1
    BY <1>2, PlacesStay, FS_EmptySet
  <1>4. Lists(<<g[n + 1].piece>>, {n + 1}, g)
    BY <1>3 DEF Lists
  <1>. QED
    BY <1>1, <1>4

-----------------------------------------------------------------------------
(* The log.                                                                 *)

\* The record continues a line of the log.
Continues(r) ==
  Len(log) # 0 /\ log[Len(log)].piece # LineBreak /\ log[Len(log)].of = r.of

\* What is said adds a record to the log.
Logged(r) == r \in LogRecords /\ log' = Append(log, r)

LEMMA SetGrows ==
  ASSUME NEW n \in Nat, NEW A \in SUBSET (1 .. n), NEW B \in SUBSET (1 .. n + 1),
         \A j \in 1 .. n : j \in B <=> j \in A
  PROVE  B = IF n + 1 \in B THEN A \union {n + 1} ELSE A
  <1>1. \A j : j \in 1 .. n + 1 <=> j \in 1 .. n \/ j = n + 1
    OBVIOUS
  <1>2. n + 1 \notin 1 .. n
    OBVIOUS
  <1>3. CASE n + 1 \in B
    BY <1>1, <1>2, <1>3
  <1>4. CASE n + 1 \notin B
    <2>1. ASSUME NEW j
          PROVE  j \in B <=> j \in A
      BY <1>1, <1>4
    <2>. QED
      BY <1>4, <2>1
  <1>. QED
    BY <1>3, <1>4

LEMMA LogGrows ==
  ASSUME LogInv, NEW r, Logged(r), NEW n, n = Len(log)
  PROVE  /\ n \in Nat /\ DOMAIN log = 1 .. n /\ \A j \in 1 .. n : log[j] \in LogRecords
         /\ log' \in Seq(LogRecords) /\ Len(log') = n + 1 /\ DOMAIN log' = 1 .. n + 1
         /\ log'[n + 1] = r /\ \A j \in 1 .. n : log'[j] = log[j]
         /\ Starts \in SUBSET (1 .. n)
         /\ Starts' = IF Continues(r) THEN Starts ELSE Starts \union {n + 1}
  <1>1. log \in Seq(LogRecords) /\ r \in LogRecords /\ log' = Append(log, r)
    BY DEF LogInv, Logged
  <1>2. n \in Nat /\ DOMAIN log = 1 .. n /\ \A j \in 1 .. n : log[j] \in LogRecords
    BY <1>1, LenProperties, ElementOfSeq
  <1>3. /\ log' \in Seq(LogRecords) /\ Len(log') = n + 1
        /\ log'[n + 1] = r /\ \A j \in 1 .. n : log'[j] = log[j]
    BY <1>1, AppendProperties
  <1>4. DOMAIN log' = 1 .. n + 1
    BY <1>3, LenProperties
  <1>5. Starts \in SUBSET (1 .. n)
    BY <1>2 DEF Starts
  <1>6. ASSUME NEW j \in 1 .. n
        PROVE  j \in Starts' <=> j \in Starts
    <2>1. CASE j = 1
      BY <1>2, <1>4, <2>1 DEF Starts
    <2>2. CASE j # 1
      <3>1. j \in 1 .. n + 1 /\ j - 1 \in 1 .. n
        BY <1>2, <2>2
      <3>2. log'[j] = log[j] /\ log'[j - 1] = log[j - 1]
        BY <1>3, <3>1
      <3>. QED
        BY <1>2, <1>4, <2>2, <3>1, <3>2 DEF Starts
    <2>. QED
      BY <2>1, <2>2
  <1>7. n + 1 \in Starts' <=> ~Continues(r)
    <2>1. n + 1 \in 1 .. n + 1 /\ n + 1 - 1 = n /\ (n + 1 = 1 <=> n = 0)
      BY <1>2
    <2>2. CASE n = 0
      BY <1>4, <2>1, <2>2 DEF Starts, Continues
    <2>3. CASE n # 0
      <3>1. n \in 1 .. n /\ log'[n] = log[n]
        BY <1>2, <1>3, <2>3
      <3>2. n + 1 \in Starts' <=> (log[n].piece = LineBreak \/ log[n].of # r.of)
        BY <1>3, <1>4, <2>1, <2>3, <3>1 DEF Starts
      <3>. QED
        BY <2>3, <3>2 DEF Continues
    <2>. QED
      BY <2>2, <2>3
  <1>8. Starts' \in SUBSET (1 .. n + 1)
    BY <1>4 DEF Starts
  <1>9. Starts' = IF Continues(r) THEN Starts ELSE Starts \union {n + 1}
    <2>1. Starts' = IF n + 1 \in Starts' THEN Starts \union {n + 1} ELSE Starts
      BY <1>2, <1>5, <1>6, <1>8, SetGrows
    <2>. QED
      BY <1>7, <2>1
  <1>. QED
    BY <1>2, <1>3, <1>4, <1>5, <1>9

\* A record joins the line it continues and leaves the others alone.
LEMMA LinesStay ==
  ASSUME LogInv, NEW r, Logged(r), NEW n, n = Len(log), NEW i \in Starts
  PROVE  /\ LineFrom(i) \in SUBSET (1 .. n)
         /\ LineFrom(i)' = IF Continues(r) /\ \A k \in Starts : k <= i
                             THEN LineFrom(i) \union {n + 1} ELSE LineFrom(i)
  <1>1. /\ n \in Nat /\ DOMAIN log = 1 .. n /\ DOMAIN log' = 1 .. n + 1
        /\ Starts \in SUBSET (1 .. n)
        /\ Starts' = IF Continues(r) THEN Starts ELSE Starts \union {n + 1}
    BY LogGrows
  <1>2. LineFrom(i) \in SUBSET (1 .. n)
    BY <1>1 DEF LineFrom
  <1>3. i \in 1 .. n
    BY <1>1
  <1>4. ASSUME NEW j \in 1 .. n
        PROVE  j \in LineFrom(i)' <=> j \in LineFrom(i)
    <2>1. \A k \in (i + 1) .. j : k # n + 1
      BY <1>1, <1>3
    <2>2. \A k \in (i + 1) .. j : k \in Starts' <=> k \in Starts
      BY <1>1, <2>1
    <2>3. j \in 1 .. n + 1
      BY <1>1
    <2>. QED
      BY <1>1, <2>2, <2>3 DEF LineFrom
  <1>5. n + 1 \in LineFrom(i)' <=> Continues(r) /\ \A k \in Starts : k <= i
    <2>1. n + 1 \in 1 .. n + 1 /\ i <= n + 1 /\ n + 1 \in (i + 1) .. (n + 1)
      BY <1>1, <1>3
    <2>2. n + 1 \in LineFrom(i)' <=> \A k \in (i + 1) .. (n + 1) : k \notin Starts'
      BY <1>1, <2>1 DEF LineFrom
    <2>3. CASE Continues(r)
      <3>1. Starts' = Starts /\ \A k \in Starts : k \in 1 .. n
        BY <1>1, <2>3
      <3>2. \A k \in 1 .. n : k \in (i + 1) .. (n + 1) <=> ~(k <= i)
        BY <1>1, <1>3
      <3>. QED
        BY <2>2, <2>3, <3>1, <3>2
    <2>4. CASE ~Continues(r)
      BY <1>1, <2>1, <2>2, <2>4
    <2>. QED
      BY <2>3, <2>4
  <1>6. LineFrom(i)' \in SUBSET (1 .. n + 1)
    BY <1>1 DEF LineFrom
  <1>7. LineFrom(i)' = IF n + 1 \in LineFrom(i)' THEN LineFrom(i) \union {n + 1}
                         ELSE LineFrom(i)
    BY <1>1, <1>2, <1>4, <1>6, SetGrows
  <1>. QED
    BY <1>2, <1>5, <1>7

LEMMA NewLineIsOne ==
  ASSUME LogInv, NEW r, Logged(r), ~Continues(r), NEW n, n = Len(log)
  PROVE  LineFrom(n + 1)' = {n + 1}
  <1>1. n \in Nat /\ DOMAIN log' = 1 .. n + 1
    BY LogGrows
  <1>2. \A j \in 1 .. n + 1 : n + 1 <= j => j = n + 1
    BY <1>1
  <1>3. (n + 1 + 1) .. (n + 1) = {} /\ n + 1 \in 1 .. n + 1 /\ n + 1 <= n + 1
    BY <1>1
  <1>. QED
    BY <1>1, <1>2, <1>3 DEF LineFrom

-----------------------------------------------------------------------------
(* The console.                                                             *)

\* The pieces of a line that are shown.
ShownFrom(i) == {j \in LineFrom(i) : log[j].piece # LineBreak}

\* The console shows the line that begins at i.
Shows(i) ==
  LET line == console.lines[Place(i, Starts)]
  IN line.of = log[i].of /\ Lists(line.text, ShownFrom(i), log)

LEMMA ConsoleShows ==
  ConsoleIsFaithful <=> Len(console.lines) = Cardinality(Starts) /\ \A i \in Starts : Shows(i)
  BY DEF ConsoleIsFaithful, Shows, ShownFrom, Lists, ListsPieces

LEMMA OldLineIsShown ==
  ASSUME LogInv, console.lines \in Seq(Lines), ConsoleIsFaithful, NEW r, Logged(r),
         NEW i \in Starts, ~(Continues(r) /\ \A k \in Starts : k <= i),
         console'.lines[Place(i, Starts)] = console.lines[Place(i, Starts)]
  PROVE  Shows(i)'
  <1>. DEFINE n == Len(log)
  <1>1. /\ n \in Nat /\ Starts \in SUBSET (1 .. n) /\ \A j \in 1 .. n : log'[j] = log[j]
        /\ Starts' = IF Continues(r) THEN Starts ELSE Starts \union {n + 1}
    BY LogGrows
  <1>2. LineFrom(i) \in SUBSET (1 .. n) /\ LineFrom(i)' = LineFrom(i)
    BY LinesStay
  <1>. HIDE DEF n
  <1>3. ShownFrom(i)' = ShownFrom(i)
    BY <1>1, <1>2 DEF ShownFrom
  <1>4. Place(i, Starts') = Place(i, Starts)
    BY <1>1, PlacesStay
  <1>5. Shows(i) /\ i \in 1 .. n
    BY <1>1, ConsoleShows
  <1>6. \A j \in ShownFrom(i) : log'[j] = log[j]
    BY <1>1, <1>2 DEF ShownFrom
  <1>. DEFINE line == console.lines[Place(i, Starts)]
  <1>7. line.of = log[i].of /\ Lists(line.text, ShownFrom(i), log)
    BY <1>5 DEF Shows
  <1>. HIDE DEF line
  <1>8. Lists(line.text, ShownFrom(i), log')
    BY <1>6, <1>7 DEF Lists
  <1>9. line.of = log'[i].of
    BY <1>1, <1>5, <1>7
  <1>. QED
    BY <1>3, <1>4, <1>8, <1>9 DEF Shows, line

\* A record that begins a line.
LEMMA NewLineIsFaithful ==
  ASSUME LogInv, console.lines \in Seq(Lines), ConsoleIsFaithful,
         NEW r, Logged(r), ~Continues(r),
         NEW line \in Lines, line.of = r.of,
         line.text = IF r.piece = LineBreak THEN <<>> ELSE <<r.piece>>,
         console'.lines = Append(console.lines, line)
  PROVE  ConsoleIsFaithful'
  <1>. DEFINE m == Len(console.lines)
  <1>0. PICK n : n = Len(log)
    OBVIOUS
  <1>1. /\ n \in Nat /\ Starts \in SUBSET (1 .. n) /\ log'[n + 1] = r
        /\ Starts' = Starts \union {n + 1}
    BY <1>0, LogGrows
  <1>2. /\ m \in Nat /\ m = Cardinality(Starts)
        /\ Len(console'.lines) = m + 1 /\ console'.lines[m + 1] = line
        /\ \A i \in 1 .. m : console'.lines[i] = console.lines[i]
    BY ConsoleShows, AppendProperties, LenProperties
  <1>3. LineFrom(n + 1)' = {n + 1}
    BY <1>0, NewLineIsOne
  <1>. HIDE DEF m
  <1>4. /\ Cardinality(Starts') = m + 1
        /\ Place(n + 1, Starts') = m + 1
    BY <1>1, <1>2, PlacesStay
  <1>5. ASSUME NEW i \in Starts
        PROVE  Shows(i)'
    <2>1. Place(i, Starts) \in 1 .. m
      BY <1>1, <1>2, PlacesAreCounted
    <2>. QED
      BY <1>2, <2>1, OldLineIsShown
  <1>6. Shows(n + 1)'
    <2>1. CASE r.piece = LineBreak
      <3>1. ShownFrom(n + 1)' = {}
        BY <1>1, <1>3, <2>1 DEF ShownFrom
      <3>. QED
        BY <1>1, <1>2, <1>4, <2>1, <3>1, ListsBegin DEF Shows
    <2>2. CASE r.piece # LineBreak
      <3>1. ShownFrom(n + 1)' = {n + 1}
        BY <1>1, <1>3, <2>2 DEF ShownFrom
      <3>2. Lists(line.text, {n + 1}, log')
        BY <1>1, <2>2, ListsBegin
      <3>. QED
        BY <1>1, <1>2, <1>4, <3>1, <3>2 DEF Shows
    <2>. QED
      BY <2>1, <2>2
  <1>7. \A i \in Starts' : Shows(i)'
    BY <1>1, <1>5, <1>6
  <1>8. Len(console'.lines) = Cardinality(Starts')
    BY <1>2, <1>4
  <1>. QED
    BY <1>7, <1>8
       DEF ConsoleIsFaithful, Shows, ShownFrom, Lists, ListsPieces

\* A piece that joins the last line.
LEMMA JoinedIsFaithful ==
  ASSUME LogInv, console.lines \in Seq(Lines), ConsoleIsFaithful,
         NEW r, Logged(r), Continues(r),
         console'.lines = Joined(console.lines, r.piece)
  PROVE  ConsoleIsFaithful'
  <1>. DEFINE m == Len(console.lines)
  <1>0. PICK n : n = Len(log)
    OBVIOUS
  <1>1. /\ n \in Nat /\ Starts \in SUBSET (1 .. n) /\ log'[n + 1] = r /\ r \in LogRecords
        /\ Starts' = Starts /\ \A j \in 1 .. n : log'[j] = log[j]
    BY <1>0, LogGrows DEF Logged
  <1>2. 1 \in Starts
    BY <1>0, <1>1 DEF Continues, Starts, LogInv
  <1>3. m \in Nat \ {0} /\ m = Cardinality(Starts) /\ console.lines # <<>>
    <2>1. m \in Nat /\ m = Cardinality(Starts)
      BY ConsoleShows, LenProperties
    <2>2. Place(1, Starts) \in 1 .. Cardinality(Starts)
      BY <1>1, <1>2, PlacesAreCounted
    <2>3. m # 0
      BY <2>1, <2>2
    <2>. QED
      BY <2>1, <2>3, EmptySeq
  <1>4. /\ Len(console'.lines) = m
        /\ \A i \in 1 .. m : i # m => console'.lines[i] = console.lines[i]
        /\ console'.lines[m].of = console.lines[m].of
        /\ console'.lines[m].text = IF r.piece = LineBreak THEN console.lines[m].text
                                    ELSE Append(console.lines[m].text, r.piece)
    BY <1>1, <1>3, JoinedIsLine DEF LogRecords
  <1>5. console.lines[m].text \in Seq(Pieces)
    <2>1. m \in 1 .. Len(console.lines)
      BY <1>3
    <2>2. console.lines[m] \in Lines
      BY <2>1, ElementOfSeq
    <2>. QED
      BY <2>2 DEF Lines
  <1>. HIDE DEF m
  <1>6. ASSUME NEW i \in Starts
        PROVE  Shows(i)'
    <2>1. Place(i, Starts) \in 1 .. m
      BY <1>1, <1>3, PlacesAreCounted
    <2>2. CASE \E k \in Starts : i < k
      <3>1. Place(i, Starts) < m
        BY <1>1, <1>3, <2>2, PlacesAreCounted
      <3>2. ~\A k \in Starts : k <= i
        BY <1>1, <2>2
      <3>. QED
        BY <1>3, <1>4, <2>1, <3>1, <3>2, OldLineIsShown
    <2>3. CASE ~\E k \in Starts : i < k
      <3>1. \A k \in Starts : k <= i
        BY <1>1, <2>3
      <3>2. Place(i, Starts) = m
        BY <1>1, <1>3, <3>1, PlacesAreCounted
      <3>3. LineFrom(i) \in SUBSET (1 .. n) /\ LineFrom(i)' = LineFrom(i) \union {n + 1}
        BY <1>0, <3>1, LinesStay
      <3>4. console.lines[m].of = log[i].of /\ Lists(console.lines[m].text, ShownFrom(i), log)
        BY <3>2, ConsoleShows DEF Shows
      <3>5. ShownFrom(i) \in SUBSET (1 .. n)
        BY <3>3 DEF ShownFrom
      <3>6. /\ Lists(console.lines[m].text, ShownFrom(i), log')
            /\ Lists(Append(console.lines[m].text, r.piece), ShownFrom(i) \union {n + 1}, log')
        BY <1>1, <1>5, <3>4, <3>5, ListsGrow DEF LogRecords
      <3>7. ShownFrom(i)' = IF r.piece = LineBreak THEN ShownFrom(i) ELSE ShownFrom(i) \union {n + 1}
        <4>1. ShownFrom(i)' = {j \in LineFrom(i) \union {n + 1} : log'[j].piece # LineBreak}
          BY <3>3 DEF ShownFrom
        <4>2. \A j \in LineFrom(i) : log'[j] = log[j]
          BY <1>1, <3>3
        <4>. QED
          BY <1>1, <4>1, <4>2 DEF ShownFrom
      <3>8. Lists(console'.lines[m].text, ShownFrom(i)', log')
        BY <1>4, <3>6, <3>7
      <3>9. console'.lines[m].of = log'[i].of
        BY <1>1, <1>4, <3>4
      <3>. QED
        BY <1>1, <3>2, <3>8, <3>9 DEF Shows
    <2>. QED
      BY <2>2, <2>3
  <1>. QED
    BY <1>1, <1>3, <1>4, <1>6
       DEF ConsoleIsFaithful, Shows, ShownFrom, Lists, ListsPieces

-----------------------------------------------------------------------------
(* The invariant.                                                           *)

LEMMA OpenContinues ==
  ASSUME SinksInv, LogInv, OpenInv, NEW r \in LogRecords
  PROVE  Continues(r) <=> console.open /\ console.key = r.of
  <1>1. log \in Seq(LogRecords) /\ (Len(log) = 0 <=> log = <<>>)
    BY EmptySeq DEF LogInv
  <1>. QED
    BY <1>1 DEF OpenInv, Continues

LEMMA LogStaysTyped ==
  ASSUME LogInv, NEW r, Logged(r), r.of = Event => r.piece = LineBreak
  PROVE  LogInv'
  <1>1. PICK n : n = Len(log)
    OBVIOUS
  <1>2. /\ n \in Nat /\ log' \in Seq(LogRecords) /\ Len(log') = n + 1
        /\ log'[n + 1] = r /\ \A j \in 1 .. n : log'[j] = log[j]
    BY <1>1, LogGrows
  <1>3. \A j \in 1 .. n + 1 : j \in 1 .. n \/ j = n + 1
    BY <1>2
  <1>. QED
    BY <1>1, <1>2, <1>3 DEF LogInv

\* After a record, when both sinks have it, a line is open for it or none is.
LEMMA OpenIsKept ==
  ASSUME LogInv, OpenInv, NEW r, Logged(r),
         console'.open <=> r.piece # LineBreak, activity'.open <=> r.piece # LineBreak,
         r.piece # LineBreak => console'.key = r.of, activity'.key = console'.key
  PROVE  OpenInv'
  <1>1. PICK n : n = Len(log)
    OBVIOUS
  <1>2. /\ n \in Nat /\ log' \in Seq(LogRecords) /\ Len(log') = n + 1 /\ log'[n + 1] = r
    BY <1>1, LogGrows
  <1>3. log' # <<>>
    BY <1>2, EmptySeq
  <1>. QED
    BY <1>2, <1>3 DEF OpenInv

LEMMA FirstTranscript ==
  ASSUME TranscriptInit
  PROVE  TranscriptInv
  <1>1. log = <<>> /\ activity = NoLines /\ console = NoLines /\ viewed = FALSE /\ scroll = 0
    BY DEF TranscriptInit
  <1>2. <<>> \in Seq(Lines) /\ <<>> \in Seq(LogRecords) /\ Len(<<>>) = 0 /\ DOMAIN <<>> = {}
    BY EmptySeq
  <1>3. SinksInv
    BY <1>1, <1>2 DEF SinksInv, Sinks, Sources, NoLines
  <1>4. LogInv
    BY <1>1, <1>2 DEF LogInv
  <1>5. OpenInv
    BY <1>1 DEF OpenInv, NoLines
  <1>6. Starts = {}
    BY <1>1, <1>2 DEF Starts
  <1>7. ConsoleIsFaithful
    BY <1>1, <1>2, <1>6, FS_EmptySet DEF ConsoleIsFaithful, NoLines
  <1>8. activity.lines = Kept(console.lines)
    <2>1. ~(0 > ActivityLimit)
      BY ScreenAssumption
    <2>. QED
      BY <1>1, <1>2, <2>1 DEF Kept, NoLines
  <1>. QED
    BY <1>3, <1>4, <1>5, <1>7, <1>8
       DEF TranscriptInv, ConsoleIsFaithful, TranscriptIsFaithful

LEMMA NoteKeepsTranscript ==
  ASSUME TranscriptInv, Note
  PROVE  TranscriptInv'
  <1>. DEFINE r == [of |-> Event, piece |-> LineBreak]
             line == NewLine(Event)
  <1>1. r \in LogRecords /\ Logged(r) /\ r.of = Event /\ r.piece = LineBreak
    BY DEF Note, Logged, LogRecords, Sources, Pieces
  <1>2. line \in Lines /\ line.of = Event /\ line.text = <<>>
    BY EmptySeq DEF NewLine, Lines, Sources
  <1>3. /\ activity' = [activity EXCEPT !.lines = Kept(Append(@, line)), !.open = FALSE]
        /\ console' = [console EXCEPT !.lines = Append(@, line), !.open = FALSE]
    BY DEF Note, Noted, Written
  <1>. HIDE DEF line, r
  <1>4. SinksInv /\ LogInv /\ OpenInv /\ ConsoleIsFaithful /\ activity.lines = Kept(console.lines)
    BY DEF TranscriptInv, ConsoleIsFaithful, TranscriptIsFaithful
  <1>5. console.lines \in Seq(Lines) /\ activity.lines \in Seq(Lines)
    BY <1>4 DEF SinksInv, Sinks
  <1>6. Append(console.lines, line) \in Seq(Lines) /\ Append(activity.lines, line) \in Seq(Lines)
    BY <1>2, <1>5, AppendProperties
  <1>7. Kept(Append(activity.lines, line)) \in Seq(Lines)
    BY <1>6, KeptCounts
  <1>8. /\ console'.lines = Append(console.lines, line) /\ ~console'.open
        /\ console'.key = console.key /\ console' \in Sinks
        /\ activity'.lines = Kept(Append(activity.lines, line)) /\ ~activity'.open
        /\ activity'.key = activity.key /\ activity' \in Sinks
    BY <1>3, <1>4, <1>6, <1>7 DEF SinksInv, Sinks
  <1>9. SinksInv'
    BY <1>4, <1>8 DEF Note, Scrolled, SinksInv
  <1>10. LogInv' /\ OpenInv'
    BY <1>1, <1>4, <1>8, LogStaysTyped, OpenIsKept DEF OpenInv
  <1>11. ~Continues(r)
    <2>1. log \in Seq(LogRecords) /\ Len(log) \in Nat
      BY <1>4, LenProperties DEF LogInv
    <2>. QED
      BY <1>1, <1>4, <2>1 DEF Continues, LogInv
  <1>12. ConsoleIsFaithful'
    BY <1>1, <1>2, <1>4, <1>5, <1>8, <1>11, NewLineIsFaithful
  <1>13. activity'.lines = Kept(console'.lines)
    BY <1>2, <1>4, <1>5, <1>8, KeptAppends
  <1>. QED
    BY <1>9, <1>10, <1>12, <1>13
       DEF TranscriptInv, ConsoleIsFaithful, TranscriptIsFaithful

\* The line that a record begins.
Begun(r) == [of |-> r.of, text |-> IF r.piece = LineBreak THEN <<>> ELSE <<r.piece>>]

LEMMA JoinedIsBegun ==
  ASSUME NEW s \in Seq(Lines), NEW r \in LogRecords
  PROVE  /\ Begun(r) \in Lines
         /\ Append(s, NewLine(r.of)) \in Seq(Lines) /\ Append(s, NewLine(r.of)) # <<>>
         /\ Joined(Append(s, NewLine(r.of)), r.piece) = Append(s, Begun(r))
  <1>. DEFINE a == Append(s, NewLine(r.of))
             u == Joined(a, r.piece)
             v == Append(s, Begun(r))
             n == Len(s)
  <1>1. r.piece \in Pieces /\ r.of \in Sources
    BY DEF LogRecords
  <1>2. <<>> \in Seq(Pieces) /\ <<r.piece>> \in Seq(Pieces) /\ Append(<<>>, r.piece) = <<r.piece>>
    BY <1>1
  <1>3. Begun(r) \in Lines
    BY <1>1, <1>2 DEF Begun, Lines
  <1>4. NewLine(r.of) \in Lines /\ NewLine(r.of).of = r.of /\ NewLine(r.of).text = <<>>
    BY <1>1, <1>2 DEF NewLine, Lines
  <1>5. /\ a \in Seq(Lines) /\ a # <<>> /\ n \in Nat /\ Len(a) = n + 1 /\ a[n + 1] = NewLine(r.of)
        /\ \A i \in 1 .. n : a[i] = s[i]
    BY <1>4, AppendProperties, LenProperties
  <1>6. /\ v \in Seq(Lines) /\ Len(v) = n + 1 /\ v[n + 1] = Begun(r)
        /\ \A i \in 1 .. n : v[i] = s[i]
    BY <1>3, AppendProperties
  <1>. HIDE DEF a, n, v
  <1>7. /\ u \in Seq(Lines) /\ Len(u) = Len(a)
        /\ \A i \in 1 .. Len(a) : i # Len(a) => u[i] = a[i]
        /\ u[Len(a)].of = a[Len(a)].of
        /\ u[Len(a)].text = IF r.piece = LineBreak THEN a[Len(a)].text
                            ELSE Append(a[Len(a)].text, r.piece)
    BY <1>1, <1>5, JoinedIsLine
  <1>. HIDE DEF u
  <1>8. u[n + 1] = Begun(r)
    <2>1. u[n + 1] \in Lines
      BY <1>5, <1>7, ElementOfSeq
    <2>2. u[n + 1].of = Begun(r).of /\ u[n + 1].text = Begun(r).text
      BY <1>2, <1>4, <1>5, <1>7 DEF Begun
    <2>. QED
      BY <1>3, <2>1, <2>2, SameLine
  <1>9. \A i \in 1 .. n + 1 : u[i] = v[i]
    <2>1. \A i \in 1 .. n + 1 : i = n + 1 \/ i \in 1 .. n
      BY <1>5
    <2>2. \A i \in 1 .. n : i \in 1 .. Len(a) /\ i # Len(a)
      BY <1>5
    <2>. QED
      BY <1>5, <1>6, <1>7, <1>8, <2>1, <2>2
  <1>10. u = v
    BY <1>5, <1>6, <1>7, <1>9, SeqEqual
  <1>. QED
    BY <1>3, <1>5, <1>10 DEF a, u, v

LEMMA LinesAreShown ==
  ASSUME LogInv, console.lines \in Seq(Lines), ConsoleIsFaithful, log # <<>>
  PROVE  console.lines # <<>>
  <1>. DEFINE n == Len(log)
  <1>1. n \in Nat \ {0} /\ DOMAIN log = 1 .. n
    BY EmptySeq, LenProperties DEF LogInv
  <1>2. Starts \in SUBSET (1 .. n) /\ 1 \in Starts
    BY <1>1 DEF Starts
  <1>. HIDE DEF n
  <1>3. Cardinality(Starts) \in Nat /\ Place(1, Starts) \in 1 .. Cardinality(Starts)
    BY <1>1, <1>2, PlacesAreCounted
  <1>4. Len(console.lines) # 0
    BY <1>3, ConsoleShows
  <1>. QED
    BY <1>4, EmptySeq

LEMMA SayKeepsTranscript ==
  ASSUME TranscriptInv,
         NEW stream \in Streams, NEW piece \in Pieces, Say(stream, piece)
  PROVE  TranscriptInv'
  <1>. DEFINE r == [of |-> stream, piece |-> piece]
             new == NewLine(stream)
             cl == console.lines
             al == activity.lines
  <1>1. r \in LogRecords /\ Logged(r) /\ r.of = stream /\ r.piece = piece /\ stream \in Sources
    BY DEF Say, Logged, LogRecords, Sources
  <1>2. /\ activity' = Said(activity, stream, piece)
        /\ console' = Printed(console, stream, piece)
    BY DEF Say
  <1>. HIDE DEF r
  <1>3. SinksInv /\ LogInv /\ OpenInv /\ ConsoleIsFaithful /\ al = Kept(cl)
    BY DEF TranscriptInv, ConsoleIsFaithful, TranscriptIsFaithful
  <1>4. cl \in Seq(Lines) /\ al \in Seq(Lines)
    BY <1>3 DEF SinksInv, Sinks
  <1>5. Continues(r) <=> console.open /\ console.key = stream
    BY <1>1, <1>3, OpenContinues
  <1>6. /\ Begun(r) \in Lines /\ Append(cl, new) \in Seq(Lines) /\ Append(cl, new) # <<>>
        /\ Joined(Append(cl, new), piece) = Append(cl, Begun(r))
        /\ new \in Lines
    BY <1>1, <1>4, JoinedIsBegun, EmptySeq DEF NewLine, Lines
  <1>7. ConsoleIsFaithful' /\ activity'.lines = Kept(console'.lines) /\ console'.lines \in Seq(Lines)
    <2>1. CASE Continues(r)
      <3>1. log # <<>>
        BY <2>1, EmptySeq DEF Continues
      <3>2. cl # <<>>
        BY <1>3, <1>4, <3>1, LinesAreShown
      <3>3. al # <<>> /\ Joined(al, piece) = Kept(Joined(cl, piece))
        BY <1>3, <1>4, <3>2, KeptJoins
      <3>4. ~Begins(activity, stream)
        BY <1>3, <1>5, <2>1, <3>3 DEF Begins, OpenInv
      <3>5. console'.lines = Joined(cl, piece) /\ activity'.lines = Joined(al, piece)
        BY <1>2, <1>5, <2>1, <3>4 DEF Said, Printed
      <3>6. Joined(cl, piece) \in Seq(Lines)
        BY <1>4, <3>2, JoinedIsLine
      <3>7. ConsoleIsFaithful'
        BY <1>1, <1>3, <1>4, <2>1, <3>5, JoinedIsFaithful
      <3>. QED
        BY <3>3, <3>5, <3>6, <3>7
    <2>2. CASE ~Continues(r)
      <3>1. Begins(activity, stream)
        BY <1>3, <1>5, <2>2 DEF Begins, OpenInv
      <3>2. console'.lines = Joined(Append(cl, new), piece)
        BY <1>2, <1>5, <2>2 DEF Printed
      <3>3. activity'.lines = Joined(Kept(Append(al, new)), piece)
        BY <1>2, <3>1 DEF Said
      <3>4. Kept(Append(al, new)) = Kept(Append(cl, new))
        BY <1>3, <1>4, <1>6, KeptAppends
      <3>5. activity'.lines = Kept(console'.lines)
        BY <1>6, <3>2, <3>3, <3>4, KeptJoins
      <3>6. Begun(r).of = r.of /\ Begun(r).text = IF r.piece = LineBreak THEN <<>> ELSE <<r.piece>>
        BY DEF Begun
      <3>7. ConsoleIsFaithful'
        BY <1>1, <1>3, <1>4, <1>6, <2>2, <3>2, <3>6, NewLineIsFaithful
      <3>8. console'.lines \in Seq(Lines)
        BY <1>4, <1>6, <3>2, AppendProperties
      <3>. QED
        BY <3>5, <3>7, <3>8
    <2>. QED
      BY <2>1, <2>2
  <1>. DEFINE ends == piece # LineBreak
  <1>8. /\ activity' = [lines |-> activity'.lines, open |-> ends, key |-> stream]
        /\ console' = [lines |-> console'.lines, open |-> ends, key |-> stream]
        /\ ends \in BOOLEAN
    BY <1>2 DEF Said, Printed
  <1>. HIDE DEF ends
  <1>9. activity'.lines \in Seq(Lines)
    BY <1>7, KeptCounts
  <1>10. activity' \in Sinks /\ console' \in Sinks
    BY <1>1, <1>7, <1>8, <1>9 DEF Sinks
  <1>11. SinksInv'
    BY <1>3, <1>10 DEF Say, Scrolled, SinksInv
  <1>12. LogInv' /\ OpenInv'
    <2>1. r.of # Event
      BY <1>1, TranscriptAssumption
    <2>2. console'.open = ends /\ activity'.open = ends /\ console'.key = r.of /\ activity'.key = r.of
      BY <1>1, <1>8
    <2>3. (console'.open <=> r.piece # LineBreak) /\ (activity'.open <=> r.piece # LineBreak)
      BY <1>1, <2>2 DEF ends
    <2>. QED
      BY <1>1, <1>3, <2>1, <2>2, <2>3, LogStaysTyped, OpenIsKept
  <1>. QED
    BY <1>7, <1>11, <1>12
       DEF TranscriptInv, ConsoleIsFaithful, TranscriptIsFaithful

\* What touches the view alone.
LEMMA ViewKeepsTranscript ==
  ASSUME TranscriptInv, UNCHANGED <<activity, console, log>>, scroll' \in Nat, viewed' \in BOOLEAN
  PROVE  TranscriptInv'
  <1>1. SinksInv' /\ LogInv' /\ OpenInv'
    BY DEF TranscriptInv, SinksInv, LogInv, OpenInv
  <1>2. Starts' = Starts
    BY DEF Starts
  <1>3. \A i : LineFrom(i)' = LineFrom(i)
    BY <1>2 DEF LineFrom
  <1>4. TranscriptIsFaithful'
    BY <1>2, <1>3 DEF TranscriptInv, TranscriptIsFaithful, ListsPieces
  <1>. QED
    BY <1>1, <1>4 DEF TranscriptInv

LEMMA RowsIsNat ==
  ASSUME SinksInv
  PROVE  Rows \in Nat
  <1>. DEFINE D == DOMAIN activity.lines
             H(i) == LargerOf(1, Len(activity.lines[i].text))
             F == {{i} \X (1 .. H(i)) : i \in D}
  <1>1. activity.lines \in Seq(Lines)
    BY DEF SinksInv, Sinks
  <1>2. PICK n \in Nat : D = 1 .. n
    BY <1>1, LenProperties
  <1>3. IsFiniteSet(D)
    BY <1>2, FS_Interval
  <1>4. ASSUME NEW i \in D
        PROVE  IsFiniteSet({i} \X (1 .. H(i)))
    <2>1. activity.lines[i].text \in Seq(Pieces)
      <3>1. i \in 1 .. Len(activity.lines)
        BY <1>1, LenProperties
      <3>2. activity.lines[i] \in Lines
        BY <1>1, <3>1, ElementOfSeq
      <3>. QED
        BY <3>2 DEF Lines
    <2>2. H(i) \in Nat
      BY <2>1, LenProperties DEF LargerOf
    <2>. HIDE DEF H
    <2>3. IsFiniteSet(1 .. H(i))
      BY <2>2, FS_Interval
    <2>4. IsFiniteSet({i})
      BY FS_Singleton
    <2>. QED
      BY <2>3, <2>4, FS_Product
  <1>. HIDE DEF D, H
  <1>5. IsFiniteSet(F)
    <2>. DEFINE f == [i \in D |-> {i} \X (1 .. H(i))]
    <2>1. f \in Surjection(D, F)
      BY DEF Surjection
    <2>. QED
      BY <1>3, <2>1, FS_Surjection
  <1>6. IsFiniteSet(UNION F)
    BY <1>4, <1>5, FS_UNION
  <1>7. Cardinality(UNION F) \in Nat
    BY <1>6, FS_CardinalityType
  <1>. QED
    BY <1>7 DEF Rows, D, H

LEMMA TranscriptInvHolds ==
  TranscriptSpec => []TranscriptInv
  <1>1. TranscriptInit => TranscriptInv
    BY FirstTranscript
  <1>2. TranscriptInv /\ [TranscriptNext]_(transcriptVars) => TranscriptInv'
    <2>. SUFFICES ASSUME TranscriptInv, [TranscriptNext]_(transcriptVars)
                  PROVE  TranscriptInv'
      OBVIOUS
    <2>1. CASE Note
      BY <2>1, NoteKeepsTranscript
    <2>2. ASSUME NEW stream \in Streams, NEW piece \in {Len(log) + 1, LineBreak}, Say(stream, piece)
          PROVE  TranscriptInv'
      <3>1. Len(log) \in Nat
        BY LenProperties DEF TranscriptInv, LogInv
      <3>2. piece \in Pieces
        BY <3>1 DEF Pieces
      <3>. QED
        BY <2>2, <3>2, SayKeepsTranscript
    <2>3. ASSUME NEW body \in Bodies, Render(body)
          PROVE  TranscriptInv'
      <3>1. Rows \in Nat /\ scroll \in Nat /\ viewed \in BOOLEAN
        BY RowsIsNat DEF TranscriptInv, SinksInv
      <3>2. body \in Nat
        BY TranscriptAssumption
      <3>3. scroll' \in Nat /\ viewed' \in BOOLEAN /\ UNCHANGED <<activity, console, log>>
        BY <2>3, <3>1, <3>2 DEF Render, ActivityScroll, SmallerOf, LargerOf
      <3>. QED
        BY <3>3, ViewKeepsTranscript
    <2>4. ASSUME NEW key \in {"up", "down", "g", "G", "view"}, PressInActivity(key)
          PROVE  TranscriptInv'
      <3>1. scroll \in Nat /\ viewed \in BOOLEAN /\ Far \in Nat
        BY ScreenAssumption DEF TranscriptInv, SinksInv
      <3>2. scroll' \in Nat
        <4>1. CASE key = "up"
          BY <2>4, <3>1, <4>1 DEF PressInActivity
        <4>2. CASE key = "down"
          BY <2>4, <3>1, <4>2 DEF PressInActivity, LargerOf
        <4>3. CASE key = "g"
          BY <2>4, <3>1, <4>3 DEF PressInActivity
        <4>4. CASE key = "G"
          BY <2>4, <3>1, <4>4 DEF PressInActivity
        <4>5. CASE key = "view"
          BY <2>4, <3>1, <4>5 DEF PressInActivity
        <4>. QED
          BY <4>1, <4>2, <4>3, <4>4, <4>5
      <3>3. viewed' \in BOOLEAN
        BY <2>4, <3>1 DEF PressInActivity
      <3>. QED
        BY <2>4, <3>2, <3>3, ViewKeepsTranscript DEF PressInActivity
    <2>5. CASE UNCHANGED transcriptVars
      <3>1. scroll \in Nat /\ viewed \in BOOLEAN /\ UNCHANGED <<activity, console, log, scroll, viewed>>
        BY <2>5 DEF TranscriptInv, SinksInv, transcriptVars
      <3>. QED
        BY <3>1, ViewKeepsTranscript
    <2>. QED
      BY <2>1, <2>2, <2>3, <2>4, <2>5 DEF TranscriptNext
  <1>. QED
    BY <1>1, <1>2, PTL DEF TranscriptSpec

\* Both sinks show the lines of the log, each with the words of one stream in
\* their order, however the streams and the events alternate and wherever the
\* fragments end; the dashboard shows the newest (dashboard.go:118-133,
\* console.go:45-79).
THEOREM EveryTranscriptIsFaithful ==
  TranscriptSpec => []TranscriptIsFaithful
  <1>1. TranscriptInv => TranscriptIsFaithful
    BY DEF TranscriptInv
  <1>. QED
    BY <1>1, TranscriptInvHolds, PTL

\* The activity ends with its newest row unless the view was scrolled, and leaves
\* no row empty that it could fill, at any height and from any position
\* (dashboard.go:353-364).
THEOREM ActivityAlwaysFills ==
  TranscriptSpec => []ActivityFills
  <1>1. TranscriptInv => ActivityFills
    <2>. SUFFICES ASSUME TranscriptInv, NEW body \in Bodies
                  PROVE  LET w == ActivityWindow(body)
                         IN /\ w.last - w.first + 1 = SmallerOf(body, Rows)
                            /\ scroll = 0 => w.last = Rows
      BY DEF ActivityFills
    <2>1. Rows \in Nat /\ scroll \in Nat /\ body \in Nat
      BY RowsIsNat, TranscriptAssumption DEF TranscriptInv, SinksInv
    <2>. QED
      BY <2>1 DEF ActivityWindow, ActivityScroll, SmallerOf, LargerOf
  <1>. QED
    BY <1>1, TranscriptInvHolds, PTL

-----------------------------------------------------------------------------
(* The keys: KeyDecoder, for keys and pastes without a bound.               *)

\* The bytes a terminal sends are those of tokens: keys, the beginning and the
\* end of a paste, and its characters.
KeyTokens == {"q", "esc", "up", "pgup", "down"}
Tokens    == KeyTokens \union {"start", "stop", "text"}

Size(t) ==
  CASE t \in {"q", "esc", "text"} -> 1
    [] t \in {"up", "down"} -> 3
    [] t = "pgup" -> 4
    [] t \in {"start", "stop"} -> 6

\* The token t has its bytes at i.
Content(r, i, t) ==
  /\ t = "q" => r[i] = "q"
  /\ t = "text" => r[i] # "ESC"
  /\ t \notin {"q", "text"} => r[i] = "ESC"
  /\ t = "up" => r[i + 1] = "[" /\ r[i + 2] = "A"
  /\ t = "down" => r[i + 1] = "O" /\ r[i + 2] = "B"
  /\ t = "pgup" => r[i + 1] = "[" /\ r[i + 2] = "5" /\ r[i + 3] = "~"
  /\ t \in {"start", "stop"} => r[i + 1] = "[" /\ r[i + 2] = "2" /\ r[i + 3] = "0" /\ r[i + 5] = "~"
  /\ t = "start" => r[i + 4] = "0"
  /\ t = "stop" => r[i + 4] = "1"

\* What the token does to an open paste, from p to q, and to the number of keys
\* that are decoded, from c to d.
Moves(t, p, q, c, d, w) ==
  /\ t \in KeyTokens => p = FALSE /\ q = FALSE /\ d = c + 1 /\ d \in 1 .. Len(w) /\ w[d] = t
  /\ t = "start" => p = FALSE /\ q = TRUE /\ d = c
  /\ t = "stop" => p = TRUE /\ q = FALSE /\ d = c
  /\ t = "text" => p = TRUE /\ q = TRUE /\ d = c

\* The bytes r are tokens: tok says where each begins, ins and cnt what holds
\* there.  They lead from p and c to q and d, their keys are those of w.
Right(r, w, tok, ins, cnt, i) ==
  LET j == i + Size(tok[i])
  IN /\ tok[i] \in Tokens /\ j <= Len(r) + 1 /\ tok[j] # "none"
     /\ Content(r, i, tok[i]) /\ Moves(tok[i], ins[i], ins[j], cnt[i], cnt[j], w)

Decodes(r, w, p, c, q, d, tok, ins, cnt) ==
  /\ tok[1] # "none" /\ ins[1] = p /\ cnt[1] = c
  /\ tok[Len(r) + 1] = "over" /\ ins[Len(r) + 1] = q /\ cnt[Len(r) + 1] = d
  /\ \A i \in 1 .. Len(r) : tok[i] = "none" \/ Right(r, w, tok, ins, cnt, i)

CanDecode(r, w, p, c, q, d) == \E tok, ins, cnt : Decodes(r, w, p, c, q, d, tok, ins, cnt)

\* The bytes of the terminal, and the keys.
Symbols == {"ESC", "[", "O", "A", "B", "0", "1", "2", "5", "~"} \union KeyTokens

Bytes == Seq(Symbols)

LEMMA BytesJoin ==
  /\ \A a, b \in Bytes : a \o b \in Bytes
  /\ \A a, b, c \in Bytes : (a \o b) \o c = a \o (b \o c)
  <1>1. \A a, b \in Bytes : a \o b \in Bytes
    BY ConcatProperties DEF Bytes
  <1>2. \A a, b, c \in Bytes : (a \o b) \o c = a \o (b \o c)
    BY ConcatAssociative DEF Bytes
  <1>. QED
    BY <1>1, <1>2

-----------------------------------------------------------------------------
(* Tokens.                                                                  *)

LEMMA SizesAreSmall == \A t \in Tokens : Size(t) \in 1 .. 6
  BY DEF Tokens, KeyTokens, Size

LEMMA SizeIs ==
  /\ Size("q") = 1 /\ Size("esc") = 1 /\ Size("text") = 1 /\ Size("up") = 3 /\ Size("down") = 3
  /\ Size("pgup") = 4 /\ Size("start") = 6 /\ Size("stop") = 6
  BY DEF Size

LEMMA NothingDecodes ==
  ASSUME NEW w, NEW p, NEW c
  PROVE  CanDecode(<<>>, w, p, c, p, c)
  <1>. DEFINE tok == [i \in {1} |-> "over"]
             ins == [i \in {1} |-> p]
             cnt == [i \in {1} |-> c]
  <1>1. Len(<<>>) + 1 = 1 /\ 1 .. Len(<<>>) = {}
    OBVIOUS
  <1>2. Decodes(<<>>, w, p, c, p, c, tok, ins, cnt)
    BY <1>1 DEF Decodes
  <1>. QED
    BY <1>2 DEF CanDecode

LEMMA NothingIsDecoded ==
  ASSUME NEW w, NEW p, NEW c, NEW q, NEW d, CanDecode(<<>>, w, p, c, q, d)
  PROVE  p = q /\ c = d
  BY Len(<<>>) + 1 = 1 DEF CanDecode, Decodes

\* The same bytes elsewhere.
LEMMA ContentMoves ==
  ASSUME NEW r, NEW s, NEW i \in Int, NEW j \in Int, NEW t \in Tokens, Content(r, i, t),
         \A k \in 0 .. Size(t) - 1 : s[j + k] = r[i + k]
  PROVE  Content(s, j, t)
  <1>1. \A k \in 0 .. 5 : k < Size(t) => s[j + k] = r[i + k]
    BY SizesAreSmall
  <1>2. s[j] = r[i]
    BY <1>1, SizesAreSmall
  <1>3. t # "q" /\ t # "esc" /\ t # "text" => s[j + 1] = r[i + 1] /\ s[j + 2] = r[i + 2]
    BY <1>1, SizeIs DEF Tokens, KeyTokens
  <1>4. t \in {"pgup", "start", "stop"} => s[j + 3] = r[i + 3]
    BY <1>1, SizeIs
  <1>5. t \in {"start", "stop"} => s[j + 4] = r[i + 4] /\ s[j + 5] = r[i + 5]
    BY <1>1, SizeIs
  <1>. QED
    BY <1>2, <1>3, <1>4, <1>5 DEF Content

LEMMA TokenDecodes ==
  ASSUME NEW t \in Tokens, NEW r \in Bytes, Len(r) = Size(t), Content(r, 1, t),
         NEW w, NEW p, NEW q, NEW c, NEW d, Moves(t, p, q, c, d, w)
  PROVE  CanDecode(r, w, p, c, q, d)
  <1>. DEFINE n == Len(r)
             tok == [i \in 1 .. n + 1 |-> IF i = 1 THEN t ELSE IF i = n + 1 THEN "over" ELSE "none"]
             ins == [i \in 1 .. n + 1 |-> IF i = 1 THEN p ELSE q]
             cnt == [i \in 1 .. n + 1 |-> IF i = 1 THEN c ELSE d]
  <1>1. n \in 1 .. 6 /\ Size(t) = n /\ t # "none"
    BY SizesAreSmall DEF Tokens, KeyTokens
  <1>. HIDE DEF n
  <1>2. /\ tok[1] = t /\ tok[n + 1] = "over" /\ ins[1] = p /\ ins[n + 1] = q /\ cnt[1] = c
        /\ cnt[n + 1] = d /\ \A i \in 1 .. n : i # 1 => tok[i] = "none"
    BY <1>1
  <1>. HIDE DEF tok, ins, cnt
  <1>3. Right(r, w, tok, ins, cnt, 1)
    <2>1. 1 + Size(tok[1]) = n + 1
      BY <1>1, <1>2
    <2>. QED
      BY <1>1, <1>2, <2>1 DEF Right, n
  <1>4. Decodes(r, w, p, c, q, d, tok, ins, cnt)
    BY <1>1, <1>2, <1>3 DEF Decodes, n
  <1>. QED
    BY <1>4 DEF CanDecode

LEMMA TextDecodes ==
  ASSUME NEW r \in Bytes, \A i \in 1 .. Len(r) : r[i] # "ESC", NEW w, NEW c
  PROVE  CanDecode(r, w, TRUE, c, TRUE, c)
  <1>. DEFINE n == Len(r)
             tok == [i \in 1 .. n + 1 |-> IF i = n + 1 THEN "over" ELSE "text"]
             ins == [i \in 1 .. n + 1 |-> TRUE]
             cnt == [i \in 1 .. n + 1 |-> c]
  <1>1. n \in Nat
    BY LenProperties DEF Bytes
  <1>. HIDE DEF n
  <1>2. /\ tok[n + 1] = "over" /\ \A i \in 1 .. n : tok[i] = "text"
        /\ \A i \in 1 .. n + 1 : tok[i] # "none" /\ ins[i] = TRUE /\ cnt[i] = c
    BY <1>1
  <1>. HIDE DEF tok, ins, cnt
  <1>3. ASSUME NEW i \in 1 .. n
        PROVE  Right(r, w, tok, ins, cnt, i)
    <2>1. /\ tok[i] = "text" /\ i + Size(tok[i]) = i + 1 /\ i + 1 \in 1 .. n + 1 /\ i \in 1 .. n + 1
      BY <1>1, <1>2, SizeIs
    <2>2. Content(r, i, "text")
      BY DEF Content, n
    <2>3. Moves("text", ins[i], ins[i + 1], cnt[i], cnt[i + 1], w)
      BY <1>2, <2>1 DEF Moves, KeyTokens
    <2>. QED
      BY <1>1, <1>2, <2>1, <2>2, <2>3 DEF Right, Tokens, n
  <1>4. Decodes(r, w, TRUE, c, TRUE, c, tok, ins, cnt)
    BY <1>1, <1>2, <1>3 DEF Decodes, n
  <1>. QED
    BY <1>4 DEF CanDecode

LEMMA MovesStay ==
  ASSUME NEW t, NEW p, NEW q, NEW c, NEW d, NEW w \in Bytes, NEW k \in Symbols,
         Moves(t, p, q, c, d, w)
  PROVE  Moves(t, p, q, c, d, Append(w, k))
  <1>1. /\ Len(w) \in Nat /\ Len(Append(w, k)) = Len(w) + 1
        /\ \A i \in 1 .. Len(w) : Append(w, k)[i] = w[i]
    BY AppendProperties, LenProperties DEF Bytes
  <1>2. d \in 1 .. Len(w) => d \in 1 .. Len(w) + 1
    BY <1>1
  <1>. QED
    BY <1>1, <1>2 DEF Moves

LEMMA MeantGrows ==
  ASSUME NEW r, NEW p, NEW q, NEW c, NEW d, NEW w \in Bytes, NEW k \in Symbols,
         CanDecode(r, w, p, c, q, d)
  PROVE  CanDecode(r, Append(w, k), p, c, q, d)
  <1>1. PICK tok, ins, cnt : Decodes(r, w, p, c, q, d, tok, ins, cnt)
    BY DEF CanDecode
  <1>2. \A i : Right(r, w, tok, ins, cnt, i) => Right(r, Append(w, k), tok, ins, cnt, i)
    BY MovesStay DEF Right
  <1>3. Decodes(r, Append(w, k), p, c, q, d, tok, ins, cnt)
    BY <1>1, <1>2 DEF Decodes
  <1>. QED
    BY <1>3 DEF CanDecode

LEMMA JoinedDecodes ==
  ASSUME NEW r \in Bytes, NEW s \in Bytes, NEW w, NEW p, NEW c, NEW q, NEW d, NEW o, NEW e,
         CanDecode(r, w, p, c, q, d), CanDecode(s, w, q, d, o, e)
  PROVE  CanDecode(r \o s, w, p, c, o, e)
  <1>1. PICK tok1, ins1, cnt1 : Decodes(r, w, p, c, q, d, tok1, ins1, cnt1)
    BY DEF CanDecode
  <1>2. PICK tok2, ins2, cnt2 : Decodes(s, w, q, d, o, e, tok2, ins2, cnt2)
    BY DEF CanDecode
  <1>. DEFINE n == Len(r)
             m == Len(s)
             a == r \o s
             tok == [i \in 1 .. n + m + 1 |-> IF i <= n THEN tok1[i] ELSE tok2[i - n]]
             ins == [i \in 1 .. n + m + 1 |-> IF i <= n THEN ins1[i] ELSE ins2[i - n]]
             cnt == [i \in 1 .. n + m + 1 |-> IF i <= n THEN cnt1[i] ELSE cnt2[i - n]]
  <1>3. n \in Nat /\ m \in Nat
    BY LenProperties DEF Bytes
  <1>4. /\ Len(a) = n + m /\ \A i \in 1 .. n : a[i] = r[i]
        /\ \A i \in 1 .. m : a[n + i] = s[i]
    <2>1. /\ Len(a) = n + m
          /\ \A i \in 1 .. n + m : a[i] = IF i <= n THEN r[i] ELSE s[i - n]
      BY ConcatProperties DEF Bytes
    <2>. HIDE DEF n, m, a
    <2>2. ASSUME NEW i \in 1 .. m
          PROVE  a[n + i] = s[i]
      <3>1. n + i \in 1 .. n + m /\ ~(n + i <= n) /\ n + i - n = i
        BY <1>3
      <3>. QED
        BY <1>3, <2>1, <3>1
    <2>3. ASSUME NEW i \in 1 .. n
          PROVE  a[i] = r[i]
      <3>1. i \in 1 .. n + m /\ i <= n
        BY <1>3
      <3>. QED
        BY <2>1, <3>1
    <2>. QED
      BY <2>1, <2>2, <2>3
  <1>5. /\ tok1[1] # "none" /\ ins1[1] = p /\ cnt1[1] = c
        /\ tok1[n + 1] = "over" /\ ins1[n + 1] = q /\ cnt1[n + 1] = d
        /\ \A i \in 1 .. n : tok1[i] = "none" \/ Right(r, w, tok1, ins1, cnt1, i)
    BY <1>1 DEF Decodes
  <1>6. /\ tok2[1] # "none" /\ ins2[1] = q /\ cnt2[1] = d
        /\ tok2[m + 1] = "over" /\ ins2[m + 1] = o /\ cnt2[m + 1] = e
        /\ \A i \in 1 .. m : tok2[i] = "none" \/ Right(s, w, tok2, ins2, cnt2, i)
    BY <1>2 DEF Decodes
  <1>. HIDE DEF n, m, a
  <1>7. \A i \in 1 .. n : tok[i] = tok1[i] /\ ins[i] = ins1[i] /\ cnt[i] = cnt1[i]
    BY <1>3
  <1>8. \A i \in 1 .. m + 1 : tok[n + i] = tok2[i] /\ ins[n + i] = ins2[i] /\ cnt[n + i] = cnt2[i]
    BY <1>3
  <1>9. ins[n + 1] = ins1[n + 1] /\ cnt[n + 1] = cnt1[n + 1] /\ tok[n + 1] # "none"
    BY <1>3, <1>5, <1>6, <1>8
  <1>. HIDE DEF tok, ins, cnt
  <1>10. ASSUME NEW i \in 1 .. n, tok[i] # "none"
         PROVE  Right(a, w, tok, ins, cnt, i)
    <2>. DEFINE t == tok1[i]
               j == i + Size(t)
    <2>1. /\ tok[i] = t /\ ins[i] = ins1[i] /\ cnt[i] = cnt1[i]
          /\ t \in Tokens /\ j <= n + 1 /\ tok1[j] # "none"
          /\ Content(r, i, t) /\ Moves(t, ins1[i], ins1[j], cnt1[i], cnt1[j], w)
      BY <1>5, <1>7, <1>10 DEF Right, n
    <2>. HIDE DEF t
    <2>2. Size(t) \in 1 .. 6 /\ i \in Int
      BY <2>1, SizesAreSmall
    <2>3. \A k \in 0 .. Size(t) - 1 : a[i + k] = r[i + k]
      BY <1>3, <1>4, <2>1, <2>2
    <2>4. Content(a, i, t)
      BY <2>1, <2>2, <2>3, ContentMoves
    <2>5. tok[j] # "none" /\ ins[j] = ins1[j] /\ cnt[j] = cnt1[j] /\ j <= n + m + 1
      <3>1. j \in 1 .. n \/ j = n + 1
        BY <1>3, <2>1, <2>2
      <3>2. j <= n + m + 1
        BY <1>3, <2>1, <2>2
      <3>. QED
        BY <1>7, <1>9, <2>1, <3>1, <3>2
    <2>. QED
      BY <1>4, <2>1, <2>4, <2>5 DEF Right
  <1>11. ASSUME NEW i \in 1 .. m, tok[n + i] # "none"
         PROVE  Right(a, w, tok, ins, cnt, n + i)
    <2>. DEFINE t == tok2[i]
               j == i + Size(t)
    <2>0. i \in 1 .. m + 1
      BY <1>3
    <2>1. /\ tok[n + i] = t /\ ins[n + i] = ins2[i] /\ cnt[n + i] = cnt2[i]
          /\ t \in Tokens /\ j <= m + 1 /\ tok2[j] # "none"
          /\ Content(s, i, t) /\ Moves(t, ins2[i], ins2[j], cnt2[i], cnt2[j], w)
      BY <1>6, <1>8, <1>11, <2>0 DEF Right, m
    <2>. HIDE DEF t
    <2>2. Size(t) \in 1 .. 6 /\ i \in Int /\ n + i \in Int
      BY <1>3, <2>1, SizesAreSmall
    <2>3. \A k \in 0 .. Size(t) - 1 : a[n + i + k] = s[i + k]
      <3>. SUFFICES ASSUME NEW k \in 0 .. Size(t) - 1
                    PROVE  a[n + i + k] = s[i + k]
        OBVIOUS
      <3>1. i + k \in 1 .. m /\ n + (i + k) = n + i + k
        BY <1>3, <2>1, <2>2
      <3>. QED
        BY <1>4, <3>1
    <2>4. Content(a, n + i, t)
      BY <2>1, <2>2, <2>3, ContentMoves
    <2>5. j \in 1 .. m + 1 /\ n + j = n + i + Size(t) /\ n + j <= n + m + 1
      BY <1>3, <2>1, <2>2
    <2>6. tok[n + j] # "none" /\ ins[n + j] = ins2[j] /\ cnt[n + j] = cnt2[j]
      BY <1>8, <2>1, <2>5
    <2>. QED
      BY <1>4, <2>1, <2>4, <2>5, <2>6 DEF Right
  <1>12. ASSUME NEW i \in 1 .. n + m
         PROVE  tok[i] = "none" \/ Right(a, w, tok, ins, cnt, i)
    <2>1. CASE i <= n
      BY <1>3, <1>10, <2>1
    <2>2. CASE ~(i <= n)
      <3>1. i - n \in 1 .. m /\ n + (i - n) = i
        BY <1>3, <2>2
      <3>. QED
        BY <1>11, <3>1
    <2>. QED
      BY <2>1, <2>2
  <1>13. /\ tok[1] # "none" /\ ins[1] = p /\ cnt[1] = c
    <2>1. CASE n = 0
      BY <1>5, <1>6, <1>8, <1>9, <2>1
    <2>2. CASE n # 0
      BY <1>3, <1>5, <1>7, <2>2
    <2>. QED
      BY <2>1, <2>2
  <1>14. tok[n + m + 1] = "over" /\ ins[n + m + 1] = o /\ cnt[n + m + 1] = e
    <2>1. m + 1 \in 1 .. m + 1 /\ n + (m + 1) = n + m + 1
      BY <1>3
    <2>. QED
      BY <1>6, <1>8, <2>1
  <1>15. Decodes(a, w, p, c, o, e, tok, ins, cnt)
    BY <1>4, <1>12, <1>13, <1>14 DEF Decodes
  <1>. QED
    BY <1>15 DEF CanDecode, a

\* The first token and the rest.
LEMMA FirstDecodes ==
  ASSUME NEW r \in Bytes, r # <<>>, NEW w, NEW p, NEW c, NEW q, NEW d, CanDecode(r, w, p, c, q, d)
  PROVE  \E t \in Tokens : \E o, e :
           /\ Size(t) <= Len(r) /\ Content(r, 1, t) /\ Moves(t, p, o, c, e, w)
           /\ \A s \in Bytes : Len(s) = Len(r) - Size(t) /\ (\A i \in 1 .. Len(s) : s[i] = r[i + Size(t)])
                => CanDecode(s, w, o, e, q, d)
  <1>1. PICK tok1, ins1, cnt1 : Decodes(r, w, p, c, q, d, tok1, ins1, cnt1)
    BY DEF CanDecode
  <1>. DEFINE n == Len(r)
             t == tok1[1]
             z == Size(t)
             o == ins1[1 + z]
             e == cnt1[1 + z]
  <1>2. n \in Nat \ {0}
    BY EmptySeq DEF Bytes
  <1>3. /\ tok1[1] # "none" /\ ins1[1] = p /\ cnt1[1] = c
        /\ tok1[n + 1] = "over" /\ ins1[n + 1] = q /\ cnt1[n + 1] = d
        /\ \A i \in 1 .. n : tok1[i] = "none" \/ Right(r, w, tok1, ins1, cnt1, i)
    BY <1>1 DEF Decodes
  <1>. HIDE DEF n
  <1>4. Right(r, w, tok1, ins1, cnt1, 1)
    BY <1>2, <1>3
  <1>5. /\ t \in Tokens /\ 1 + z <= n + 1 /\ tok1[1 + z] # "none"
        /\ Content(r, 1, t) /\ Moves(t, p, o, c, e, w)
    BY <1>3, <1>4 DEF Right, n
  <1>6. z \in 1 .. 6
    BY <1>5, SizesAreSmall
  <1>. HIDE DEF t, z, o, e
  <1>7. ASSUME NEW s \in Bytes, Len(s) = n - z, \A i \in 1 .. Len(s) : s[i] = r[i + z]
        PROVE  CanDecode(s, w, o, e, q, d)
    <2>. DEFINE m == n - z
               tok == [i \in 1 .. m + 1 |-> tok1[i + z]]
               ins == [i \in 1 .. m + 1 |-> ins1[i + z]]
               cnt == [i \in 1 .. m + 1 |-> cnt1[i + z]]
    <2>1. m \in Nat /\ m + z = n
      BY <1>2, <1>5, <1>6
    <2>2. \A i \in 1 .. m + 1 : tok[i] = tok1[i + z] /\ ins[i] = ins1[i + z] /\ cnt[i] = cnt1[i + z]
      OBVIOUS
    <2>3. Len(s) = m
      BY <1>7
    <2>. HIDE DEF m, tok, ins, cnt
    <2>4. ASSUME NEW i \in 1 .. m, tok[i] # "none"
          PROVE  Right(s, w, tok, ins, cnt, i)
      <3>. DEFINE u == tok1[i + z]
                 j == i + z + Size(u)
      <3>1. i + z \in 1 .. n /\ i \in 1 .. m + 1
        BY <1>6, <2>1
      <3>2. /\ tok[i] = u /\ ins[i] = ins1[i + z] /\ cnt[i] = cnt1[i + z]
            /\ u \in Tokens /\ j <= n + 1 /\ tok1[j] # "none"
            /\ Content(r, i + z, u) /\ Moves(u, ins1[i + z], ins1[j], cnt1[i + z], cnt1[j], w)
        BY <1>3, <2>2, <2>4, <3>1 DEF Right, n
      <3>. HIDE DEF u
      <3>3. Size(u) \in 1 .. 6
        BY <3>2, SizesAreSmall
      <3>4. \A k \in 0 .. Size(u) - 1 : s[i + k] = r[i + z + k]
        <4>. SUFFICES ASSUME NEW k \in 0 .. Size(u) - 1
                      PROVE  s[i + k] = r[i + z + k]
          OBVIOUS
        <4>0. i + z + Size(u) <= n + 1 /\ n = m + z
          BY <2>1, <3>2
        <4>1. i + k \in 1 .. m /\ i + k + z = i + z + k
          BY <1>6, <2>1, <3>3, <4>0
        <4>. QED
          BY <1>7, <2>3, <4>1
      <3>5. Content(s, i, u)
        <4>1. i \in Int /\ i + z \in Int /\ u \in Tokens /\ Content(r, i + z, u)
          BY <1>6, <3>2
        <4>2. \A x \in Int : \A k \in 0 .. Size(u) - 1 : x = i + z => s[i + k] = r[x + k]
          BY <3>4
        <4>. QED
          BY <4>1, <4>2, ContentMoves
      <3>6. i + Size(u) \in 1 .. m + 1 /\ i + Size(u) + z = j
        <4>1. i + z + Size(u) <= n + 1 /\ n = m + z
          BY <2>1, <3>2
        <4>. QED
          BY <1>6, <2>1, <3>3, <4>1
      <3>7. tok[i + Size(u)] # "none" /\ ins[i + Size(u)] = ins1[j] /\ cnt[i + Size(u)] = cnt1[j]
        BY <2>2, <3>2, <3>6
      <3>. QED
        BY <2>3, <3>2, <3>5, <3>6, <3>7 DEF Right
    <2>5. tok[1] # "none" /\ ins[1] = o /\ cnt[1] = e
      <3>1. 1 \in 1 .. m + 1 /\ 1 + z = z + 1
        BY <1>6, <2>1
      <3>. QED
        BY <1>5, <2>2, <3>1 DEF o, e
    <2>6. tok[m + 1] = "over" /\ ins[m + 1] = q /\ cnt[m + 1] = d
      <3>1. m + 1 \in 1 .. m + 1 /\ m + 1 + z = n + 1
        BY <1>6, <2>1
      <3>. QED
        BY <1>3, <2>2, <3>1
    <2>7. Decodes(s, w, o, e, q, d, tok, ins, cnt)
      BY <2>3, <2>4, <2>5, <2>6 DEF Decodes
    <2>. QED
      BY <2>7 DEF CanDecode
  <1>8. z <= n
    BY <1>2, <1>5, <1>6
  <1>. QED
    BY <1>5, <1>7, <1>8 DEF n, z

-----------------------------------------------------------------------------
(* The beginning of the bytes.                                              *)

\* What is left of the bytes r after n of them.
After(r, n) == SubSeq(r, n + 1, Len(r))

LEMMA AfterIs ==
  ASSUME NEW r \in Bytes, NEW n \in 0 .. Len(r)
  PROVE  /\ After(r, n) \in Bytes /\ Len(After(r, n)) = Len(r) - n
         /\ \A i \in 1 .. Len(r) - n : After(r, n)[i] = r[n + i]
  <1>. DEFINE l == Len(r)
  <1>1. l \in Nat /\ \A i \in 1 .. l : r[i] \in Symbols
    BY LenProperties, ElementOfSeq DEF Bytes
  <1>. HIDE DEF l
  <1>2. n + 1 \in Int /\ l \in Int /\ \A i \in n + 1 .. l : r[i] \in Symbols
    BY <1>1 DEF l
  <1>3. /\ SubSeq(r, n + 1, l) \in Seq(Symbols)
        /\ Len(SubSeq(r, n + 1, l)) = IF n + 1 <= l THEN l - (n + 1) + 1 ELSE 0
        /\ \A i \in 1 .. l - (n + 1) + 1 : SubSeq(r, n + 1, l)[i] = r[n + 1 + i - 1]
    BY <1>2, SubSeqProperties
  <1>4. n \in 0 .. l /\ l - (n + 1) + 1 = l - n /\ \A i \in Int : n + 1 + i - 1 = n + i
    BY <1>1 DEF l
  <1>5. (IF n + 1 <= l THEN l - (n + 1) + 1 ELSE 0) = l - n
    BY <1>1, <1>4
  <1>6. After(r, n) = SubSeq(r, n + 1, l)
    BY DEF After, l
  <1>7. After(r, n) \in Seq(Symbols) /\ Len(After(r, n)) = l - n
    BY <1>3, <1>5, <1>6
  <1>8. ASSUME NEW i \in 1 .. l - n
        PROVE  After(r, n)[i] = r[n + i]
    BY <1>3, <1>4, <1>6
  <1>. QED
    BY <1>7, <1>8 DEF Bytes, l

\* The token t begins the bytes r, which can be decoded.
Heads(t, r, w, p, c, q, d, o, e) ==
  /\ t \in Tokens
  /\ Size(t) <= Len(r) /\ Content(r, 1, t) /\ Moves(t, p, o, c, e, w)
  /\ t = "esc" /\ Len(r) > 1 => r[2] \notin {"[", "O"}
  /\ CanDecode(After(r, Size(t)), w, o, e, q, d)

LEMMA SomeTokenBegins ==
  ASSUME NEW r \in Bytes, r # <<>>, NEW w, NEW p, NEW c, NEW q, NEW d, CanDecode(r, w, p, c, q, d)
  PROVE  \E t, o, e : Heads(t, r, w, p, c, q, d, o, e)
  <1>1. PICK t \in Tokens : \E o, e :
           /\ Size(t) <= Len(r) /\ Content(r, 1, t) /\ Moves(t, p, o, c, e, w)
           /\ \A s \in Bytes : Len(s) = Len(r) - Size(t) /\ (\A i \in 1 .. Len(s) : s[i] = r[i + Size(t)])
                => CanDecode(s, w, o, e, q, d)
    BY FirstDecodes
  <1>2. PICK o, e :
           /\ Size(t) <= Len(r) /\ Content(r, 1, t) /\ Moves(t, p, o, c, e, w)
           /\ \A s \in Bytes : Len(s) = Len(r) - Size(t) /\ (\A i \in 1 .. Len(s) : s[i] = r[i + Size(t)])
                => CanDecode(s, w, o, e, q, d)
    BY <1>1
  <1>. DEFINE s == After(r, Size(t))
  <1>3. Len(r) \in Nat /\ Size(t) \in 1 .. 6 /\ Size(t) \in 0 .. Len(r)
    BY <1>2, LenProperties, SizesAreSmall DEF Bytes
  <1>4. /\ s \in Bytes /\ Len(s) = Len(r) - Size(t)
        /\ \A i \in 1 .. Len(r) - Size(t) : s[i] = r[Size(t) + i]
    BY <1>3, AfterIs
  <1>5. CanDecode(s, w, o, e, q, d)
    <2>1. \A i \in 1 .. Len(s) : s[i] = r[i + Size(t)]
      <3>1. \A i \in 1 .. Len(s) : i + Size(t) = Size(t) + i
        BY <1>3, <1>4
      <3>. QED
        BY <1>4, <3>1
    <2>. QED
      BY <1>2, <1>4, <2>1
  <1>6. ASSUME t = "esc", Len(r) > 1
        PROVE  r[2] \notin {"[", "O"}
    <2>1. Size(t) = 1 /\ o = FALSE
      BY <1>2, <1>6, SizeIs DEF Moves, KeyTokens
    <2>2. Len(s) = Len(r) - 1 /\ 1 \in 1 .. Len(r) - 1 /\ s[1] = r[2] /\ s # <<>>
      <3>1. Len(s) = Len(r) - 1 /\ 1 \in 1 .. Len(r) - Size(t) /\ Size(t) + 1 = 2
        BY <1>3, <1>4, <1>6, <2>1
      <3>2. s[1] = r[2]
        BY <1>4, <3>1
      <3>3. Len(s) # 0
        BY <1>3, <1>6, <3>1
      <3>. QED
        BY <2>1, <3>1, <3>2, <3>3
    <2>3. PICK u \in Tokens : \E o2, e2 : Content(s, 1, u) /\ Moves(u, FALSE, o2, e, e2, w)
      BY <1>4, <1>5, <2>1, <2>2, FirstDecodes
    <2>4. u \in KeyTokens \union {"start"}
      BY <2>3 DEF Moves, Tokens
    <2>5. s[1] \in {"q", "ESC"}
      BY <2>3, <2>4 DEF Content, KeyTokens
    <2>. QED
      BY <2>2, <2>5
  <1>7. Heads(t, r, w, p, c, q, d, o, e)
    BY <1>2, <1>5, <1>6 DEF Heads
  <1>. QED
    BY <1>7

\* p is a beginning of r.
Prefix(p, r) == Len(p) <= Len(r) /\ \A i \in 1 .. Len(p) : p[i] = r[i]

LEMMA JoinedBegins ==
  ASSUME NEW a \in Bytes, NEW b \in Bytes
  PROVE  Prefix(a, a \o b)
  <1>1. /\ Len(a \o b) = Len(a) + Len(b)
        /\ \A i \in 1 .. Len(a) + Len(b) : (a \o b)[i] = IF i <= Len(a) THEN a[i] ELSE b[i - Len(a)]
    BY ConcatProperties DEF Bytes
  <1>2. Len(a) \in Nat /\ Len(b) \in Nat
    BY LenProperties DEF Bytes
  <1>3. \A i \in 1 .. Len(a) : i \in 1 .. Len(a) + Len(b) /\ i <= Len(a)
    BY <1>2
  <1>4. \A i \in 1 .. Len(a) : a[i] = (a \o b)[i]
    BY <1>1, <1>3
  <1>. QED
    BY <1>1, <1>2, <1>4 DEF Prefix

LEMMA PrefixIsSubSeq ==
  ASSUME NEW a \in Bytes, NEW b \in Bytes, Prefix(a, b)
  PROVE  a = SubSeq(b, 1, Len(a))
  <1>. DEFINE n == Len(a)
  <1>1. n \in Nat /\ Len(b) \in Nat /\ n <= Len(b) /\ \A i \in 1 .. n : a[i] = b[i] /\ a[i] \in Symbols
    BY ElementOfSeq, LenProperties DEF Bytes, Prefix
  <1>. HIDE DEF n
  <1>2. /\ SubSeq(b, 1, n) \in Seq(Symbols) /\ Len(SubSeq(b, 1, n)) = IF 1 <= n THEN n - 1 + 1 ELSE 0
        /\ \A i \in 1 .. n - 1 + 1 : SubSeq(b, 1, n)[i] = b[1 + i - 1]
    BY <1>1, 1 \in Int, n \in Int, SubSeqProperties
  <1>3. (IF 1 <= n THEN n - 1 + 1 ELSE 0) = n /\ n - 1 + 1 = n /\ \A i \in 1 .. n : 1 + i - 1 = i
    BY <1>1
  <1>4. Len(a) = n /\ Len(SubSeq(b, 1, n)) = n /\ \A i \in 1 .. n : a[i] = SubSeq(b, 1, n)[i]
    BY <1>1, <1>2, <1>3 DEF n
  <1>. QED
    BY <1>2, <1>4, SeqEqual DEF Bytes, n

SequenceTokens == {"up", "down", "pgup", "start", "stop"}

LEMMA EndIsFirst ==
  ASSUME NEW p \in Bytes, NEW n \in 3 .. Len(p), p[n] \in Final,
         \A i \in 3 .. n - 1 : p[i] \notin Final
  PROVE  EndOf(p) = n
  <1>. DEFINE final == {i \in 3 .. Len(p) : p[i] \in Final}
  <1>1. Len(p) \in Nat
    BY LenProperties DEF Bytes
  <1>2. n \in final
    OBVIOUS
  <1>3. \A i \in final : n <= i
    BY <1>1
  <1>4. \A i \in final : (\A j \in final : i <= j) => i = n
    BY <1>1, <1>2, <1>3
  <1>5. final # {} /\ EndOf(p) = CHOOSE i \in final : \A j \in final : i <= j
    BY <1>2 DEF EndOf
  <1>. HIDE DEF final
  <1>. QED
    BY <1>2, <1>3, <1>4, <1>5

LEMMA NoEnd ==
  ASSUME NEW p \in Bytes, \A i \in 3 .. Len(p) : p[i] \notin Final
  PROVE  EndOf(p) = Len(p) + 1
  <1>1. {i \in 3 .. Len(p) : p[i] \in Final} = {}
    OBVIOUS
  <1>. QED
    BY <1>1 DEF EndOf

LEMMA SequenceBytes ==
  ASSUME NEW r, NEW t \in SequenceTokens, Content(r, 1, t)
  PROVE  /\ Size(t) \in 3 .. 6 /\ r[1] = "ESC" /\ r[2] \in {"[", "O"}
         /\ r[Size(t)] \in Final /\ \A i \in 3 .. Size(t) - 1 : r[i] \notin Final
  <1>1. CASE t \in {"up", "down"}
    BY <1>1, SizeIs, 1 + 1 = 2, 1 + 2 = 3 DEF Content, Final
  <1>2. CASE t = "pgup"
    <2>1. Size(t) = 4 /\ r[1] = "ESC" /\ r[2] = "[" /\ r[3] = "5" /\ r[4] = "~"
      BY <1>2, SizeIs DEF Content
    <2>2. \A i \in 3 .. 3 : i = 3
      OBVIOUS
    <2>. QED
      BY <2>1, <2>2 DEF Final
  <1>3. CASE t \in {"start", "stop"}
    <2>1. /\ Size(t) = 6 /\ r[1] = "ESC" /\ r[2] = "[" /\ r[3] = "2" /\ r[4] = "0"
          /\ r[5] \in {"0", "1"} /\ r[6] = "~"
      BY <1>3, SizeIs DEF Content
    <2>2. \A i \in 3 .. 5 : i = 3 \/ i = 4 \/ i = 5
      OBVIOUS
    <2>. QED
      BY <2>1, <2>2 DEF Final
  <1>. QED
    BY <1>1, <1>2, <1>3 DEF SequenceTokens

LEMMA EndOfSequence ==
  ASSUME NEW r \in Bytes, NEW p \in Bytes, Prefix(p, r), Len(p) > 1,
         NEW t \in SequenceTokens, Content(r, 1, t), Size(t) <= Len(r)
  PROVE  /\ p[1] = "ESC" /\ p[2] \in {"[", "O"}
         /\ EndOf(p) = IF Size(t) <= Len(p) THEN Size(t) ELSE Len(p) + 1
  <1>1. Len(p) \in Nat /\ Len(r) \in Nat /\ Size(t) \in 3 .. 6
    BY LenProperties, SequenceBytes DEF Bytes
  <1>2. p[1] = "ESC" /\ p[2] \in {"[", "O"}
    BY <1>1, SequenceBytes DEF Prefix
  <1>3. CASE Size(t) <= Len(p)
    <2>1. Size(t) \in 3 .. Len(p)
      BY <1>1, <1>3
    <2>2. p[Size(t)] \in Final /\ \A i \in 3 .. Size(t) - 1 : p[i] \notin Final
      <3>1. \A i \in 3 .. Size(t) : i \in 1 .. Len(p)
        BY <1>1, <1>3
      <3>2. \A i \in 3 .. Size(t) : p[i] = r[i]
        BY <3>1 DEF Prefix
      <3>3. \A i \in 3 .. Size(t) - 1 : i \in 3 .. Size(t)
        BY <1>1
      <3>4. Size(t) \in 3 .. Size(t)
        BY <1>1
      <3>. QED
        BY <3>2, <3>3, <3>4, SequenceBytes
    <2>. QED
      BY <1>2, <1>3, <2>1, <2>2, EndIsFirst
  <1>4. CASE ~(Size(t) <= Len(p))
    <2>1. \A i \in 3 .. Len(p) : i \in 1 .. Len(p) /\ i \in 3 .. Size(t) - 1
      BY <1>1, <1>4
    <2>2. \A i \in 3 .. Len(p) : p[i] \notin Final
      BY <2>1, SequenceBytes DEF Prefix
    <2>. QED
      BY <1>2, <1>4, <2>2, NoEnd
  <1>. QED
    BY <1>3, <1>4

LEMMA OneOrMore == \A n \in Nat \ {0} : n = 1 \/ n > 1
  OBVIOUS

\* Bytes that have been read wait while their first token is unfinished; they
\* are a few then.
LEMMA WaitsForToken ==
  ASSUME NEW r \in Bytes, NEW p \in Bytes, Prefix(p, r), p # <<>>,
         NEW t, NEW w, NEW p0, NEW c, NEW q, NEW d, NEW o, NEW e,
         Heads(t, r, w, p0, c, q, d, o, e)
  PROVE  /\ Waits(p) => Len(p) < 6
         /\ ~Waits(p) => Size(t) <= Len(p) /\ (t = "esc" => Len(p) > 1)
  <1>1. /\ t \in Tokens /\ Size(t) <= Len(r) /\ Content(r, 1, t)
        /\ t = "esc" /\ Len(r) > 1 => r[2] \notin {"[", "O"}
    BY DEF Heads
  <1>2. Len(p) \in Nat \ {0} /\ Len(r) \in Nat /\ Len(p) <= Len(r) /\ p[1] = r[1]
        /\ (Len(p) > 1 => p[2] = r[2])
    <2>1. Len(p) \in Nat \ {0} /\ Len(r) \in Nat /\ Len(p) <= Len(r)
      BY EmptySeq, LenProperties DEF Bytes, Prefix
    <2>2. 1 \in 1 .. Len(p) /\ (Len(p) > 1 => 2 \in 1 .. Len(p))
      BY <2>1
    <2>. QED
      BY <2>1, <2>2 DEF Prefix
  <1>3. Len(p) = 1 \/ Len(p) > 1
    BY <1>2, OneOrMore
  <1>4. Len(p) = 1 => p = <<p[1]>>
    <2>. SUFFICES ASSUME Len(p) = 1
                  PROVE  p = <<p[1]>>
      OBVIOUS
    <2>1. p[1] \in Symbols
      BY <1>2, ElementOfSeq DEF Bytes
    <2>2. <<p[1]>> \in Seq(Symbols) /\ Len(<<p[1]>>) = 1 /\ \A i \in 1 .. 1 : p[i] = <<p[1]>>[i]
      BY <2>1
    <2>. QED
      BY <2>2, SeqEqual DEF Bytes
  <1>5. Len(<<"ESC">>) = 1 /\ <<"ESC">>[1] = "ESC"
    OBVIOUS
  <1>6. CASE t \in {"q", "text"}
    <2>1. p[1] # "ESC" /\ Size(t) = 1
      BY <1>1, <1>2, <1>6, SizeIs DEF Content
    <2>2. ~Waits(p)
      BY <1>5, <2>1 DEF Waits, ESC
    <2>. QED
      BY <1>2, <1>6, <2>1, <2>2
  <1>7. CASE t = "esc"
    <2>1. p[1] = "ESC" /\ Size(t) = 1
      BY <1>1, <1>2, <1>7, SizeIs DEF Content
    <2>2. CASE Len(p) = 1
      <3>1. p = <<"ESC">>
        BY <1>4, <2>1, <2>2
      <3>. QED
        BY <1>2, <2>2, <3>1 DEF Waits, ESC
    <2>3. CASE Len(p) > 1
      <3>1. p[2] \notin {"[", "O"} /\ p # <<"ESC">>
        BY <1>1, <1>2, <1>5, <1>7, <2>3
      <3>2. ~Waits(p)
        BY <3>1 DEF Waits, ESC
      <3>. QED
        BY <1>2, <2>1, <2>3, <3>2
    <2>. QED
      BY <1>3, <2>2, <2>3
  <1>8. CASE t \in SequenceTokens
    <2>1. Size(t) \in 3 .. 6 /\ p[1] = "ESC" /\ t # "esc"
      BY <1>1, <1>2, <1>8, SequenceBytes DEF SequenceTokens
    <2>2. CASE Len(p) = 1
      <3>1. p = <<"ESC">>
        BY <1>4, <2>1, <2>2
      <3>. QED
        BY <2>2, <3>1 DEF Waits, ESC
    <2>3. CASE Len(p) > 1
      <3>1. /\ p[2] \in {"[", "O"} /\ p # <<"ESC">>
            /\ EndOf(p) = IF Size(t) <= Len(p) THEN Size(t) ELSE Len(p) + 1
        BY <1>1, <1>5, <1>8, <2>3, EndOfSequence
      <3>2. Waits(p) <=> EndOf(p) > Len(p)
        BY <2>1, <2>3, <3>1 DEF Waits, ESC
      <3>3. EndOf(p) > Len(p) <=> ~(Size(t) <= Len(p))
        BY <1>2, <2>1, <3>1
      <3>. QED
        BY <1>2, <2>1, <3>2, <3>3
    <2>. QED
      BY <1>3, <2>2, <2>3
  <1>. QED
    BY <1>1, <1>6, <1>7, <1>8 DEF Tokens, KeyTokens, SequenceTokens

\* None of them is dropped.
LEMMA AllIsLeft ==
  ASSUME PendingLimit \in Nat, PendingLimit >= 5,
         NEW r \in Bytes, NEW p \in Bytes, Prefix(p, r),
         NEW w, NEW p0, NEW c, NEW q, NEW d, CanDecode(r, w, p0, c, q, d)
  PROVE  Left(p) = p
  <1>1. Len(p) \in Nat /\ Len(r) \in Nat /\ (p # <<>> => Len(p) # 0)
    BY EmptySeq, LenProperties DEF Bytes
  <1>2. CASE p = <<>>
    BY <1>2 DEF Left
  <1>3. CASE p # <<>>
    <2>1. r # <<>>
      <3>1. Len(r) # 0
        BY <1>1, <1>3 DEF Prefix
      <3>. QED
        BY <3>1
    <2>2. PICK t, o, e : Heads(t, r, w, p0, c, q, d, o, e)
      BY <2>1, SomeTokenBegins
    <2>3. Waits(p) => Len(p) < 6
      BY <1>3, <2>2, WaitsForToken
    <2>. QED
      BY <1>1, <2>3 DEF Left
  <1>. QED
    BY <1>2, <1>3

-----------------------------------------------------------------------------
(* A turn of the loop.                                                      *)

LEMMA SixBytes ==
  ASSUME NEW a \in Symbols, NEW b \in Symbols, NEW c \in Symbols,
         NEW d \in Symbols, NEW e \in Symbols, NEW f \in Symbols
  PROVE  <<a, b, c, d, e, f>> \in Bytes
  BY DEF Bytes

LEMMA PastesAreBytes == PasteStart \in Bytes /\ PasteEnd \in Bytes
  <1>1. \A x \in {"ESC", "[", "2", "0", "1", "~"} : x \in Symbols
    BY DEF Symbols
  <1>2. <<"ESC", "[", "2", "0", "0", "~">> \in Bytes /\ <<"ESC", "[", "2", "0", "1", "~">> \in Bytes
    BY <1>1, SixBytes
  <1>. QED
    BY <1>2 DEF PasteStart, PasteEnd, ESC

\* What the sequence of the token t is taken for.
LEMMA SequenceMeans ==
  ASSUME NEW s \in Bytes, NEW t \in SequenceTokens, Len(s) = Size(t), Content(s, 1, t)
  PROVE  /\ t \in KeyTokens => Meaning(s) = t /\ s # PasteStart /\ s # PasteEnd
         /\ t = "start" => Meaning(s) = "" /\ s = PasteStart /\ s # PasteEnd
         /\ t = "stop" => Meaning(s) = "" /\ s # PasteStart /\ s = PasteEnd
  <1>1. /\ Len(PasteStart) = 6 /\ Len(PasteEnd) = 6
        /\ PasteStart[5] = "0" /\ PasteEnd[5] = "1"
    BY DEF PasteStart, PasteEnd
  <1>2. CASE t = "up"
    <2>1. Len(s) = 3 /\ s[1] = "ESC" /\ s[2] = "[" /\ s[3] = "A"
      BY <1>2, SizeIs, 1 + 1 = 2, 1 + 2 = 3 DEF Content
    <2>2. s = <<"ESC", "[", "A">>
      <3>1. \A i \in 1 .. 3 : s[i] = <<"ESC", "[", "A">>[i]
        BY <2>1
      <3>. QED
        BY <2>1, <3>1, SeqEqual DEF Bytes
    <2>3. Meaning(s) = "up"
      BY <2>2 DEF Meaning, ESC
    <2>5. s # PasteStart /\ s # PasteEnd
      BY <1>1, <2>1
    <2>. QED
      BY <1>2, <2>3, <2>5 DEF SequenceTokens
  <1>3. CASE t = "down"
    <2>1. Len(s) = 3 /\ s[1] = "ESC" /\ s[2] = "O" /\ s[3] = "B"
      BY <1>3, SizeIs, 1 + 1 = 2, 1 + 2 = 3 DEF Content
    <2>2. s = <<"ESC", "O", "B">>
      <3>1. \A i \in 1 .. 3 : s[i] = <<"ESC", "O", "B">>[i]
        BY <2>1
      <3>. QED
        BY <2>1, <3>1, SeqEqual DEF Bytes
    <2>3. s \notin {<<"ESC", "[", "A">>, <<"ESC", "O", "A">>}
      BY <2>1
    <2>4. Meaning(s) = "down"
      BY <2>2, <2>3 DEF Meaning, ESC
    <2>5. s # PasteStart /\ s # PasteEnd
      BY <1>1, <2>1
    <2>. QED
      BY <1>3, <2>4, <2>5 DEF SequenceTokens
  <1>4. CASE t = "pgup"
    <2>1. Len(s) = 4 /\ s[1] = "ESC" /\ s[2] = "[" /\ s[3] = "5" /\ s[4] = "~"
      BY <1>4, SizeIs, 1 + 1 = 2, 1 + 2 = 3, 1 + 3 = 4 DEF Content
    <2>2. s = <<"ESC", "[", "5", "~">>
      <3>1. \A i \in 1 .. 4 : s[i] = <<"ESC", "[", "5", "~">>[i]
        BY <2>1
      <3>. QED
        BY <2>1, <3>1, SeqEqual DEF Bytes
    <2>3. s \notin {<<"ESC", "[", "A">>, <<"ESC", "O", "A">>, <<"ESC", "[", "B">>, <<"ESC", "O", "B">>}
      BY <2>1
    <2>4. Meaning(s) = "pgup"
      BY <2>2, <2>3 DEF Meaning, ESC
    <2>5. s # PasteStart /\ s # PasteEnd
      BY <1>1, <2>1
    <2>. QED
      BY <1>4, <2>4, <2>5 DEF SequenceTokens
  <1>5. CASE t \in {"start", "stop"}
    <2>1. /\ Len(s) = 6 /\ s[1] = "ESC" /\ s[2] = "[" /\ s[3] = "2" /\ s[4] = "0" /\ s[6] = "~"
          /\ t = "start" => s[5] = "0"
          /\ t = "stop" => s[5] = "1"
      BY <1>5, SizeIs, 1 + 1 = 2, 1 + 2 = 3, 1 + 3 = 4, 1 + 4 = 5, 1 + 5 = 6 DEF Content
    <2>2. Meaning(s) = ""
      <3>1. /\ s \notin {<<"ESC", "[", "A">>, <<"ESC", "O", "A">>}
            /\ s \notin {<<"ESC", "[", "B">>, <<"ESC", "O", "B">>}
            /\ s # <<"ESC", "[", "5", "~">>
        BY <2>1
      <3>. QED
        BY <3>1 DEF Meaning, ESC
    <2>3. t = "start" => s = PasteStart
      <3>1. t = "start" => \A i \in 1 .. 6 : s[i] = PasteStart[i]
        BY <2>1 DEF PasteStart, ESC
      <3>. QED
        BY <1>1, <2>1, <3>1, PastesAreBytes, SeqEqual DEF Bytes
    <2>4. t = "stop" => s = PasteEnd
      <3>1. t = "stop" => \A i \in 1 .. 6 : s[i] = PasteEnd[i]
        BY <2>1 DEF PasteEnd, ESC
      <3>. QED
        BY <1>1, <2>1, <3>1, PastesAreBytes, SeqEqual DEF Bytes
    <2>. QED
      BY <1>1, <1>5, <2>1, <2>2, <2>3, <2>4 DEF KeyTokens
  <1>. QED
    BY <1>2, <1>3, <1>4, <1>5 DEF SequenceTokens

\* All that comes from the terminal can be decoded into what the user typed.
KeysInv ==
  /\ wire \in Bytes /\ pending \in Bytes /\ keys \in Bytes /\ meant \in Bytes /\ paste \in BOOLEAN
  /\ Prefix(keys, meant)
  /\ CanDecode(pending \o wire, meant, paste, Len(keys), FALSE, Len(meant))

\* A turn takes the first token.
LEMMA TurnTakesToken ==
  ASSUME NEW r \in Bytes, pending \in Bytes, Prefix(pending, r), paste \in BOOLEAN, Decode,
         NEW t, NEW w, NEW c, NEW q, NEW d, NEW o, NEW e,
         Heads(t, r, w, paste, c, q, d, o, e)
  PROVE  /\ Size(t) <= Len(pending) /\ pending' = Left(After(pending, Size(t)))
         /\ wire' = wire /\ meant' = meant /\ (paste' <=> o)
         /\ keys' = IF t \in KeyTokens THEN Append(keys, t) ELSE keys
  <1>1. pending # <<>> /\ ~Waits(pending)
    BY DEF Decode, Resting
  <1>2. Size(t) <= Len(pending) /\ (t = "esc" => Len(pending) > 1)
    BY <1>1, WaitsForToken
  <1>3. /\ t \in Tokens /\ Size(t) <= Len(r) /\ Content(r, 1, t)
        /\ t = "esc" /\ Len(r) > 1 => r[2] \notin {"[", "O"}
        /\ Moves(t, paste, o, c, e, w)
    BY DEF Heads
  <1>4. /\ Len(pending) \in Nat \ {0} /\ Len(r) \in Nat /\ Len(pending) <= Len(r)
        /\ \A i \in 1 .. Len(pending) : pending[i] = r[i]
    BY <1>1, EmptySeq, LenProperties DEF Bytes, Prefix
  <1>5. pending[1] = r[1] /\ (Len(pending) > 1 => pending[2] = r[2])
    <2>1. 1 \in 1 .. Len(pending) /\ (Len(pending) > 1 => 2 \in 1 .. Len(pending))
      BY <1>4
    <2>. QED
      BY <1>4, <2>1
  <1>6. DecodeByte \/ DecodeEsc \/ DecodeSequence
    BY DEF Decode
  <1>7. CASE t \in {"q", "text"}
    <2>1. pending[1] # "ESC" /\ Size(t) = 1 /\ (t = "q" => pending[1] = "q")
      BY <1>3, <1>5, <1>7, SizeIs DEF Content
    <2>2. DecodeByte
      BY <1>6, <2>1 DEF DecodeEsc, DecodeSequence, ESC
    <2>3. Take(1) /\ Hear(pending[1]) /\ paste' = paste
      BY <2>2 DEF DecodeByte
    <2>4. pending' = Left(After(pending, 1)) /\ wire' = wire /\ meant' = meant
      BY <2>3 DEF Take, After
    <2>5. CASE t = "q"
      <3>1. paste = FALSE /\ o = FALSE
        BY <1>3, <2>5 DEF Moves, KeyTokens
      <3>2. keys' = Append(keys, "q")
        BY <2>1, <2>3, <2>5, <3>1 DEF Hear
      <3>. QED
        BY <1>2, <2>1, <2>3, <2>4, <2>5, <3>1, <3>2 DEF KeyTokens
    <2>6. CASE t = "text"
      <3>1. paste = TRUE /\ o = TRUE
        BY <1>3, <2>6 DEF Moves
      <3>2. keys' = keys
        BY <2>3, <3>1 DEF Hear
      <3>. QED
        BY <1>2, <2>1, <2>3, <2>4, <2>6, <3>1, <3>2 DEF KeyTokens
    <2>. QED
      BY <1>7, <2>5, <2>6
  <1>8. CASE t = "esc"
    <2>1. pending[1] = "ESC" /\ Size(t) = 1 /\ pending[2] \notin {"[", "O"}
      BY <1>2, <1>3, <1>4, <1>5, <1>8, SizeIs DEF Content
    <2>2. DecodeEsc
      BY <1>6, <2>1 DEF DecodeByte, DecodeSequence, ESC
    <2>3. Take(1) /\ Hear("esc") /\ paste' = paste
      BY <2>2 DEF DecodeEsc
    <2>4. pending' = Left(After(pending, 1)) /\ wire' = wire /\ meant' = meant
      BY <2>3 DEF Take, After
    <2>5. paste = FALSE /\ o = FALSE
      BY <1>3, <1>8 DEF Moves, KeyTokens
    <2>6. keys' = Append(keys, "esc")
      BY <2>3, <2>5 DEF Hear
    <2>. QED
      BY <1>2, <1>8, <2>1, <2>3, <2>4, <2>5, <2>6 DEF KeyTokens
  <1>9. CASE t \in SequenceTokens
    <2>. DEFINE z == Size(t)
               s == SubSeq(pending, 1, z)
    <2>1. z \in 3 .. 6 /\ Len(pending) > 1
      BY <1>2, <1>3, <1>4, <1>9, SequenceBytes
    <2>2. pending[1] = "ESC" /\ pending[2] \in {"[", "O"} /\ EndOf(pending) = z
      BY <1>2, <1>3, <1>9, <2>1, EndOfSequence
    <2>3. DecodeSequence
      BY <1>6, <2>2 DEF DecodeByte, DecodeEsc, ESC
    <2>4. /\ Take(z) /\ Hear(Meaning(s))
          /\ paste' = (s = PasteStart \/ (paste /\ s # PasteEnd))
      BY <2>2, <2>3 DEF DecodeSequence
    <2>5. pending' = Left(After(pending, z)) /\ wire' = wire /\ meant' = meant
      BY <2>4 DEF Take, After
    <2>6. s \in Bytes /\ Len(s) = z /\ \A i \in 1 .. z : s[i] = r[i]
      <3>1. z \in Int /\ 1 \in Int /\ 1 <= z /\ z <= Len(pending)
        BY <1>2, <2>1
      <3>2. \A i \in 1 .. z : i \in 1 .. Len(pending)
        BY <1>4, <3>1
      <3>3. \A i \in 1 .. z : pending[i] \in Symbols
        BY <3>2, ElementOfSeq DEF Bytes
      <3>. HIDE DEF z
      <3>4. /\ s \in Seq(Symbols) /\ Len(s) = IF 1 <= z THEN z - 1 + 1 ELSE 0
            /\ \A i \in 1 .. z - 1 + 1 : s[i] = pending[1 + i - 1]
        BY <3>1, <3>3, SubSeqProperties
      <3>5. z - 1 + 1 = z /\ \A i \in 1 .. z : 1 + i - 1 = i
        BY <3>1
      <3>. QED
        BY <1>4, <3>1, <3>2, <3>4, <3>5 DEF Bytes
    <2>7. Content(s, 1, t)
      <3>1. \A k \in 0 .. Size(t) - 1 : s[1 + k] = r[1 + k]
        BY <2>1, <2>6
      <3>. HIDE DEF s, z
      <3>. QED
        BY <1>3, <3>1, 1 \in Int, ContentMoves
    <2>. HIDE DEF s
    <2>8. /\ t \in KeyTokens => Meaning(s) = t /\ s # PasteStart /\ s # PasteEnd
          /\ t = "start" => Meaning(s) = "" /\ s = PasteStart /\ s # PasteEnd
          /\ t = "stop" => Meaning(s) = "" /\ s # PasteStart /\ s = PasteEnd
      BY <1>9, <2>6, <2>7, SequenceMeans
    <2>9. CASE t \in KeyTokens
      <3>1. paste = FALSE /\ o = FALSE
        BY <1>3, <2>9 DEF Moves
      <3>2. keys' = Append(keys, t)
        BY <2>4, <2>8, <2>9, <3>1 DEF Hear, KeyTokens
      <3>3. paste' <=> o
        BY <2>4, <2>8, <2>9, <3>1
      <3>. QED
        BY <1>2, <2>5, <2>9, <3>2, <3>3
    <2>10. CASE t \in {"start", "stop"}
      <3>1. o <=> t = "start"
        BY <1>3, <2>10 DEF Moves
      <3>2. keys' = keys
        BY <2>4, <2>8, <2>10 DEF Hear
      <3>3. paste' <=> o
        BY <2>4, <2>8, <2>10, <3>1
      <3>. QED
        BY <1>2, <2>5, <2>10, <3>2, <3>3 DEF KeyTokens
    <2>. QED
      BY <1>9, <2>9, <2>10 DEF SequenceTokens, KeyTokens
  <1>. QED
    BY <1>3, <1>7, <1>8, <1>9 DEF Tokens, KeyTokens, SequenceTokens

-----------------------------------------------------------------------------
(* The invariant.                                                           *)

\* The bytes that are read and those that are not.
Coming == pending \o wire

LEMMA ComingIs ==
  ASSUME pending \in Bytes, wire \in Bytes
  PROVE  Coming \in Bytes /\ Len(Coming) = Len(pending) + Len(wire) /\ Prefix(pending, Coming)
  BY ConcatProperties, JoinedBegins DEF Coming, Bytes

LEMMA AfterComing ==
  ASSUME pending \in Bytes, wire \in Bytes, NEW n \in 0 .. Len(pending)
  PROVE  After(Coming, n) = After(pending, n) \o wire
  <1>. DEFINE a == After(pending, n)
             b == After(Coming, n)
             l == Len(pending)
             m == Len(wire)
  <1>1. l \in Nat /\ m \in Nat
    BY LenProperties DEF Bytes
  <1>2. /\ Coming \in Bytes /\ Len(Coming) = l + m
        /\ \A i \in 1 .. l + m : Coming[i] = IF i <= l THEN pending[i] ELSE wire[i - l]
    BY ConcatProperties DEF Coming, Bytes
  <1>3. a \in Bytes /\ Len(a) = l - n /\ \A i \in 1 .. l - n : a[i] = pending[n + i]
    BY AfterIs
  <1>. HIDE DEF l, m, a
  <1>4. n \in 0 .. Len(Coming) /\ Len(Coming) - n = l + m - n /\ n \in 0 .. l
    BY <1>1, <1>2 DEF l
  <1>5. b \in Bytes /\ Len(b) = l + m - n /\ \A i \in 1 .. l + m - n : b[i] = Coming[n + i]
    BY <1>2, <1>4, AfterIs
  <1>. HIDE DEF b
  <1>6. /\ a \o wire \in Bytes /\ Len(a \o wire) = Len(a) + m
        /\ \A i \in 1 .. Len(a) + m : (a \o wire)[i] = IF i <= Len(a) THEN a[i] ELSE wire[i - Len(a)]
    BY <1>3, ConcatProperties DEF Bytes, m
  <1>7. Len(a) + m = l + m - n
    BY <1>1, <1>3, <1>4
  <1>8. ASSUME NEW i \in 1 .. l + m - n
        PROVE  b[i] = (a \o wire)[i]
    <2>1. n + i \in 1 .. l + m /\ b[i] = Coming[n + i]
      BY <1>1, <1>4, <1>5
    <2>2. CASE i <= l - n
      <3>1. n + i <= l /\ i \in 1 .. l - n /\ i <= Len(a)
        BY <1>1, <1>3, <1>4, <2>2
      <3>. QED
        BY <1>2, <1>3, <1>6, <1>7, <2>1, <3>1
    <2>3. CASE ~(i <= l - n)
      <3>. DEFINE k == i - (l - n)
      <3>1. k \in 1 .. m /\ n + i = l + k /\ i = Len(a) + k
        BY <1>1, <1>3, <1>4, <2>3
      <3>. HIDE DEF k
      <3>2. Coming[l + k] = wire[k]
        BY <3>1, <1>1, <1>2
      <3>3. (a \o wire)[Len(a) + k] = wire[k]
        BY <3>1, <1>1, <1>3, <1>4, <1>6
      <3>. QED
        BY <2>1, <3>1, <3>2, <3>3
    <2>. QED
      BY <2>2, <2>3
  <1>. QED
    BY <1>1, <1>5, <1>6, <1>7, <1>8, SeqEqual DEF Bytes, a, b

LEMMA AppendKeepsPrefix ==
  ASSUME NEW k \in Bytes, NEW w \in Bytes, Prefix(k, w), NEW t \in Symbols
  PROVE  /\ Prefix(k, Append(w, t))
         /\ Len(k) + 1 \in 1 .. Len(w) /\ w[Len(k) + 1] = t => Prefix(Append(k, t), w)
  <1>1. /\ Len(k) \in Nat /\ Len(w) \in Nat
        /\ Len(Append(k, t)) = Len(k) + 1 /\ Append(k, t)[Len(k) + 1] = t
        /\ \A i \in 1 .. Len(k) : Append(k, t)[i] = k[i]
        /\ Len(Append(w, t)) = Len(w) + 1 /\ \A i \in 1 .. Len(w) : Append(w, t)[i] = w[i]
    BY AppendProperties, LenProperties DEF Bytes
  <1>2. \A i \in 1 .. Len(k) : i \in 1 .. Len(w)
    BY <1>1 DEF Prefix
  <1>3. \A i \in 1 .. Len(k) + 1 : i \in 1 .. Len(k) \/ i = Len(k) + 1
    BY <1>1
  <1>4. Prefix(k, Append(w, t))
    BY <1>1, <1>2 DEF Prefix
  <1>5. Len(k) + 1 \in 1 .. Len(w) /\ w[Len(k) + 1] = t => Prefix(Append(k, t), w)
    BY <1>1, <1>3 DEF Prefix
  <1>. QED
    BY <1>4, <1>5

LEMMA DecodeKeepsKeys ==
  ASSUME PendingLimit \in Nat, PendingLimit >= 5, KeysInv, Decode
  PROVE  KeysInv'
  <1>1. pending \in Bytes /\ wire \in Bytes /\ keys \in Bytes /\ meant \in Bytes /\ paste \in BOOLEAN
        /\ Prefix(keys, meant) /\ CanDecode(Coming, meant, paste, Len(keys), FALSE, Len(meant))
    BY DEF KeysInv, Coming
  <1>2. Coming \in Bytes /\ Len(Coming) = Len(pending) + Len(wire) /\ Prefix(pending, Coming)
    BY <1>1, ComingIs
  <1>3. Len(pending) \in Nat \ {0} /\ Len(wire) \in Nat /\ Coming # <<>>
    <2>1. Len(pending) \in Nat \ {0} /\ Len(wire) \in Nat
      BY <1>1, EmptySeq, LenProperties DEF Decode, Resting, Bytes
    <2>2. Len(Coming) # 0
      BY <1>2, <2>1
    <2>. QED
      BY <2>1, <2>2
  <1>4. PICK t, o, e : Heads(t, Coming, meant, paste, Len(keys), FALSE, Len(meant), o, e)
    BY <1>1, <1>2, <1>3, SomeTokenBegins
  <1>. DEFINE z == Size(t)
             rest == After(pending, z)
  <1>5. /\ z <= Len(pending) /\ pending' = Left(rest)
        /\ wire' = wire /\ meant' = meant /\ (paste' <=> o)
        /\ keys' = IF t \in KeyTokens THEN Append(keys, t) ELSE keys
    BY <1>1, <1>2, <1>4, TurnTakesToken
  <1>6. /\ t \in Tokens /\ Moves(t, paste, o, Len(keys), e, meant)
        /\ CanDecode(After(Coming, z), meant, o, e, FALSE, Len(meant))
    BY <1>4 DEF Heads
  <1>7. z \in 1 .. 6 /\ z \in 0 .. Len(pending)
    BY <1>3, <1>5, <1>6, SizesAreSmall
  <1>8. rest \in Bytes /\ After(Coming, z) = rest \o wire
    BY <1>1, <1>7, AfterIs, AfterComing
  <1>. HIDE DEF rest
  <1>9. pending' = rest
    <2>1. rest \o wire \in Bytes
      BY <1>1, <1>8, ConcatProperties DEF Bytes
    <2>2. Prefix(rest, rest \o wire)
      BY <1>1, <1>8, JoinedBegins
    <2>3. CanDecode(rest \o wire, meant, o, e, FALSE, Len(meant))
      BY <1>6, <1>8
    <2>. QED
      BY <1>5, <1>8, <2>1, <2>2, <2>3, AllIsLeft
  <1>10. paste' = o /\ paste' \in BOOLEAN
    <2>1. o \in BOOLEAN
      BY <1>6 DEF Moves, Tokens
    <2>2. paste' \in BOOLEAN
      BY <1>1 DEF Decode, DecodeByte, DecodeEsc, DecodeSequence
    <2>. QED
      BY <1>5, <2>1, <2>2
  <1>11. keys' \in Bytes /\ Prefix(keys', meant) /\ Len(keys') = e
    <2>1. CASE t \in KeyTokens
      <3>1. t \in Symbols
        BY <2>1 DEF Symbols
      <3>2. e = Len(keys) + 1 /\ e \in 1 .. Len(meant) /\ meant[e] = t
        BY <1>6, <2>1 DEF Moves
      <3>3. Append(keys, t) \in Bytes /\ Len(Append(keys, t)) = Len(keys) + 1
        BY <1>1, <3>1, AppendProperties DEF Bytes
      <3>4. Prefix(Append(keys, t), meant)
        BY <1>1, <3>1, <3>2, AppendKeepsPrefix
      <3>. QED
        BY <1>5, <2>1, <3>2, <3>3, <3>4
    <2>2. CASE t \notin KeyTokens
      BY <1>1, <1>5, <1>6, <2>2 DEF Moves, Tokens
    <2>. QED
      BY <2>1, <2>2
  <1>12. CanDecode(pending' \o wire', meant', paste', Len(keys'), FALSE, Len(meant'))
    BY <1>5, <1>6, <1>8, <1>9, <1>10, <1>11
  <1>13. wire' \in Bytes /\ pending' \in Bytes /\ meant' \in Bytes /\ Prefix(keys', meant')
    BY <1>1, <1>5, <1>8, <1>9, <1>11
  <1>. QED
    BY <1>10, <1>11, <1>12, <1>13 DEF KeysInv

LEMMA FirstKeys == KeysInit => KeysInv
  <1>. SUFFICES ASSUME KeysInit
                PROVE  KeysInv
    OBVIOUS
  <1>1. <<>> \in Bytes /\ <<>> \o <<>> = <<>> /\ Len(<<>>) = 0 /\ FALSE \in BOOLEAN
    BY EmptySeq, ConcatEmptySeq DEF Bytes
  <1>2. wire = <<>> /\ pending = <<>> /\ keys = <<>> /\ meant = <<>> /\ paste = FALSE
    BY DEF KeysInit
  <1>3. CanDecode(<<>>, <<>>, FALSE, 0, FALSE, 0)
    BY NothingDecodes
  <1>4. Prefix(<<>>, <<>>)
    BY <1>1 DEF Prefix
  <1>. QED
    BY <1>1, <1>2, <1>3, <1>4 DEF KeysInv

\* More bytes come after those that come.
LEMMA MoreComes ==
  ASSUME pending \in Bytes, wire \in Bytes, NEW s \in Bytes, NEW w, NEW p, NEW c, NEW q, NEW d, NEW e,
         CanDecode(pending \o wire, w, p, c, FALSE, d), CanDecode(s, w, FALSE, d, FALSE, e)
  PROVE  wire \o s \in Bytes /\ CanDecode(pending \o (wire \o s), w, p, c, FALSE, e)
  <1>1. pending \o wire \in Bytes /\ wire \o s \in Bytes
    BY ConcatProperties DEF Bytes
  <1>2. (pending \o wire) \o s = pending \o (wire \o s)
    BY ConcatAssociative DEF Bytes
  <1>3. CanDecode((pending \o wire) \o s, w, p, c, FALSE, e)
    BY <1>1, JoinedDecodes
  <1>. QED
    BY <1>1, <1>2, <1>3

LEMMA KeyIsSent ==
  ASSUME NEW k \in DOMAIN Sent
  PROVE  k \in KeyTokens /\ Sent[k] \in Bytes /\ Len(Sent[k]) = Size(k) /\ Content(Sent[k], 1, k)
  <1>1. k \in KeyTokens
    BY DEF Sent, KeyTokens
  <1>2. \A x \in {"ESC", "[", "O", "A", "B", "5", "~", "q"} : x \in Symbols
    BY DEF Symbols, KeyTokens
  <1>3. CASE k = "q"
    <2>1. Sent[k] = <<"q">>
      BY <1>3 DEF Sent
    <2>. QED
      BY <1>1, <1>2, <1>3, <2>1, SizeIs DEF Bytes, Content
  <1>4. CASE k = "esc"
    <2>1. Sent[k] = <<"ESC">>
      BY <1>4 DEF Sent, ESC
    <2>. QED
      BY <1>1, <1>2, <1>4, <2>1, SizeIs DEF Bytes, Content
  <1>5. CASE k = "up"
    <2>1. Sent[k] = <<"ESC", "[", "A">>
      BY <1>5 DEF Sent, ESC
    <2>2. <<"ESC", "[", "A">> \in Bytes
      BY <1>2 DEF Bytes
    <2>. QED
      BY <1>1, <1>5, <2>1, <2>2, SizeIs, 1 + 1 = 2, 1 + 2 = 3 DEF Content
  <1>6. CASE k = "down"
    <2>1. Sent[k] = <<"ESC", "O", "B">>
      BY <1>6 DEF Sent, ESC
    <2>2. <<"ESC", "O", "B">> \in Bytes
      BY <1>2 DEF Bytes
    <2>. QED
      BY <1>1, <1>6, <2>1, <2>2, SizeIs, 1 + 1 = 2, 1 + 2 = 3 DEF Content
  <1>7. CASE k = "pgup"
    <2>1. Sent[k] = <<"ESC", "[", "5", "~">>
      BY <1>7 DEF Sent, ESC
    <2>2. <<"ESC", "[", "5", "~">> \in Bytes
      BY <1>2 DEF Bytes
    <2>. QED
      BY <1>1, <1>7, <2>1, <2>2, SizeIs, 1 + 1 = 2, 1 + 2 = 3, 1 + 3 = 4 DEF Content
  <1>. QED
    BY <1>1, <1>3, <1>4, <1>5, <1>6, <1>7 DEF KeyTokens

LEMMA TypeKeepsKeys ==
  ASSUME KeysInv, NEW k \in DOMAIN Sent, Type(k)
  PROVE  KeysInv'
  <1>1. /\ pending \in Bytes /\ wire \in Bytes /\ keys \in Bytes /\ meant \in Bytes /\ paste \in BOOLEAN
        /\ Prefix(keys, meant) /\ CanDecode(pending \o wire, meant, paste, Len(keys), FALSE, Len(meant))
    BY DEF KeysInv
  <1>2. /\ wire' = wire \o Sent[k] /\ meant' = Append(meant, k)
        /\ pending' = pending /\ paste' = paste /\ keys' = keys
    BY DEF Type
  <1>3. k \in KeyTokens /\ Sent[k] \in Bytes /\ Len(Sent[k]) = Size(k) /\ Content(Sent[k], 1, k)
    BY KeyIsSent
  <1>4. k \in Symbols /\ k \in Tokens
    BY <1>3 DEF Symbols, Tokens
  <1>5. /\ meant' \in Bytes /\ Len(meant') = Len(meant) + 1 /\ Len(meant) \in Nat
        /\ meant'[Len(meant) + 1] = k /\ Prefix(keys, meant')
    BY <1>1, <1>2, <1>4, AppendProperties, LenProperties, AppendKeepsPrefix DEF Bytes
  <1>6. CanDecode(pending \o wire, meant', paste, Len(keys), FALSE, Len(meant))
    BY <1>1, <1>2, <1>4, MeantGrows
  <1>7. CanDecode(Sent[k], meant', FALSE, Len(meant), FALSE, Len(meant'))
    <2>1. Moves(k, FALSE, FALSE, Len(meant), Len(meant'), meant')
      BY <1>3, <1>5 DEF Moves, KeyTokens
    <2>. QED
      BY <1>3, <1>4, <2>1, TokenDecodes
  <1>8. wire' \in Bytes /\ CanDecode(pending \o wire', meant', paste, Len(keys), FALSE, Len(meant'))
    BY <1>1, <1>2, <1>3, <1>6, <1>7, MoreComes
  <1>. QED
    BY <1>1, <1>2, <1>5, <1>8 DEF KeysInv

LEMMA PasteDecodes ==
  ASSUME NEW text \in Bytes, \A i \in 1 .. Len(text) : text[i] # "ESC", NEW w, NEW c
  PROVE  /\ PasteStart \o text \o PasteEnd \in Bytes
         /\ CanDecode(PasteStart \o text \o PasteEnd, w, FALSE, c, FALSE, c)
  <1>1. PasteStart \in Bytes /\ PasteEnd \in Bytes /\ Len(PasteStart) = 6 /\ Len(PasteEnd) = 6
    BY PastesAreBytes DEF PasteStart, PasteEnd
  <1>2. CanDecode(PasteStart, w, FALSE, c, TRUE, c)
    <2>1. Content(PasteStart, 1, "start")
      BY 1 + 1 = 2, 1 + 2 = 3, 1 + 3 = 4, 1 + 4 = 5, 1 + 5 = 6 DEF Content, PasteStart, ESC
    <2>2. "start" \in Tokens /\ Moves("start", FALSE, TRUE, c, c, w)
      BY DEF Tokens, Moves, KeyTokens
    <2>. QED
      BY <1>1, <2>1, <2>2, SizeIs, TokenDecodes
  <1>3. CanDecode(PasteEnd, w, TRUE, c, FALSE, c)
    <2>1. Content(PasteEnd, 1, "stop")
      BY 1 + 1 = 2, 1 + 2 = 3, 1 + 3 = 4, 1 + 4 = 5, 1 + 5 = 6 DEF Content, PasteEnd, ESC
    <2>2. "stop" \in Tokens /\ Moves("stop", TRUE, FALSE, c, c, w)
      BY DEF Tokens, Moves, KeyTokens
    <2>. QED
      BY <1>1, <2>1, <2>2, SizeIs, TokenDecodes
  <1>4. CanDecode(text, w, TRUE, c, TRUE, c)
    BY TextDecodes
  <1>5. PasteStart \o text \in Bytes /\ CanDecode(PasteStart \o text, w, FALSE, c, TRUE, c)
    BY <1>1, <1>2, <1>4, ConcatProperties, JoinedDecodes DEF Bytes
  <1>6. (PasteStart \o text) \o PasteEnd \in Bytes
    BY <1>1, <1>5, ConcatProperties DEF Bytes
  <1>. QED
    BY <1>1, <1>3, <1>5, <1>6, JoinedDecodes

LEMMA PastedIsText ==
  ASSUME MaxPasted \in Nat, NEW text \in Pasted
  PROVE  text \in Bytes /\ \A i \in 1 .. Len(text) : text[i] # "ESC"
  <1>1. PICK n \in 0 .. MaxPasted : text \in [1 .. n -> {"q", "["}]
    BY DEF Pasted
  <1>2. text \in Seq({"q", "["})
    BY <1>1
  <1>3. \A i \in 1 .. Len(text) : text[i] \in {"q", "["}
    BY <1>2, ElementOfSeq
  <1>4. {"q", "["} \subseteq Symbols
    BY DEF Symbols, KeyTokens
  <1>5. text \in Bytes
    BY <1>2, <1>4, SeqMonotonic DEF Bytes
  <1>. QED
    BY <1>3, <1>5

LEMMA PasteKeepsKeys ==
  ASSUME MaxPasted \in Nat, KeysInv, NEW text \in Pasted, Paste(text)
  PROVE  KeysInv'
  <1>. DEFINE sent == PasteStart \o text \o PasteEnd
  <1>1. /\ pending \in Bytes /\ wire \in Bytes
        /\ CanDecode(pending \o wire, meant, paste, Len(keys), FALSE, Len(meant))
    BY DEF KeysInv
  <1>2. UNCHANGED <<pending, paste, keys, meant>>
    BY DEF Paste
  <1>3. sent \in Bytes /\ CanDecode(sent, meant, FALSE, Len(meant), FALSE, Len(meant))
    BY PastedIsText, PasteDecodes
  <1>4. wire' = wire \o sent
    <2>1. wire' = ((wire \o PasteStart) \o text) \o PasteEnd
      BY DEF Paste
    <2>2. /\ PasteStart \in Bytes /\ PasteEnd \in Bytes /\ text \in Bytes
          /\ PasteStart \o text \in Bytes
      BY PastesAreBytes, PastedIsText, ConcatProperties DEF Bytes
    <2>3. (wire \o PasteStart) \o text = wire \o (PasteStart \o text)
      BY <1>1, <2>2, BytesJoin
    <2>4. (wire \o (PasteStart \o text)) \o PasteEnd = wire \o ((PasteStart \o text) \o PasteEnd)
      BY <1>1, <2>2, BytesJoin
    <2>. QED
      BY <2>1, <2>3, <2>4
  <1>. HIDE DEF sent
  <1>5. wire' \in Bytes /\ CanDecode(pending \o wire', meant, paste, Len(keys), FALSE, Len(meant))
    BY <1>1, <1>3, <1>4, MoreComes
  <1>. QED
    BY <1>2, <1>5 DEF KeysInv

\* Reading moves bytes on and drops none.
LEMMA ReadKeepsKeys ==
  ASSUME PendingLimit \in Nat, PendingLimit >= 5, KeysInv, NEW n \in 1 .. Len(wire), Read(n)
  PROVE  KeysInv'
  <1>. DEFINE a == SubSeq(wire, 1, n)
             b == SubSeq(wire, n + 1, Len(wire))
  <1>1. /\ pending \in Bytes /\ wire \in Bytes
        /\ CanDecode(pending \o wire, meant, paste, Len(keys), FALSE, Len(meant))
    BY DEF KeysInv
  <1>2. pending' = Left(pending \o a) /\ wire' = b /\ UNCHANGED <<paste, keys, meant>>
    BY DEF Read
  <1>3. Len(wire) \in Nat /\ n \in Int
    BY <1>1, LenProperties DEF Bytes
  <1>4. a \in Bytes /\ b \in Bytes
    <2>1. \A i \in 1 .. n : i \in 1 .. Len(wire)
      BY <1>3
    <2>2. \A i \in 1 .. n : wire[i] \in Symbols
      BY <1>1, <2>1, ElementOfSeq DEF Bytes
    <2>3. a \in Bytes
      BY <1>3, <2>2, 1 \in Int, SubSeqProperties DEF Bytes
    <2>4. n \in 0 .. Len(wire)
      BY <1>3
    <2>. QED
      BY <1>1, <2>3, <2>4, AfterIs DEF After
  <1>5. a \o b = wire
    <2>1. /\ 1 \in 1 .. Len(wire) + 1 /\ n \in 1 - 1 .. Len(wire)
          /\ Len(wire) \in n .. Len(wire)
      BY <1>3
    <2>2. SubSeq(wire, 1, n) \o SubSeq(wire, n + 1, Len(wire)) = SubSeq(wire, 1, Len(wire))
      BY <1>1, <2>1, ConcatAdjacentSubSeq DEF Bytes
    <2>. QED
      BY <1>1, <2>2, SubSeqFull DEF Bytes
  <1>. HIDE DEF a, b
  <1>6. pending \o a \in Bytes /\ (pending \o a) \o b = pending \o wire /\ pending \o wire \in Bytes
    BY <1>1, <1>4, <1>5, BytesJoin
  <1>7. Prefix(pending \o a, pending \o wire)
    BY <1>4, <1>6, JoinedBegins
  <1>8. Left(pending \o a) = pending \o a
    BY <1>1, <1>6, <1>7, AllIsLeft
  <1>9. pending' \in Bytes /\ wire' \in Bytes /\ pending' \o wire' = pending \o wire
    BY <1>2, <1>4, <1>6, <1>8
  <1>. QED
    BY <1>1, <1>2, <1>9 DEF KeysInv

\* A lone ESC that nothing follows is the Esc key.
LEMMA TimeoutKeepsKeys ==
  ASSUME Slow = FALSE, KeysInv, Timeout
  PROVE  KeysInv'
  <1>1. /\ pending \in Bytes /\ wire \in Bytes /\ keys \in Bytes /\ meant \in Bytes /\ paste \in BOOLEAN
        /\ Prefix(keys, meant) /\ CanDecode(pending \o wire, meant, paste, Len(keys), FALSE, Len(meant))
    BY DEF KeysInv
  <1>2. /\ wire = <<>> /\ pending = <<"ESC">> /\ pending' = <<>> /\ keys' = Append(keys, "esc")
        /\ UNCHANGED <<wire, paste, meant>>
    BY DEF Timeout, ESC
  <1>3. pending \o wire = pending
    BY <1>1, <1>2, ConcatEmptySeq DEF Bytes
  <1>4. Len(pending) = 1 /\ pending[1] = "ESC" /\ pending # <<>>
    BY <1>2
  <1>5. PICK t, o, e : Heads(t, pending, meant, paste, Len(keys), FALSE, Len(meant), o, e)
    BY <1>1, <1>3, <1>4, SomeTokenBegins
  <1>6. /\ t \in Tokens /\ Size(t) <= 1 /\ Content(pending, 1, t)
        /\ Moves(t, paste, o, Len(keys), e, meant)
        /\ CanDecode(After(pending, Size(t)), meant, o, e, FALSE, Len(meant))
    BY <1>4, <1>5 DEF Heads
  <1>7. t = "esc" /\ Size(t) = 1
    BY <1>4, <1>6, SizeIs DEF Tokens, KeyTokens, Content
  <1>8. /\ paste = FALSE /\ o = FALSE /\ e = Len(keys) + 1
        /\ Len(keys) + 1 \in 1 .. Len(meant) /\ meant[Len(keys) + 1] = "esc"
    BY <1>6, <1>7 DEF Moves, KeyTokens
  <1>9. After(pending, 1) = <<>>
    BY <1>4, SubSeqEmpty, 1 < 2, 1 + 1 = 2, 1 \in Int, 2 \in Int DEF After
  <1>10. e = Len(meant)
    BY <1>6, <1>7, <1>9, NothingIsDecoded
  <1>11. "esc" \in Symbols
    BY DEF Symbols, KeyTokens
  <1>12. keys' \in Bytes /\ Len(keys') = Len(keys) + 1 /\ Prefix(keys', meant)
    BY <1>1, <1>2, <1>8, <1>11, AppendProperties, AppendKeepsPrefix DEF Bytes
  <1>13. pending' \o wire' = <<>> /\ pending' \in Bytes
    BY <1>2, EmptySeq, ConcatEmptySeq DEF Bytes
  <1>14. CanDecode(pending' \o wire', meant', paste', Len(keys'), FALSE, Len(meant'))
    BY <1>2, <1>8, <1>10, <1>12, <1>13, NothingDecodes
  <1>. QED
    BY <1>1, <1>2, <1>12, <1>13, <1>14 DEF KeysInv

\* The key decoder keeps enough of an unfinished sequence, and a sequence arrives
\* without a pause.  Both are needed: see KeyDecoder's Slow, and PendingLimit = 4.
KeysAreWhole == PendingLimit >= 5 /\ Slow = FALSE

LEMMA KeysInvHolds ==
  ASSUME KeysAreWhole
  PROVE  KeysSpec => []KeysInv
  <1>0. PendingLimit \in Nat /\ PendingLimit >= 5 /\ Slow = FALSE /\ MaxPasted \in Nat
    BY KeysAssumption DEF KeysAreWhole
  <1>1. ASSUME KeysInv, [KeysNext]_(keyVars)
        PROVE  KeysInv'
    <2>1. ASSUME NEW k \in DOMAIN Sent, Type(k)
          PROVE  KeysInv'
      BY <1>1, <2>1, TypeKeepsKeys
    <2>2. ASSUME NEW text \in Pasted, Paste(text)
          PROVE  KeysInv'
      BY <1>0, <1>1, <2>2, PasteKeepsKeys
    <2>3. CASE Timeout
      BY <1>0, <1>1, <2>3, TimeoutKeepsKeys
    <2>4. ASSUME NEW n \in 1 .. Len(wire), Read(n)
          PROVE  KeysInv'
      BY <1>0, <1>1, <2>4, ReadKeepsKeys
    <2>5. CASE Decode
      BY <1>0, <1>1, <2>5, DecodeKeepsKeys
    <2>6. CASE UNCHANGED keyVars
      BY <1>1, <2>6 DEF KeysInv, keyVars
    <2>. QED
      BY <1>1, <2>1, <2>2, <2>3, <2>4, <2>5, <2>6 DEF KeysNext, KeysTick
  <1>. QED
    BY <1>1, FirstKeys, PTL DEF KeysSpec

\* However the bytes are split, the dashboard gets the keys that were typed, in
\* their order and nothing of what was pasted, and all of them when nothing is
\* left to read (terminal.go:110-191).
THEOREM EveryKeyIsMeant ==
  ASSUME KeysAreWhole
  PROVE  KeysSpec => []DecodedIsMeant
  <1>1. KeysInv => DecodedIsMeant
    <2>. SUFFICES ASSUME KeysInv
                  PROVE  DecodedIsMeant
      OBVIOUS
    <2>1. /\ keys \in Bytes /\ meant \in Bytes /\ Prefix(keys, meant)
          /\ CanDecode(pending \o wire, meant, paste, Len(keys), FALSE, Len(meant))
      BY DEF KeysInv
    <2>2. Len(keys) \in Nat /\ Len(meant) \in Nat /\ Len(keys) <= Len(meant)
      BY <2>1, LenProperties DEF Bytes, Prefix
    <2>3. keys = SubSeq(meant, 1, Len(keys))
      BY <2>1, PrefixIsSubSeq
    <2>4. ASSUME wire = <<>>, pending = <<>>
          PROVE  keys = meant
      <3>1. Len(keys) = Len(meant)
        <4>1. pending \o wire = <<>>
          BY <2>4, EmptySeq, ConcatEmptySeq
        <4>2. CanDecode(<<>>, meant, paste, Len(keys), FALSE, Len(meant))
          BY <2>1, <4>1
        <4>. QED
          BY <4>2, NothingIsDecoded
      <3>. QED
        BY <2>1, <2>3, <3>1, SubSeqFull DEF Bytes
    <2>. QED
      BY <2>2, <2>3, <2>4 DEF DecodedIsMeant
  <1>. QED
    BY <1>1, KeysInvHolds, PTL

\* Once all has been read, no paste is still open, so that no later key is
\* discarded (README.md:118).
THEOREM NoPasteStaysOpen ==
  ASSUME KeysAreWhole
  PROVE  KeysSpec => []KeysAreHeard
  <1>1. KeysInv => KeysAreHeard
    <2>1. <<>> \o <<>> = <<>>
      BY EmptySeq, ConcatEmptySeq
    <2>2. KeysInv /\ wire = <<>> /\ pending = <<>> => paste = FALSE
      BY <2>1, NothingIsDecoded DEF KeysInv
    <2>. QED
      BY <2>2 DEF KeysAreHeard
  <1>. QED
    BY <1>1, KeysInvHolds, PTL
=============================================================================
