----------------------------- MODULE Dashboard -----------------------------
(***************************************************************************)
(* What the operator sees of a run: the terminal session of cmd/brb        *)
(* (runDashboard, dashboardSession), the dashboard it draws, the snapshots *)
(* the engine reports to it (progress.go), and the history of verified     *)
(* receipts in the same record (History).                                  *)
(*                                                                         *)
(* Abstractions.  A record is its pending job, its last receipt and its    *)
(* history; the engine does what changes those.  Text is counted in rows:  *)
(* the detail of a release takes DetailRows.  Page keys are arrow keys.    *)
(* The activity view is Transcript's; the overview shows its last lines.   *)
(***************************************************************************)
EXTENDS History, Screen

CONSTANTS
  None,
  Heights,      \* heights of the terminal
  DetailRows,
  Times,        \* what the clock may say, in any order
  MaxReleases,  \* bound: releases of a record
  MaxScroll     \* bound: rows scrolled by single keys

ASSUME ConstantsAssumption ==
  /\ DetailRows \in Nat /\ Heights \subseteq Nat \ {0}
  /\ Times \subseteq Nat \ {Unknown}
  /\ Far > DetailRows

\* What a record may list when the run begins.
FirstReleases ==
  {[id |-> <<"release", 1>>, status |-> "released"]}
    \union [id : {<<"job", 1>>, <<"job", 2>>}, status : {"pending"}]

ASSUME NoneAssumption == \A S \in SUBSET FirstReleases : None # S

VARIABLES
  saved,     \* the record on disk
  state,     \* the engine's copy, None before it was read
  engine,    \* Run: "begin", "cycle", "timer" or "done"
  failed,    \* the last cycle failed; in the end: Run returned an error
  once,      \* the run is one cycle; never changes
  canceled,  \* the session's context
  tty,       \* the terminal: "open", or "gone"
  session,   \* "open", or "ended" with the terminal restored
  progress,  \* the releases of the last snapshot
  ui,        \* the dashboard's view and selection
  initial,   \* the releases of the first snapshot, None before it
  blind,     \* ghost: the first snapshot came without a record
  start,     \* ghost: the releases when the run began; never changes
  summary    \* what stays on the terminal, None before the end

record  == <<saved, state, engine, failed>>
shown   == <<progress, ui, initial, blind>>
ending  == <<canceled, tty, session, summary>>
vars    == <<record, once, start, shown, ending>>

-----------------------------------------------------------------------------
(* Snapshots *)

\* engine.report: the last receipt, then the pending job.
Releases(s) ==
  IF s = None THEN <<>>
  ELSE (IF s.last = 0 THEN <<>> ELSE <<[id |-> <<"release", s.last>>, status |-> "released"]>>)
       \o (IF s.job = 0 THEN <<>> ELSE <<[id |-> <<"job", s.job>>, status |-> s.phase]>>)

\* The dashboard lists the newest first.
At(list, selected) == list[Len(list) - selected]

ElementsOf(s) == {s[i] : i \in DOMAIN s}

Clamped(selected, list) == LargerOf(0, SmallerOf(selected, Len(list) - 1))

\* Mutant of Followed: the selection stays where it is.
FollowedByPosition(u, old, new) == [u EXCEPT !.selected = Clamped(@, new)]

\* dashboard.update: the release that is open, or browsed to, stays selected.
Followed(u, old, new) ==
  LET kept == {i \in DOMAIN new :
                 /\ u.detail \/ u.selected > 0
                 /\ Len(old) > u.selected
                 /\ new[i].id = At(old, u.selected).id}
  IN [u EXCEPT !.selected =
        Clamped(IF kept = {} THEN @ ELSE Len(new) - (CHOOSE i \in kept : TRUE), new)]

\* Mutant of FirstSeen: every snapshot is taken for the first.
LastSeen(new) == ElementsOf(new)

FirstSeen(new) == IF initial = None THEN ElementsOf(new) ELSE initial

Update(new) ==
  /\ progress' = new
  /\ ui' = Followed(ui, progress, new)
  /\ initial' = FirstSeen(new)

-----------------------------------------------------------------------------
(* The engine *)

\* ReadState and the report after it; or its failure, reported as "paused" with
\* the copy of the cycle before.
Cycle ==
  /\ engine = "begin" \/ (engine = "timer" /\ ~once)
  /\ ~canceled
  /\ \/ /\ engine' = "cycle" /\ state' = saved
        /\ failed' = FALSE
        /\ Update(Releases(saved))
        /\ UNCHANGED blind
     \/ /\ engine' = "timer" /\ failed' = TRUE
        /\ Update(Releases(state))
        /\ blind' = (blind \/ initial = None)
        /\ UNCHANGED state
  /\ UNCHANGED <<saved, once, start, ending>>

\* engine.save: done and reported; or not, which ends the cycle, with either
\* record in place, and is reported unless the run was cancelled.
Save(s) ==
  /\ engine = "cycle"
  /\ state' = s
  /\ \/ saved' = s /\ Update(Releases(s)) /\ UNCHANGED <<engine, failed>>
     \/ /\ saved' \in {saved, s} /\ engine' = "timer" /\ failed' = TRUE
        /\ IF canceled THEN UNCHANGED <<progress, ui, initial>> ELSE Update(Releases(s))
  /\ UNCHANGED <<once, start, blind, ending>>

OpenJob ==
  /\ state # None /\ state.job = 0 /\ state.last < MaxReleases
  /\ Save([state EXCEPT !.job = state.last + 1, !.phase = "pending"])

Advance ==
  /\ state # None /\ state.job # 0 /\ state.phase = "pending"
  /\ Save([state EXCEPT !.phase = "publish"])

\* engine.finish.  ever is a ghost: all that was verified.
Finish(at) ==
  LET n == state.job
      done == RecordVerified(state, [tag |-> n, commit |-> n], at)
  IN /\ state # None /\ state.job # 0
     /\ Save([done EXCEPT !.last = n, !.releasedAt = at, !.job = 0, !.phase = "none",
                          !.ever = @ \union {Receipt(at, [tag |-> n, commit |-> n])}])

\* The cycle ends for another reason, well or badly.
EndCycle ==
  /\ engine = "cycle"
  /\ engine' = "timer" /\ failed' \in BOOLEAN
  /\ UNCHANGED <<saved, state, once, start, shown, ending>>

\* Run returns: after one cycle, when that failed for good, or when its context
\* was cancelled.
Return ==
  /\ engine # "done"
  /\ canceled \/ (engine = "timer" /\ (once \/ failed))
  /\ engine' = "done"
  /\ failed' = (failed \/ canceled)
  /\ UNCHANGED <<saved, state, once, start, shown, ending>>

-----------------------------------------------------------------------------
(* Drawing *)

\* Rows above the body, outside a detail.
Header(h) == 7 + (IF h >= 12 THEN 1 ELSE 0) + (IF h >= 18 THEN 4 ELSE 0)

InDetail == ui.detail /\ progress # <<>>

\* Rows for the body, above the footer.
Remaining(h) == LargerOf(0, h - (IF InDetail THEN 2 ELSE Header(h)) - 1)

\* The scroll position after drawing.
DrawnScroll(h) ==
  IF InDetail THEN SmallerOf(ui.scroll, LargerOf(0, DetailRows - Remaining(h))) ELSE ui.scroll

\* The rows of the detail that are drawn, first to last.
Window(h) ==
  [first |-> DrawnScroll(h) + 1, last |-> SmallerOf(DetailRows, DrawnScroll(h) + Remaining(h))]

\* Mutant of ListLimit: the overview gives half of its rows away, however few.
AlwaysHalf(h) == IF ui.view = 0 THEN Remaining(h) \div 2 ELSE Remaining(h)

\* Rows for the list of releases.
ListLimit(h) ==
  IF ui.view = 0 /\ Remaining(h) >= 5 THEN LargerOf(2, Remaining(h) \div 2) ELSE Remaining(h)

\* releaseRows: the positions listed.
Listed(h) ==
  LET from == LargerOf(0, ui.selected - ListLimit(h) + 1)
  IN from..(SmallerOf(Len(progress), from + ListLimit(h)) - 1)

\* Rows of an overview or a list: releases (or a line that there are none), and
\* the newest of n lines of activity where three rows are left.
ListRows(h, n) ==
  LET list == IF ListLimit(h) = 0 THEN 0 ELSE LargerOf(1, Cardinality(Listed(h)))
      space == Remaining(h) - list - 2
  IN IF ui.view = 0 /\ Remaining(h) - list >= 3
     THEN list + 2 + SmallerOf(space, n) ELSE list

-----------------------------------------------------------------------------
(* Keys *)

Keys == {"1", "2", "3", "tab", "enter", "esc", "down", "up", "g", "G", "q"}

ViewOf == [key \in {"1", "2", "3"} |-> IF key = "1" THEN 0 ELSE IF key = "2" THEN 1 ELSE 2]

\* dashboard.key: in a detail, in a list, and anywhere.
ScrollDetail(u, key) ==
  CASE key = "down" -> [u EXCEPT !.scroll = @ + 1]
    [] key = "up"   -> [u EXCEPT !.scroll = LargerOf(0, @ - 1)]
    [] key = "g"    -> [u EXCEPT !.scroll = 0]
    [] key = "G"    -> [u EXCEPT !.scroll = Far]
    [] OTHER        -> u

Browse(u, key) ==
  CASE key = "down" -> [u EXCEPT !.selected = Clamped(@ + 1, progress)]
    [] key = "up"   -> [u EXCEPT !.selected = LargerOf(0, @ - 1)]
    [] key = "g"    -> [u EXCEPT !.selected = 0]
    [] key = "G"    -> [u EXCEPT !.selected = LargerOf(0, Len(progress) - 1)]
    [] key = "enter" /\ progress # <<>> -> [u EXCEPT !.detail = TRUE, !.scroll = 0]
    [] OTHER        -> u

Pressed(u, key) ==
  CASE key = "q" -> [u EXCEPT !.stopping = TRUE]
    [] key = "esc" \/ (key = "enter" /\ u.detail) -> [u EXCEPT !.detail = FALSE, !.scroll = 0]
    [] u.detail -> ScrollDetail(u, key)
    [] key \in DOMAIN ViewOf -> [u EXCEPT !.view = ViewOf[key], !.scroll = 0]
    [] key = "tab" -> [u EXCEPT !.view = (@ + 1) % 3, !.scroll = 0]
    [] u.view = 2 -> u
    [] OTHER -> Browse(u, key)

-----------------------------------------------------------------------------
(* The session *)

Press(key) ==
  /\ session = "open" /\ tty = "open"
  /\ ui' = Pressed(ui, key)
  /\ ui'.scroll \in 0..MaxScroll \union {Far} \/ ui'.scroll < ui.scroll
  /\ canceled' = (canceled \/ key = "q")
  /\ UNCHANGED <<record, once, start, progress, initial, blind, tty, session, summary>>

\* Mutant of HungUp: only bytes are looked for.
Unheard == FALSE

\* The poll finds that the terminal is gone.
HungUp == tty = "gone"

\* A tick beside its keys: poll, notice the end of the context, draw, with a
\* write that may fail once the terminal is gone.
Tick(h) ==
  /\ session = "open"
  /\ ui' = [ui EXCEPT !.scroll = DrawnScroll(h), !.stopping = @ \/ canceled \/ HungUp]
  /\ canceled' = (canceled \/ HungUp)
  /\ UNCHANGED <<record, once, start, progress, initial, blind, tty, session, summary>>

Outcome == IF failed \/ ui.stopping THEN "stopped" ELSE "complete"

\* The engine's result is received: the terminal is restored, and the summary
\* lists the releases that changed.
Collect ==
  /\ session = "open" /\ engine = "done"
  /\ session' = "ended"
  /\ summary' = [status |-> Outcome,
                 changed |-> {f \in ElementsOf(progress) : initial = None \/ f \notin initial}]
  /\ UNCHANGED <<record, once, start, shown, canceled, tty>>

\* A signal, and the end of the terminal.
Signal ==
  /\ session = "open" /\ ~canceled
  /\ canceled' = TRUE
  /\ UNCHANGED <<record, once, start, shown, tty, session, summary>>

HangUp ==
  /\ session = "open" /\ tty = "open"
  /\ tty' = "gone"
  /\ UNCHANGED <<record, once, start, shown, canceled, session, summary>>

-----------------------------------------------------------------------------

\* Records of a new bot, with a receipt, of an older version, with a job.
Init ==
  /\ saved \in
       {[last |-> n, releasedAt |-> t, job |-> j, phase |-> IF j = 0 THEN "none" ELSE "pending",
         history |-> IF legacy THEN <<>> ELSE <<Receipt(t, [tag |-> n, commit |-> n])>>,
         ever |-> IF n = 0 THEN {} ELSE {Receipt(t, [tag |-> n, commit |-> n])}] :
          n \in {0, 1}, t \in Times \union {Unknown}, j \in {0, 1, 2}, legacy \in BOOLEAN}
  /\ saved.job \in {0, saved.last + 1}
  /\ saved.last = 0 => saved.history = <<>> /\ saved.releasedAt = Unknown
  /\ saved.history # <<>> => saved.releasedAt # Unknown
  /\ state = None /\ engine = "begin" /\ failed = FALSE /\ once \in BOOLEAN
  /\ canceled = FALSE /\ tty = "open" /\ session = "open" /\ summary = None
  /\ ui = [view |-> 0, selected |-> 0, scroll |-> 0, detail |-> FALSE, stopping |-> FALSE]
  /\ progress = <<>> /\ initial = None /\ blind = FALSE /\ start = ElementsOf(Releases(saved))

Next ==
  \/ Cycle \/ OpenJob \/ Advance \/ EndCycle \/ Return
  \/ \E at \in Times : Finish(at)
  \/ \E key \in Keys : Press(key)
  \/ \E h \in Heights : Tick(h)
  \/ Collect \/ Signal \/ HangUp

Spec == Init /\ [][Next]_vars

\* The ticker ticks, the result is received, and a cancelled engine returns.
FairSpec ==
  /\ Spec
  /\ WF_vars(\E h \in Heights : Tick(h)) /\ WF_vars(Collect)
  /\ WF_vars(canceled /\ Return)

-----------------------------------------------------------------------------
(* Properties *)

\* The release that is open, or that was browsed to, stays selected while it is
\* listed, whatever a snapshot adds before it or takes away; without browsing
\* the newest one is selected (dashboard.go:63-75).
OpenStays ==
  [][LET kept == {i \in DOMAIN progress' : progress # <<>> /\ progress'[i].id = At(progress, ui.selected).id}
     IN progress' # progress =>
          /\ (ui.detail \/ ui.selected > 0) /\ kept # {} =>
               \A i \in kept : At(progress', ui'.selected) = progress'[i]
          /\ ~ui.detail /\ ui.selected = 0 => ui'.selected = 0]_vars

\* At every height the body leaves room for the footer, the selected release is
\* among those listed wherever there is a row for it, and a detail leaves no row
\* empty that it could fill, however it was scrolled before the terminal was
\* resized (dashboard.go:237,
\* 271-275, 366-375).
FrameFits ==
  \A h \in Heights :
    IF InDetail
    THEN /\ Window(h).last - Window(h).first + 1 = SmallerOf(DetailRows, Remaining(h))
         /\ Window(h).first \in 1..(DetailRows + 1)
    ELSE ui.view # 2 =>
         /\ \A n \in 0..ActivityLimit : ListRows(h, n) <= Remaining(h)
         /\ Remaining(h) > 0 /\ progress # <<>> => ui.selected \in Listed(h)

\* `brb history` lists the latest receipts of all that were verified, in order
\* and each once, though the clock may step back between two releases and the
\* record began without a history (history.go:21-98, README.md:131).
HistoryIsLatest ==
  LET h == VerifiedHistory(saved)
      newest == {r \in saved.ever : Cardinality({q \in saved.ever : Before(r, q)}) < HistoryLimit}
  IN /\ ElementsOf(h) = newest /\ Len(h) = Cardinality(newest)
     /\ \A i, j \in DOMAIN h : i < j => Before(h[i], h[j])

\* The summary says "complete" only of a single cycle that ended well and that
\* nobody stopped, and lists exactly what is not as it was when the run began, unless
\* the record could not be read then (dashboard.go:43-48, 449-474,
\* README.md:121).
SummaryIsTrue ==
  session = "ended" =>
    /\ summary.status = "complete" => once /\ ~failed /\ ~ui.stopping
    /\ ~blind => \A f \in ElementsOf(progress) : (f \in summary.changed) = (f \notin start)

\* A key, a signal or the loss of the terminal ends the session, with the engine
\* stopped before (terminal.go:70-107, README.md:118).
QuitEnds == ui.stopping \/ canceled \/ tty = "gone" ~> session = "ended"
=============================================================================
