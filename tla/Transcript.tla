----------------------------- MODULE Transcript -----------------------------
(***************************************************************************)
(* Log records as lines: the dashboard's activity (cmd/brb/dashboard.go)   *)
(* and the console (cmd/brb/console.go).  Both join the fragments of live  *)
(* agent transcripts, which come from several streams and may end anywhere *)
(* in a line.  With them, the activity view: how it follows the newest     *)
(* line, is scrolled, and is drawn at any height.                          *)
(*                                                                         *)
(* Abstractions.  A fragment is one piece of text or one line break: the   *)
(* code treats a longer one as these in turn, and none is empty.  A line   *)
(* keeps who wrote it and its pieces, and takes a row for each piece;      *)
(* time, attributes, clipping and colours are left out.                    *)
(* Names differ from those of Dashboard and KeyDecoder, the other parts of *)
(* the session, so that one module can speak of all three.                 *)
(***************************************************************************)
EXTENDS Screen, Sequences, FiniteSets

CONSTANTS
  Streams,       \* the agents' transcript streams
  LineBreak,     \* the fragment "\n"
  Event,         \* the source of a record that is not transcript
  Bodies,        \* rows a terminal has for the activity
  MaxLog         \* bound: log records

ASSUME TranscriptAssumption ==
  /\ Event \notin Streams
  /\ Bodies \subseteq Nat /\ MaxLog \in Nat
  /\ Far >= MaxLog

VARIABLES
  activity, console,  \* the two sinks; a run of the bot uses one of them
  viewed,  \* the activity is on the screen, and
  scroll,  \* scrolled up by so many rows
  log      \* ghost: all records

transcriptVars == <<activity, console, viewed, scroll, log>>

-----------------------------------------------------------------------------
(* The sinks *)

\* A sink: its lines, whether the last one is open, and the stream it waits for.
NoLines == [lines |-> <<>>, open |-> FALSE, key |-> Event]

NewLine(from) == [of |-> from, text |-> <<>>]

\* addActivity drops the oldest lines.
Kept(lines) ==
  IF Len(lines) > ActivityLimit
  THEN SubSeq(lines, Len(lines) - ActivityLimit + 1, Len(lines)) ELSE lines

\* The piece joins the last line.
Joined(lines, piece) ==
  IF piece = LineBreak THEN lines
  ELSE [lines EXCEPT ![Len(lines)].text = Append(@, piece)]

\* A fragment begins a line of activity unless the last one is open for it.
Begins(sink, from) == ~(sink.open /\ sink.key = from /\ sink.lines # <<>>)

\* Mutant of Noted: an event leaves the stream open.
NotedOpen(sink) == [sink EXCEPT !.lines = Kept(Append(@, NewLine(Event)))]

\* dashboardHandler.Handle, for a record that is not transcript ...
Noted(sink) ==
  [sink EXCEPT !.lines = Kept(Append(@, NewLine(Event))), !.open = FALSE]

\* ... and for a fragment.
Said(sink, from, piece) ==
  [lines |-> Joined(IF Begins(sink, from) THEN Kept(Append(sink.lines, NewLine(from)))
                    ELSE sink.lines, piece),
   open |-> piece # LineBreak, key |-> from]

\* console.Handle, for a record that is not transcript ...
Written(sink) ==
  [sink EXCEPT !.lines = Append(@, NewLine(Event)), !.open = FALSE]

\* ... and for a fragment: a line that is open for another stream is ended.
Printed(sink, from, piece) ==
  LET open == sink.open /\ sink.key = from
  IN [lines |-> Joined(IF open THEN sink.lines ELSE Append(sink.lines, NewLine(from)), piece),
      open |-> piece # LineBreak, key |-> from]

\* addActivity: the view stays where it was scrolled to.
Scrolled(adds) == IF adds /\ viewed /\ scroll > 0 THEN scroll + 1 ELSE scroll

Note ==
  /\ Len(log) < MaxLog
  /\ activity' = Noted(activity) /\ console' = Written(console)
  /\ log' = Append(log, [of |-> Event, piece |-> LineBreak])
  /\ scroll' = Scrolled(TRUE)
  /\ UNCHANGED viewed

Say(stream, piece) ==
  /\ Len(log) < MaxLog
  /\ activity' = Said(activity, stream, piece)
  /\ console' = Printed(console, stream, piece)
  /\ log' = Append(log, [of |-> stream, piece |-> piece])
  /\ scroll' = Scrolled(Begins(activity, stream))
  /\ UNCHANGED viewed

-----------------------------------------------------------------------------
(* The activity view *)

\* Rows the activity takes, wrapped: each is a row of a line.
Rows ==
  Cardinality(UNION {{i} \X (1..LargerOf(1, Len(activity.lines[i].text))) :
                       i \in DOMAIN activity.lines})

\* Mutant of ActivityScroll: the position is limited by the lines.
UpToTheLast(body) == SmallerOf(scroll, Rows)

\* dashboard.render, with so many rows for the body: the position after it ...
ActivityScroll(body) == SmallerOf(scroll, LargerOf(0, Rows - body))

\* ... and the rows that are drawn, first to last.
ActivityWindow(body) ==
  LET end == LargerOf(0, Rows - ActivityScroll(body))
  IN [first |-> LargerOf(0, end - body) + 1, last |-> end]

Render(body) ==
  /\ viewed /\ activity.lines # <<>>
  /\ scroll' = ActivityScroll(body)
  /\ UNCHANGED <<activity, console, viewed, log>>

\* dashboard.key in the activity view, and the keys that enter or leave it.
PressInActivity(key) ==
  /\ CASE key = "up"   -> scroll < Far /\ scroll' = scroll + 1
       [] key = "down" -> scroll' = LargerOf(0, scroll - 1)
       [] key = "g"    -> scroll' = Far
       [] key = "G"    -> scroll' = 0
       [] key = "view" -> scroll' = 0
  /\ IF key = "view" THEN viewed' = ~viewed ELSE viewed /\ UNCHANGED viewed
  /\ UNCHANGED <<activity, console, log>>

-----------------------------------------------------------------------------

TranscriptInit ==
  /\ activity = NoLines /\ console = NoLines /\ log = <<>>
  /\ viewed = FALSE /\ scroll = 0

TranscriptNext ==
  \/ Note
  \/ \E s \in Streams, piece \in {Len(log) + 1, LineBreak} : Say(s, piece)
  \/ \E body \in Bodies : Render(body)
  \/ \E key \in {"up", "down", "g", "G", "view"} : PressInActivity(key)

TranscriptSpec == TranscriptInit /\ [][TranscriptNext]_transcriptVars

-----------------------------------------------------------------------------
(* Properties *)

\* Where a line begins, and the records of the line that begins at i.
Starts == {i \in DOMAIN log : i = 1 \/ log[i - 1].piece = LineBreak \/ log[i - 1].of # log[i].of}

LineFrom(i) == {j \in DOMAIN log : i <= j /\ \A k \in (i + 1)..j : k \notin Starts}

\* The place of i among the numbers of S.
Place(i, S) == Cardinality({j \in S : j <= i})

\* The text lists the pieces of these records in the order of the log.
ListsPieces(text, records) ==
  /\ Len(text) = Cardinality(records)
  /\ \A j \in records : text[Place(j, records)] = log[j].piece

\* Both sinks show the same lines: what one stream said between two line breaks
\* with nobody else between, in the order of the log, and the events; the
\* dashboard shows the newest of them (dashboard.go:118-133, console.go:45-79).
TranscriptIsFaithful ==
  /\ Len(console.lines) = Cardinality(Starts)
  /\ \A i \in Starts :
       LET line == console.lines[Place(i, Starts)]
       IN /\ line.of = log[i].of
          /\ ListsPieces(line.text, {j \in LineFrom(i) : log[j].piece # LineBreak})
  /\ activity.lines = Kept(console.lines)

\* What is drawn ends with the newest row unless the view was scrolled, and fills
\* the screen as far as there is activity, wherever it was scrolled to before the
\* terminal was resized (dashboard.go:353-364).
ActivityFills ==
  activity.lines # <<>> => \A body \in Bodies :
    LET w == ActivityWindow(body)
    IN /\ w.last - w.first + 1 = SmallerOf(body, Rows)
       /\ scroll = 0 => w.last = Rows
=============================================================================
