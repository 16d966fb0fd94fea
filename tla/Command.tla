------------------------------- MODULE Command -------------------------------
(***************************************************************************)
(* One command run for the engine (internal/osrun/run.go): the processes   *)
(* it starts, the context that may end it, and its output, which is copied *)
(* from a pipe into a buffer that keeps the last bytes.                    *)
(*                                                                         *)
(* Abstractions.  Bytes are numbered in the order they are written; every  *)
(* odd one starts a two-byte character.  Every live process holds the pipe *)
(* (none closes its output early).  Standard error is a second pipe        *)
(* with the same life.  os/exec is external and modelled by what Run       *)
(* relies on: Wait reaps the leader, the watcher calls Cancel, a copier    *)
(* reads the pipe until nobody can write to it any more.                   *)
(***************************************************************************)
EXTENDS Integers, Sequences

CONSTANTS
  Leader,     \* the process Run starts
  Members,    \* processes that stay in its group
  Daemons,    \* processes that leave it
  Capacity,   \* bytes that stdout keeps
  MaxWritten  \* bound: bytes written

ASSUME ConstantsAssumption ==
  /\ Leader \notin Members \union Daemons /\ Members \intersect Daemons = {}
  /\ Capacity \in Nat /\ MaxWritten \in Nat

Group == {Leader} \union Members
Procs == Group \union Daemons

VARIABLES
  pc,        \* Run: "start", "running", "reaped", "draining", "done"
  canceled,  \* its context was
  watch,     \* the watcher of the context: "watching", "killed" or "gone"
  proc,      \* each process: "absent", "alive" or "dead"
  exit,      \* the leader's: "none", "ok", "failed" or "killed"
  written,   \* bytes that entered the pipe
  copied,    \* bytes that left it for the tail
  closed,    \* Run has closed its end of the pipe
  tail,      \* stdout, a Tail
  result     \* what Run returned

vars == <<pc, canceled, watch, proc, exit, written, copied, closed, tail, result>>

Alive == {p \in Procs : proc[p] = "alive"}

-----------------------------------------------------------------------------
(* Tail *)

\* The last n elements of s (all of them if it is shorter).
Newest(s, n) == IF Len(s) > n THEN SubSeq(s, Len(s) - n + 1, Len(s)) ELSE s

\* Mutant of Written: only a write larger than the buffer counts as a cut.
WrittenCareless(t, p) ==
  [bytes |-> Newest(t.bytes \o p, Capacity),
   truncated |-> t.truncated \/ Len(p) > Capacity]

\* Tail.Write
Written(t, p) ==
  LET q == Newest(p, Capacity)
      kept == Newest(t.bytes, Capacity - Len(q))
  IN [bytes |-> kept \o q,
      truncated |-> t.truncated \/ Len(p) > Capacity \/ Len(t.bytes) + Len(q) > Capacity]

RuneStart(b) == b % 2 = 1

\* Tail.Text: not from the middle of a character.
Text(t) == IF t.bytes # <<>> /\ ~RuneStart(t.bytes[1]) THEN Tail(t.bytes) ELSE t.bytes

Chunk(n) == [i \in 1..n |-> copied + i]

-----------------------------------------------------------------------------
(* Run and os/exec *)

Return(error, text) ==
  /\ pc' = "done"
  /\ result' = [error |-> error, text |-> text]

\* cmd.Start refuses a context that is done, and may fail.
Refuse ==
  /\ pc = "start"
  /\ \E error \in {"canceled", "start"} :
       (error = "canceled") = canceled /\ Return(error, <<>>)
  /\ UNCHANGED <<canceled, watch, proc, exit, written, copied, closed, tail>>

Start ==
  /\ pc = "start" /\ ~canceled
  /\ pc' = "running"
  /\ proc' = [proc EXCEPT ![Leader] = "alive"]
  /\ UNCHANGED <<canceled, watch, exit, written, copied, closed, tail, result>>

Reap ==
  /\ pc = "running" /\ proc[Leader] = "dead"
  /\ pc' = "reaped"
  /\ UNCHANGED <<canceled, watch, proc, exit, written, copied, closed, tail, result>>

\* Mutant of Killed: the signal goes to the leader alone.
LeaderOnly == {Leader}

\* Whom Kill reaches: the whole group.
Killed == Group

\* The watcher sees the end of the context and calls Kill, which finds nobody
\* only after the leader was reaped and when no member is left.
Kill ==
  /\ pc \in {"running", "reaped"} /\ canceled /\ watch = "watching"
  /\ watch' = IF pc = "running" \/ Alive \intersect Group # {} THEN "killed" ELSE "gone"
  /\ proc' = [p \in Procs |-> IF p \in Alive \intersect Killed THEN "dead" ELSE proc[p]]
  /\ exit' = IF Leader \in Alive THEN "killed" ELSE exit
  /\ UNCHANGED <<pc, canceled, written, copied, closed, tail, result>>

\* Wait has the watcher's answer; a watcher that sees both at once may choose.
Watched ==
  /\ pc = "reaped"
  /\ pc' = "draining"
  /\ UNCHANGED <<canceled, watch, proc, exit, written, copied, closed, tail, result>>

Copy(n) ==
  /\ pc # "done" /\ ~closed
  /\ n \in 1..(written - copied)
  /\ tail' = Written(tail, Chunk(n))
  /\ copied' = copied + n
  /\ UNCHANGED <<pc, canceled, watch, proc, exit, written, closed, result>>

EndOfFile == Alive = {} /\ copied = written

\* Mutant of TimeIsUp: no WaitDelay.
Patient == FALSE

\* A second has passed since the leader was reaped or the group was killed.
TimeIsUp == pc = "draining" \/ (pc \in {"running", "reaped"} /\ watch = "killed")

GiveUp ==
  /\ TimeIsUp /\ ~closed /\ ~EndOfFile
  /\ closed' = TRUE
  /\ UNCHANGED <<pc, canceled, watch, proc, exit, written, copied, tail, result>>

WaitError == IF exit # "ok" THEN "exit"
             ELSE IF watch = "killed" THEN "canceled"
             ELSE IF closed THEN "delay" ELSE "none"

\* Mutant of Cut: output that exceeded the limit is returned all the same.
Uncut == FALSE

Cut == tail.truncated

Finish ==
  /\ pc = "draining" /\ (closed \/ EndOfFile)
  /\ IF WaitError = "none" /\ Cut THEN Return("exceeded", <<>>)
     ELSE Return(WaitError, Text(tail))
  /\ UNCHANGED <<canceled, watch, proc, exit, written, copied, closed, tail>>

-----------------------------------------------------------------------------
(* The caller's context, and the processes *)

Cancel ==
  /\ ~canceled /\ pc # "done"
  /\ canceled' = TRUE
  /\ UNCHANGED <<pc, watch, proc, exit, written, copied, closed, tail, result>>

\* A process that has left the group has children outside it.
Fork(p, q) ==
  /\ p \in Alive /\ proc[q] = "absent" /\ (p \in Daemons => q \in Daemons)
  /\ proc' = [proc EXCEPT ![q] = "alive"]
  /\ UNCHANGED <<pc, canceled, watch, exit, written, copied, closed, tail, result>>

Write(p) ==
  /\ p \in Alive /\ written < MaxWritten /\ ~closed
  /\ written' = written + 1
  /\ UNCHANGED <<pc, canceled, watch, proc, exit, copied, closed, tail, result>>

Exit(p) ==
  /\ p \in Alive
  /\ proc' = [proc EXCEPT ![p] = "dead"]
  /\ IF p = Leader THEN exit' \in {"ok", "failed"} ELSE UNCHANGED exit
  /\ UNCHANGED <<pc, canceled, watch, written, copied, closed, tail, result>>

-----------------------------------------------------------------------------

Init ==
  /\ pc = "start" /\ canceled = FALSE /\ watch = "watching"
  /\ proc = [p \in Procs |-> "absent"] /\ exit = "none"
  /\ written = 0 /\ copied = 0 /\ closed = FALSE
  /\ tail = [bytes |-> <<>>, truncated |-> FALSE]
  /\ result = [error |-> "none", text |-> <<>>]

Copier == \E n \in 1..MaxWritten : Copy(n)

Runner == Refuse \/ Start \/ Reap \/ Watched \/ GiveUp \/ Finish

Next ==
  \/ Runner \/ Kill \/ Copier \/ Cancel
  \/ \E p, q \in Procs : Fork(p, q)
  \/ \E p \in Procs : Write(p) \/ Exit(p)

Spec == Init /\ [][Next]_vars

\* Run's goroutines take their steps; no process has to end on its own.
FairSpec == Spec /\ WF_vars(Runner) /\ WF_vars(Kill) /\ WF_vars(Copier)

-----------------------------------------------------------------------------
(* Properties *)

\* The buffer holds exactly the last bytes that were copied, up to its capacity,
\* and knows when there were more, whatever the sizes of the writes
\* (run.go:24-38); its text never begins inside a character (run.go:39-47).
TailIsLatest ==
  /\ tail.bytes = Newest([i \in 1..copied |-> i], Capacity)
  /\ tail.truncated = (copied > Capacity)
  /\ Text(tail) # <<>> => RuneStart(Text(tail)[1])

\* Output that is returned without an error is everything the command and its
\* descendants wrote, the leader succeeded, and nobody can add to it: the engine
\* decides on JSON, commits and tags it read this way (run.go:72-91).
SuccessIsComplete ==
  pc = "done" /\ result.error = "none" =>
    /\ exit = "ok" /\ Alive = {}
    /\ result.text = [i \in 1..written |-> i]

\* When Run reports that the command was cancelled, no process of its group is
\* left to go on working on the checkout (run.go:55-67).
CancelledLeavesNothing ==
  pc = "done" /\ (exit = "killed" \/ result.error = "canceled") => Alive \subseteq Daemons

\* A command whose leader has ended, or whose context has, returns, though a
\* process outside its group keeps the pipe open for ever (run.go:56-57).
RunReturns ==
  pc # "start" /\ (canceled \/ proc[Leader] = "dead") ~> pc = "done"
=============================================================================
