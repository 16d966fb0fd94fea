------------------------------- MODULE Worker -------------------------------
(***************************************************************************)
(* The worker service (internal/worker/server.go, cmd/brb/worker.go):      *)
(* streams of events, each of which runs the engine once, retry requests,  *)
(* clients that disconnect, and the two ways to stop, a shutdown request   *)
(* and a signal.                                                           *)
(*                                                                         *)
(* Abstractions.  Of the engine we keep what the service can disturb: it   *)
(* holds its workspace's lock, charges an attempt, and when its context is *)
(* cancelled gives the attempt back before it returns.  Rejected requests  *)
(* change nothing.  This bot's runs have no typed result.                  *)
(***************************************************************************)
EXTENDS Integers, Sequences, FiniteSets

CONSTANTS
  Streams,      \* requests to run
  Workspaces,   \* workspaces the requests name
  Retry,        \* the holder of a lock while a retry request is served
  None,         \* nobody
  MaxProgress   \* bound: progress events of a stream

ASSUME ConstantsAssumption ==
  /\ None \notin Streams /\ Retry \notin Streams /\ None # Retry
  /\ MaxProgress \in Nat

VARIABLES
  serve,   \* "up", "draining" after the request to stop, "closed", "exited"
  cause,   \* ghost: why it stops: "none", "request" or "signal"
  stream,  \* the streams
  lock,    \* the holder of each workspace's lock
  charged  \* the workspaces whose record has an attempt under way

vars == <<serve, cause, stream, lock, charged>>

Pcs == {"none", "admitted", "running", "attempt", "interrupted", "unlock",
        "returned", "done", "lost"}
Kinds == {"progress", "complete", "error", "canceled"}

Event == [type : Kinds, seq : Nat]

Stream ==
  [pc : Pcs, at : Workspaces \union {None},
   canceled : BOOLEAN,   \* its context was cancelled
   cut : BOOLEAN,        \* ghost: by the service
   failed : BOOLEAN,     \* the engine returns an error
   seq : Nat, events : Seq(Event)]

Idle == [pc |-> "none", at |-> None, canceled |-> FALSE, cut |-> FALSE,
         failed |-> FALSE, seq |-> 0, events |-> <<>>]

TypeOK ==
  /\ serve \in {"up", "draining", "closed", "exited"}
  /\ cause \in {"none", "request", "signal"}
  /\ stream \in [Streams -> Stream]
  /\ lock \in [Workspaces -> Streams \union {Retry, None}]
  /\ charged \subseteq Workspaces
  \* A workspace with an attempt under way is locked while the service lives.
  /\ serve # "exited" => \A w \in charged : lock[w] \in Streams

Alive  == serve # "exited"
Active == {s \in Streams : stream[s].pc \notin {"none", "done", "lost"}}

\* Some connection is not idle.
Busy == Active # {} \/ \E w \in Workspaces : lock[w] = Retry

Goto(s, pc) == stream' = [stream EXCEPT ![s].pc = pc]

\* Mutant of Written: each event is numbered after it was written.
WrittenBefore(s, type) ==
  [stream[s] EXCEPT !.events = Append(@, [type |-> type, seq |-> stream[s].seq]),
                    !.seq = @ + 1]

\* The stream after an event was written.
Written(s, type) ==
  [stream[s] EXCEPT !.events = Append(@, [type |-> type, seq |-> stream[s].seq + 1]),
                    !.seq = @ + 1]

-----------------------------------------------------------------------------
(* A run *)

Admit(s, w) ==
  /\ serve = "up"
  /\ stream[s].pc = "none"
  /\ stream' = [stream EXCEPT ![s].pc = "admitted", ![s].at = w]
  /\ UNCHANGED <<serve, cause, lock, charged>>

\* lockConfig, at the beginning of Run.
Lock(s) ==
  /\ Alive /\ stream[s].pc = "admitted"
  /\ LET w == stream[s].at
     IN IF lock[w] = None
        THEN lock' = [lock EXCEPT ![w] = s] /\ Goto(s, "running")
        ELSE /\ stream' = [stream EXCEPT ![s].pc = "returned", ![s].failed = TRUE]
             /\ UNCHANGED lock
  /\ UNCHANGED <<serve, cause, charged>>

Progress(s) ==
  /\ Alive /\ stream[s].pc \in {"running", "attempt"}
  /\ ~stream[s].canceled /\ stream[s].seq < MaxProgress
  /\ stream' = [stream EXCEPT ![s] = Written(s, "progress")]
  /\ UNCHANGED <<serve, cause, lock, charged>>

Charge(s) ==
  /\ Alive /\ stream[s].pc = "running" /\ ~stream[s].canceled
  /\ charged' = charged \union {stream[s].at}
  /\ Goto(s, "attempt")
  /\ UNCHANGED <<serve, cause, lock>>

Settled(s) == charged \ {stream[s].at}

\* The cycle ends, with an attempt that succeeded or failed or without one; Run
\* returns the cancellation if there was one by then.
EndCycle(s, failed) ==
  /\ stream[s].canceled => failed
  /\ Alive /\ stream[s].pc \in {"running", "attempt"}
  /\ charged' = Settled(s)
  /\ stream' = [stream EXCEPT ![s].pc = "unlock", ![s].failed = failed]
  /\ UNCHANGED <<serve, cause, lock>>

\* The engine notices that its context was cancelled and records it.
Interrupt(s) ==
  /\ Alive /\ stream[s].pc \in {"running", "attempt"} /\ stream[s].canceled
  /\ Goto(s, "interrupted")
  /\ UNCHANGED <<serve, cause, lock, charged>>

Interrupted(s) ==
  /\ Alive /\ stream[s].pc = "interrupted"
  /\ charged' = Settled(s)
  /\ stream' = [stream EXCEPT ![s].pc = "unlock", ![s].failed = TRUE]
  /\ UNCHANGED <<serve, cause, lock>>

Unlock(s) ==
  /\ Alive /\ stream[s].pc = "unlock"
  /\ lock' = [lock EXCEPT ![stream[s].at] = None]
  /\ Goto(s, "returned")
  /\ UNCHANGED <<serve, cause, charged>>

\* Mutant of Outcome: whatever follows a cancellation was cancelled.
OutcomeOfContext(s) == IF stream[s].canceled THEN "canceled"
                       ELSE IF stream[s].failed THEN "error" ELSE "complete"

Outcome(s) == IF ~stream[s].failed THEN "complete"
              ELSE IF stream[s].canceled THEN "canceled" ELSE "error"

Terminate(s) ==
  /\ Alive /\ stream[s].pc = "returned"
  /\ stream' = [stream EXCEPT ![s] = [Written(s, Outcome(s)) EXCEPT !.pc = "done"]]
  /\ UNCHANGED <<serve, cause, lock, charged>>

-----------------------------------------------------------------------------
(* Requests beside the streams *)

BeginRetry(w) ==
  /\ serve = "up"
  /\ lock[w] = None
  /\ lock' = [lock EXCEPT ![w] = Retry]
  /\ UNCHANGED <<serve, cause, stream, charged>>

EndRetry(w) ==
  /\ Alive /\ lock[w] = Retry
  /\ lock' = [lock EXCEPT ![w] = None]
  /\ UNCHANGED <<serve, cause, stream, charged>>

\* The client closes its connection, which cancels the request's context.
Disconnect(s) ==
  /\ s \in Active /\ Alive /\ ~stream[s].canceled
  /\ stream' = [stream EXCEPT ![s].canceled = TRUE]
  /\ UNCHANGED <<serve, cause, lock, charged>>

-----------------------------------------------------------------------------
(* Serve *)

\* POST /v1/shutdown, or the end of Serve's own context.
Stop(why) ==
  /\ serve = "up"
  /\ serve' = "draining" /\ cause' = why
  /\ UNCHANGED <<stream, lock, charged>>

\* httpServer.Shutdown returns: every connection is idle.
Drained ==
  /\ serve = "draining" /\ ~Busy
  /\ serve' = "closed"
  /\ UNCHANGED <<cause, stream, lock, charged>>

\* Mutant of TimeIsUp: Shutdown waits without a deadline.
Patient == FALSE

\* Its five seconds have passed with a request still open.
TimeIsUp == Busy

Close ==
  /\ serve = "draining" /\ TimeIsUp
  /\ serve' = "closed"
  /\ stream' = [s \in Streams |->
       IF s \in Active THEN [stream[s] EXCEPT !.canceled = TRUE, !.cut = TRUE]
       ELSE stream[s]]
  /\ UNCHANGED <<cause, lock, charged>>

\* Serve returns without waiting for handlers, and the process ends.
Exit ==
  /\ serve = "closed"
  /\ serve' = "exited"
  /\ stream' = [s \in Streams |->
       IF s \in Active THEN [stream[s] EXCEPT !.pc = "lost"] ELSE stream[s]]
  /\ lock' = [w \in Workspaces |-> None]
  /\ UNCHANGED <<cause, charged>>

-----------------------------------------------------------------------------

Init ==
  /\ serve = "up" /\ cause = "none"
  /\ stream = [s \in Streams |-> Idle]
  /\ lock = [w \in Workspaces |-> None]
  /\ charged = {}

Next ==
  \/ \E s \in Streams :
       \/ \E w \in Workspaces : Admit(s, w)
       \/ Lock(s) \/ Progress(s) \/ Charge(s)
       \/ \E failed \in BOOLEAN : EndCycle(s, failed)
       \/ Interrupt(s) \/ Interrupted(s) \/ Unlock(s) \/ Terminate(s)
       \/ Disconnect(s)
  \/ \E w \in Workspaces : BeginRetry(w) \/ EndRetry(w)
  \/ \E why \in {"request", "signal"} : Stop(why)
  \/ Drained \/ Close \/ Exit

Spec == Init /\ [][Next]_vars

\* The service's own steps are taken; an engine may run as long as it likes.
FairSpec == Spec /\ WF_vars(Drained) /\ WF_vars(Close) /\ WF_vars(Exit)

-----------------------------------------------------------------------------
(* Properties *)

\* A stream that has ended tells its outcome in its last event and only there,
\* with contiguous numbers; it says "complete" exactly when the engine had no
\* error, though the client may have left, and "canceled" exactly when it had one
\* and was cancelled before it was told; and the engine has let go of the
\* workspace, so that the next run is not refused because of this one
\* (server.go:258-270, README.md:331).
EndsWithOutcome ==
  \A s \in Streams : stream[s].pc = "done" =>
    LET e == stream[s].events
    IN /\ \A i \in 1..Len(e) : e[i].seq = i /\ (e[i].type # "progress") = (i = Len(e))
       /\ e # <<>>
       /\ (e[Len(e)].type = "complete") = ~stream[s].failed
       /\ (e[Len(e)].type = "canceled") = (stream[s].failed /\ stream[s].canceled)
       /\ \A w \in Workspaces : lock[w] # s

\* Once asked to stop, the service ends, even if an engine never returns
\* (server.go:149-164).
StopsInTheEnd == serve = "draining" ~> serve = "exited"

\* Shutdown stops the service after the current stream (README.md:339).
CurrentStreamFinishes ==
  cause = "request" => \A s \in Streams : ~stream[s].cut

\* A signal does not consume an attempt (README.md:200).
SignalKeepsAttempt == cause = "signal" /\ serve = "exited" => charged = {}
=============================================================================
