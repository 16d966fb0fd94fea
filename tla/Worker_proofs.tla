---------------------------- MODULE Worker_proofs ----------------------------
(***************************************************************************)
(* Machine-checked proofs about Worker, for every set of streams and       *)
(* workspaces: what a stream was told, and who holds which lock.           *)
(***************************************************************************)
EXTENDS Worker, TLAPS

Holding == {"running", "attempt", "interrupted", "unlock"}

\* The events of a stream are numbered, and only the last may tell an outcome.
Told(r) ==
  /\ r.seq = Len(r.events)
  /\ \A i \in 1..Len(r.events) : r.events[i].seq = i
  /\ \A i \in 1..Len(r.events) :
       (r.events[i].type # "progress") = (r.pc = "done" /\ i = Len(r.events))
  /\ r.pc = "done" =>
       /\ Len(r.events) > 0
       /\ (r.events[Len(r.events)].type = "complete") = ~r.failed
       /\ (r.events[Len(r.events)].type = "canceled") = (r.failed /\ r.canceled)

EventsInv == \A s \in Streams : Told(stream[s])

\* Who is past its lock's step holds the lock, and each lock that is not a
\* retry's belongs to such a stream.
LockInv ==
  /\ \A s \in Streams : stream[s].pc # "none" => stream[s].at \in Workspaces
  /\ \A s \in Streams, w \in Workspaces :
       lock[w] = s => stream[s].pc \in Holding /\ stream[s].at = w
  /\ Alive => \A s \in Streams :
       stream[s].pc \in Holding => lock[stream[s].at] = s

\* An attempt under way belongs to the holder of the workspace.
ChargeInv ==
  Alive => \A w \in charged : \E s \in Streams :
    lock[w] = s /\ stream[s].pc \in {"attempt", "interrupted"}

Typed ==
  /\ serve \in {"up", "draining", "closed", "exited"}
  /\ cause \in {"none", "request", "signal"}
  /\ stream \in [Streams -> Stream]
  /\ lock \in [Workspaces -> Streams \union {Retry, None}]
  /\ charged \subseteq Workspaces

IInv == Typed /\ EventsInv /\ LockInv /\ ChargeInv

-----------------------------------------------------------------------------
(* What writing an event does to a stream *)

LEMMA WrittenTyped ==
  ASSUME Typed, NEW s \in Streams, NEW type \in Kinds
  PROVE  /\ Written(s, type) \in Stream
         /\ Written(s, type).pc = stream[s].pc
         /\ Written(s, type).at = stream[s].at
         /\ Written(s, type).failed = stream[s].failed
         /\ Written(s, type).canceled = stream[s].canceled
         /\ Written(s, type).seq = stream[s].seq + 1
         /\ Written(s, type).events =
              Append(stream[s].events, [type |-> type, seq |-> stream[s].seq + 1])
<1> DEFINE r == stream[s]
           n == r.seq + 1
           e == [type |-> type, seq |-> n]
           q == Append(r.events, e)
<1>1. r \in Stream
  BY DEF Typed
<1>2. r.seq \in Nat /\ r.events \in Seq(Event)
  BY <1>1 DEF Stream
<1>3. n \in Nat /\ e \in Event
  BY <1>2 DEF Event
<1>4. q \in Seq(Event)
  BY <1>2, <1>3
<1>5. Written(s, type) = [r EXCEPT !.events = q, !.seq = n]
  BY DEF Written
<1> HIDE DEF r, n, e, q
<1>6. /\ [r EXCEPT !.events = q, !.seq = n] \in Stream
      /\ [r EXCEPT !.events = q, !.seq = n].pc = r.pc
      /\ [r EXCEPT !.events = q, !.seq = n].at = r.at
      /\ [r EXCEPT !.events = q, !.seq = n].failed = r.failed
      /\ [r EXCEPT !.events = q, !.seq = n].canceled = r.canceled
      /\ [r EXCEPT !.events = q, !.seq = n].seq = n
      /\ [r EXCEPT !.events = q, !.seq = n].events = q
  BY <1>1, <1>3, <1>4 DEF Stream
<1> QED
  BY <1>5, <1>6 DEF r, n, e, q

\* A new event after events of progress only.
LEMMA AppendTold ==
  ASSUME NEW events \in Seq(Event), NEW type \in Kinds,
         \A i \in 1..Len(events) : events[i].seq = i /\ events[i].type = "progress"
  PROVE  LET q == Append(events, [type |-> type, seq |-> Len(events) + 1])
         IN  /\ q \in Seq(Event) /\ Len(q) = Len(events) + 1
             /\ \A i \in 1..Len(q) : q[i].seq = i
             /\ \A i \in 1..Len(events) : q[i].type = "progress"
             /\ q[Len(q)].type = type
<1> DEFINE n == Len(events)
           e == [type |-> type, seq |-> n + 1]
           q == Append(events, e)
<1>1. n \in Nat /\ e \in Event
  BY DEF Event
<1>2. q \in Seq(Event) /\ Len(q) = n + 1
  BY <1>1
<1>3. q[n + 1] = e /\ \A i \in 1..n : q[i] = events[i]
  BY <1>1
<1>4. e.seq = n + 1 /\ e.type = type
  OBVIOUS
<1> HIDE DEF q, e
<1>5. \A i \in 1..Len(q) : q[i].seq = i
  BY <1>1, <1>2, <1>3, <1>4
<1> QED
  BY <1>2, <1>3, <1>4, <1>5 DEF q, e

LEMMA ProgressTold ==
  ASSUME Typed, EventsInv, NEW s \in Streams, stream[s].pc # "done"
  PROVE  Told(Written(s, "progress"))
<1>1. stream[s].events \in Seq(Event) /\ stream[s].seq = Len(stream[s].events)
  BY DEF Typed, Stream, EventsInv, Told
<1>2. \A i \in 1..Len(stream[s].events) :
        stream[s].events[i].seq = i /\ stream[s].events[i].type = "progress"
  BY DEF EventsInv, Told
<1>3. "progress" \in Kinds
  BY DEF Kinds
<1> DEFINE q == Append(stream[s].events,
                       [type |-> "progress", seq |-> Len(stream[s].events) + 1])
<1>4. /\ q \in Seq(Event) /\ Len(q) = Len(stream[s].events) + 1
      /\ \A i \in 1..Len(q) : q[i].seq = i
      /\ \A i \in 1..Len(stream[s].events) : q[i].type = "progress"
      /\ q[Len(q)].type = "progress"
  BY <1>1, <1>2, <1>3, AppendTold
<1>5. /\ Written(s, "progress").pc = stream[s].pc
      /\ Written(s, "progress").seq = stream[s].seq + 1
      /\ Written(s, "progress").events = q
  BY <1>1, <1>3, WrittenTyped
<1>6. Len(stream[s].events) \in Nat
  BY <1>1
<1> HIDE DEF q
<1> QED
  BY <1>1, <1>4, <1>5, <1>6 DEF Told

LEMMA OutcomeKind ==
  ASSUME Typed, NEW s \in Streams
  PROVE  /\ Outcome(s) \in Kinds /\ Outcome(s) # "progress"
         /\ (Outcome(s) = "complete") = ~stream[s].failed
         /\ (Outcome(s) = "canceled") = (stream[s].failed /\ stream[s].canceled)
<1>1. stream[s].failed \in BOOLEAN
  BY DEF Typed, Stream
<1> QED
  BY <1>1 DEF Outcome, Kinds

LEMMA OutcomeTold ==
  ASSUME Typed, EventsInv, NEW s \in Streams, stream[s].pc = "returned"
  PROVE  /\ [Written(s, Outcome(s)) EXCEPT !.pc = "done"] \in Stream
         /\ Told([Written(s, Outcome(s)) EXCEPT !.pc = "done"])
<1> DEFINE type == Outcome(s)
           n == Len(stream[s].events)
           q == Append(stream[s].events, [type |-> type, seq |-> n + 1])
           v == Written(s, type)
           r == [v EXCEPT !.pc = "done"]
<1>1. stream[s].events \in Seq(Event) /\ stream[s].seq = n /\ n \in Nat
  BY DEF Typed, Stream, EventsInv, Told
<1>2. \A i \in 1..n :
        stream[s].events[i].seq = i /\ stream[s].events[i].type = "progress"
  BY DEF EventsInv, Told
<1>3. /\ type \in Kinds /\ type # "progress"
      /\ (type = "complete") = ~stream[s].failed
      /\ (type = "canceled") = (stream[s].failed /\ stream[s].canceled)
  BY OutcomeKind
<1> HIDE DEF type
<1>4. /\ q \in Seq(Event) /\ Len(q) = n + 1
      /\ \A i \in 1..Len(q) : q[i].seq = i
      /\ \A i \in 1..n : q[i].type = "progress"
      /\ q[Len(q)].type = type
  BY <1>1, <1>2, <1>3, AppendTold
<1>5. /\ v \in Stream /\ v.failed = stream[s].failed /\ v.canceled = stream[s].canceled
      /\ v.seq = n + 1 /\ v.events = q
  BY <1>1, <1>3, WrittenTyped
<1> HIDE DEF q, v
<1>6. /\ r \in Stream /\ r.pc = "done" /\ r.failed = v.failed /\ r.canceled = v.canceled
      /\ r.seq = v.seq /\ r.events = v.events
  BY <1>5 DEF Stream, Pcs
<1> HIDE DEF r
<1>7. Told(r)
  BY <1>1, <1>3, <1>4, <1>5, <1>6 DEF Told
<1> QED
  BY <1>6, <1>7 DEF r, v, type

-----------------------------------------------------------------------------
(* What the steps preserve *)

\* A stream that goes on, or ends without an event of its own.
LEMMA ToldFrame ==
  ASSUME NEW r, NEW q, Told(r), r.pc # "done", q.pc # "done",
         q.events = r.events, q.seq = r.seq
  PROVE  Told(q)
BY DEF Told

LEMMA InitIInv == Init => IInv
<1> SUFFICES ASSUME Init PROVE IInv
  OBVIOUS
<1>1. Idle \in Stream /\ Idle.pc = "none" /\ Idle.seq = 0 /\ Idle.events = <<>>
  BY DEF Idle, Stream, Pcs
<1>2. \A s \in Streams : stream[s] = Idle
  BY DEF Init
<1>3. \A w \in Workspaces : lock[w] = None
  BY DEF Init
<1>4. Typed
  BY <1>1 DEF Init, Typed
<1>5. EventsInv
  BY <1>1, <1>2 DEF EventsInv, Told
<1>6. LockInv
  BY <1>1, <1>2, <1>3, ConstantsAssumption DEF LockInv, Holding
<1>7. ChargeInv
  BY DEF Init, ChargeInv
<1> QED
  BY <1>4, <1>5, <1>6, <1>7 DEF IInv

LEMMA TypedStep == IInv /\ [Next]_vars => Typed'
<1> SUFFICES ASSUME IInv, [Next]_vars PROVE Typed'
  OBVIOUS
<1> USE DEF IInv, Typed
<1>1. ASSUME NEW s \in Streams, NEW w \in Workspaces, Admit(s, w) PROVE Typed'
  BY <1>1 DEF Admit, Stream, Pcs
<1>2. ASSUME NEW s \in Streams, Lock(s) PROVE Typed'
  <2>1. stream[s].at \in Workspaces
    BY <1>2 DEF Lock, LockInv
  <2>2. stream' \in [Streams -> Stream]
    <3>1. \/ stream' = [stream EXCEPT ![s].pc = "running"]
          \/ stream' = [stream EXCEPT ![s].pc = "returned", ![s].failed = TRUE]
      BY <1>2 DEF Lock, Goto
    <3>2. CASE stream' = [stream EXCEPT ![s].pc = "running"]
      BY <3>2 DEF Stream, Pcs
    <3>3. CASE stream' = [stream EXCEPT ![s].pc = "returned", ![s].failed = TRUE]
      BY <3>3 DEF Stream, Pcs
    <3> QED
      BY <3>1, <3>2, <3>3
  <2>3. lock' \in [Workspaces -> Streams \union {Retry, None}]
    BY <1>2, <2>1 DEF Lock
  <2> QED
    BY <1>2, <2>2, <2>3 DEF Lock
<1>3. ASSUME NEW s \in Streams, Progress(s) PROVE Typed'
  <2>1. Written(s, "progress") \in Stream
    BY WrittenTyped DEF Kinds
  <2> QED
    BY <1>3, <2>1 DEF Progress
<1>4. ASSUME NEW s \in Streams, Charge(s) PROVE Typed'
  <2>1. stream[s].at \in Workspaces
    BY <1>4 DEF Charge, LockInv
  <2>2. stream' \in [Streams -> Stream]
    BY <1>4 DEF Charge, Goto, Stream, Pcs
  <2> QED
    BY <1>4, <2>1, <2>2 DEF Charge
<1>5. ASSUME NEW s \in Streams, NEW failed \in BOOLEAN, EndCycle(s, failed) PROVE Typed'
  BY <1>5 DEF EndCycle, Settled, Stream, Pcs
<1>6. ASSUME NEW s \in Streams, Interrupt(s) PROVE Typed'
  BY <1>6 DEF Interrupt, Goto, Stream, Pcs
<1>7. ASSUME NEW s \in Streams, Interrupted(s) PROVE Typed'
  BY <1>7 DEF Interrupted, Settled, Stream, Pcs
<1>8. ASSUME NEW s \in Streams, Unlock(s) PROVE Typed'
  BY <1>8 DEF Unlock, Goto, Stream, Pcs
<1>9. ASSUME NEW s \in Streams, Terminate(s) PROVE Typed'
  <2>1. [Written(s, Outcome(s)) EXCEPT !.pc = "done"] \in Stream
    BY <1>9, OutcomeTold DEF Terminate
  <2> QED
    BY <1>9, <2>1 DEF Terminate
<1>10. ASSUME NEW s \in Streams, Disconnect(s) PROVE Typed'
  BY <1>10 DEF Disconnect, Stream
<1>11. ASSUME NEW w \in Workspaces, BeginRetry(w) \/ EndRetry(w) PROVE Typed'
  BY <1>11 DEF BeginRetry, EndRetry
<1>12. ASSUME NEW why \in {"request", "signal"}, Stop(why) PROVE Typed'
  BY <1>12 DEF Stop
<1>13. CASE Drained
  BY <1>13 DEF Drained
<1>14. CASE Close
  BY <1>14 DEF Close, Stream
<1>15. CASE Exit
  BY <1>15 DEF Exit, Stream, Pcs
<1>16. CASE UNCHANGED vars
  BY <1>16 DEF vars
<1> QED
  BY <1>1, <1>2, <1>3, <1>4, <1>5, <1>6, <1>7, <1>8, <1>9, <1>10, <1>11, <1>12,
     <1>13, <1>14, <1>15, <1>16 DEF Next

LEMMA EventsStep == IInv /\ [Next]_vars => EventsInv'
<1> SUFFICES ASSUME IInv, [Next]_vars PROVE EventsInv'
  OBVIOUS
<1> USE DEF IInv
<1>1. ASSUME NEW s \in Streams, stream[s].pc # "done", stream'[s].pc # "done",
             stream'[s].events = stream[s].events, stream'[s].seq = stream[s].seq
      PROVE  Told(stream'[s])
  BY <1>1, ToldFrame DEF EventsInv
<1>2. ASSUME NEW s \in Streams, Told(stream'[s]),
             \A t \in Streams \ {s} : stream'[t] = stream[t]
      PROVE  EventsInv'
  BY <1>2 DEF EventsInv
<1>3. ASSUME stream' = stream PROVE EventsInv'
  BY <1>3 DEF EventsInv
<1>4. ASSUME NEW s \in Streams,
             \/ \E w \in Workspaces : Admit(s, w)
             \/ Lock(s) \/ Charge(s) \/ \E failed \in BOOLEAN : EndCycle(s, failed)
             \/ Interrupt(s) \/ Interrupted(s) \/ Unlock(s)
      PROVE  EventsInv'
  <2>1. /\ stream[s].pc # "done" /\ stream'[s].pc # "done"
        /\ stream'[s].events = stream[s].events /\ stream'[s].seq = stream[s].seq
        /\ \A t \in Streams \ {s} : stream'[t] = stream[t]
    BY <1>4 DEF Admit, Lock, Charge, EndCycle, Interrupt, Interrupted, Unlock, Goto,
                Typed, Stream
  <2> QED
    BY <1>1, <1>2, <2>1
<1>5. ASSUME NEW s \in Streams, Disconnect(s) PROVE EventsInv'
  <2>1. /\ stream[s].pc # "done" /\ stream'[s].pc # "done"
        /\ stream'[s].events = stream[s].events /\ stream'[s].seq = stream[s].seq
        /\ \A t \in Streams \ {s} : stream'[t] = stream[t]
    BY <1>5 DEF Disconnect, Active, Typed, Stream
  <2> QED
    BY <1>1, <1>2, <2>1
<1>6. ASSUME NEW s \in Streams, Progress(s) PROVE EventsInv'
  <2>1. Told(Written(s, "progress"))
    BY <1>6, ProgressTold DEF Progress
  <2> QED
    BY <1>2, <1>6, <2>1 DEF Progress, Typed
<1>7. ASSUME NEW s \in Streams, Terminate(s) PROVE EventsInv'
  <2>1. Told([Written(s, Outcome(s)) EXCEPT !.pc = "done"])
    BY <1>7, OutcomeTold DEF Terminate
  <2>2. stream' = [stream EXCEPT ![s] = [Written(s, Outcome(s)) EXCEPT !.pc = "done"]]
    BY <1>7 DEF Terminate
  <2> QED
    BY <1>2, <2>1, <2>2 DEF Typed
<1>8. ASSUME Close \/ Exit PROVE EventsInv'
  <2> SUFFICES ASSUME NEW s \in Streams PROVE Told(stream'[s])
    BY DEF EventsInv
  <2>1. CASE s \in Active
    <3>1. stream[s] \in Stream /\ stream[s].pc # "done"
      BY <2>1 DEF Active, Typed
    <3>2. \/ stream'[s] = [stream[s] EXCEPT !.canceled = TRUE, !.cut = TRUE]
          \/ stream'[s] = [stream[s] EXCEPT !.pc = "lost"]
      BY <1>8, <2>1 DEF Close, Exit
    <3>3. /\ stream'[s].pc # "done"
          /\ stream'[s].events = stream[s].events /\ stream'[s].seq = stream[s].seq
      BY <3>1, <3>2 DEF Stream
    <3> QED
      BY <1>1, <3>1, <3>3
  <2>2. CASE s \notin Active
    <3>1. stream'[s] = stream[s]
      BY <1>8, <2>2 DEF Close, Exit
    <3> QED
      BY <3>1 DEF EventsInv
  <2> QED
    BY <2>1, <2>2
<1> QED
  BY <1>3, <1>4, <1>5, <1>6, <1>7, <1>8
  DEF Next, BeginRetry, EndRetry, Stop, Drained, vars

LEMMA ClosedStream ==
  ASSUME stream \in [Streams -> Stream], Close, NEW s \in Streams
  PROVE  stream'[s].pc = stream[s].pc /\ stream'[s].at = stream[s].at
<1>1. \/ stream'[s] = stream[s]
      \/ stream'[s] = [stream[s] EXCEPT !.canceled = TRUE, !.cut = TRUE]
  BY DEF Close
<1> QED
  BY <1>1 DEF Stream

LEMMA LockStep == IInv /\ [Next]_vars => LockInv'
<1> SUFFICES ASSUME IInv, [Next]_vars PROVE LockInv'
  OBVIOUS
<1> USE DEF IInv, LockInv
<1>0. /\ stream \in [Streams -> Stream]
      /\ lock \in [Workspaces -> Streams \union {Retry, None}]
      /\ None \notin Streams /\ Retry \notin Streams
  BY ConstantsAssumption DEF Typed
\* Steps that leave the locks alone and keep each stream on its side of them.
<1>1. ASSUME UNCHANGED lock, Alive' => Alive,
             \A s \in Streams :
               /\ stream'[s].pc # "none" => stream'[s].at \in Workspaces
               /\ (stream'[s].pc \in Holding) = (stream[s].pc \in Holding)
               /\ stream[s].pc \in Holding => stream'[s].at = stream[s].at
      PROVE  LockInv'
  BY <1>1
<1>2. ASSUME NEW s \in Streams, NEW w \in Workspaces, Admit(s, w) PROVE LockInv'
  <2>1. \A t \in Streams \ {s} : stream'[t] = stream[t]
    BY <1>0, <1>2 DEF Admit
  <2>2. /\ stream[s].pc = "none" /\ stream'[s].pc = "admitted" /\ stream'[s].at = w
        /\ UNCHANGED <<lock, serve>>
    BY <1>0, <1>2 DEF Admit, Stream
  <2> QED
    BY <1>1, <2>1, <2>2 DEF Holding, Alive
<1>3. ASSUME NEW s \in Streams, Lock(s) PROVE LockInv'
  <2> DEFINE w == stream[s].at
  <2>1. w \in Workspaces /\ stream[s].pc = "admitted" /\ Alive /\ UNCHANGED serve
    BY <1>3 DEF Lock
  <2>2. CASE lock[w] = None
    <3>1. lock' = [lock EXCEPT ![w] = s] /\ stream' = [stream EXCEPT ![s].pc = "running"]
      BY <1>3, <2>2 DEF Lock, Goto
    <3>2. /\ stream'[s].pc = "running" /\ stream'[s].at = w
          /\ \A t \in Streams \ {s} : stream'[t] = stream[t]
      BY <1>0, <3>1 DEF Stream
    <3>3. lock'[w] = s /\ \A v \in Workspaces \ {w} : lock'[v] = lock[v]
      BY <1>0, <2>1, <3>1
    <3>4. \A t \in Streams : lock[stream[t].at] = t => stream[t].at # w
      BY <1>0, <2>2
    <3> HIDE DEF w
    <3> QED
      BY <1>0, <2>1, <2>2, <3>2, <3>3, <3>4 DEF Holding, Alive
  <2>3. CASE lock[w] # None
    <3>1. /\ UNCHANGED <<lock, serve>>
          /\ stream' = [stream EXCEPT ![s].pc = "returned", ![s].failed = TRUE]
      BY <1>3, <2>3 DEF Lock
    <3>2. /\ stream'[s].pc = "returned" /\ stream'[s].at = w
          /\ \A t \in Streams \ {s} : stream'[t] = stream[t]
      BY <1>0, <3>1 DEF Stream
    <3>3. stream[s].pc \notin Holding /\ stream'[s].pc \notin Holding
      BY <2>1, <3>2 DEF Holding
    <3> HIDE DEF w
    <3>4. Alive' => Alive
      BY <3>1 DEF Alive
    <3>5. ASSUME NEW t \in Streams
          PROVE  /\ stream'[t].pc # "none" => stream'[t].at \in Workspaces
                 /\ (stream'[t].pc \in Holding) = (stream[t].pc \in Holding)
                 /\ stream[t].pc \in Holding => stream'[t].at = stream[t].at
      <4>1. CASE t = s
        BY <2>1, <3>2, <3>3, <4>1
      <4>2. CASE t # s
        BY <3>2, <4>2
      <4> QED
        BY <4>1, <4>2
    <3> QED
      BY <1>1, <3>1, <3>4, <3>5
  <2> QED
    BY <2>2, <2>3
<1>4. ASSUME NEW s \in Streams, Progress(s) PROVE LockInv'
  <2>1. /\ Written(s, "progress").pc = stream[s].pc
        /\ Written(s, "progress").at = stream[s].at
    BY WrittenTyped DEF Kinds
  <2>2. /\ stream'[s] = Written(s, "progress") /\ UNCHANGED <<lock, serve>>
        /\ \A t \in Streams \ {s} : stream'[t] = stream[t]
    BY <1>0, <1>4 DEF Progress
  <2> QED
    BY <1>1, <2>1, <2>2 DEF Alive
<1>5. ASSUME NEW s \in Streams,
             \/ Charge(s) \/ \E failed \in BOOLEAN : EndCycle(s, failed)
             \/ Interrupt(s) \/ Interrupted(s) \/ Disconnect(s)
      PROVE  LockInv'
  <2>1. /\ stream'[s].at = stream[s].at /\ UNCHANGED <<lock, serve>>
        /\ stream[s].pc # "none"
        /\ (stream'[s].pc \in Holding) = (stream[s].pc \in Holding)
        /\ \A t \in Streams \ {s} : stream'[t] = stream[t]
    BY <1>0, <1>5 DEF Charge, EndCycle, Interrupt, Interrupted, Disconnect, Goto, Active,
                      Stream, Holding
  <2> QED
    BY <1>1, <2>1 DEF Alive
<1>6. ASSUME NEW s \in Streams, Unlock(s) PROVE LockInv'
  <2> DEFINE w == stream[s].at
  <2>1. /\ stream[s].pc = "unlock" /\ Alive /\ w \in Workspaces /\ UNCHANGED serve
        /\ lock' = [lock EXCEPT ![w] = None]
        /\ stream' = [stream EXCEPT ![s].pc = "returned"]
    BY <1>6 DEF Unlock, Goto
  <2>2. lock[w] = s
    BY <2>1 DEF Holding
  <2>3. /\ stream'[s].pc = "returned" /\ stream'[s].at = w
        /\ \A t \in Streams \ {s} : stream'[t] = stream[t]
    BY <1>0, <2>1 DEF Stream
  <2>4. lock'[w] = None /\ \A v \in Workspaces \ {w} : lock'[v] = lock[v]
    BY <1>0, <2>1
  <2> HIDE DEF w
  <2> QED
    BY <1>0, <2>1, <2>2, <2>3, <2>4 DEF Holding, Alive
<1>7. ASSUME NEW s \in Streams, Terminate(s) PROVE LockInv'
  <2>1. Written(s, Outcome(s)) \in Stream /\ Written(s, Outcome(s)).at = stream[s].at
    BY WrittenTyped, OutcomeKind
  <2>2. stream' = [stream EXCEPT ![s] = [Written(s, Outcome(s)) EXCEPT !.pc = "done"]]
    BY <1>7 DEF Terminate
  <2>3. /\ stream'[s].pc = "done" /\ stream'[s].at = stream[s].at
        /\ \A t \in Streams \ {s} : stream'[t] = stream[t]
    BY <1>0, <2>1, <2>2 DEF Stream
  <2>4. stream[s].pc = "returned" /\ UNCHANGED <<lock, serve>>
    BY <1>7 DEF Terminate
  <2> QED
    BY <1>1, <2>3, <2>4 DEF Holding, Alive
<1>8. ASSUME NEW w \in Workspaces, BeginRetry(w) \/ EndRetry(w) PROVE LockInv'
  <2>1. /\ lock[w] \notin Streams /\ lock'[w] \notin Streams
        /\ \A v \in Workspaces \ {w} : lock'[v] = lock[v]
        /\ UNCHANGED <<stream, serve>>
    BY <1>0, <1>8 DEF BeginRetry, EndRetry
  <2> QED
    BY <1>0, <2>1 DEF Alive, Holding
<1>9. CASE Close
  <2>1. \A s \in Streams : stream'[s].pc = stream[s].pc /\ stream'[s].at = stream[s].at
    BY <1>0, <1>9, ClosedStream
  <2> QED
    BY <1>1, <1>9, <2>1 DEF Close, Alive
<1>10. CASE Exit
  <2>1. \A s \in Streams :
          stream'[s].at = stream[s].at /\ (stream'[s].pc # "none" => stream[s].pc # "none")
    BY <1>0, <1>10 DEF Exit, Active, Stream
  <2>2. \A w \in Workspaces : lock'[w] = None
    BY <1>10 DEF Exit
  <2>3. ~Alive'
    BY <1>10 DEF Exit, Alive
  <2> QED
    BY <1>0, <2>1, <2>2, <2>3
<1>11. ASSUME UNCHANGED <<stream, lock>>, Alive' => Alive PROVE LockInv'
  BY <1>1, <1>11
<1> QED
  BY <1>2, <1>3, <1>4, <1>5, <1>6, <1>7, <1>8, <1>9, <1>10, <1>11
  DEF Next, Stop, Drained, vars, Alive

LEMMA ChargeStep == IInv /\ LockInv' /\ [Next]_vars => ChargeInv'
<1> SUFFICES ASSUME IInv, LockInv', [Next]_vars PROVE ChargeInv'
  OBVIOUS
<1> DEFINE Attempt(s) == stream[s].pc \in {"attempt", "interrupted"}
<1>0. /\ stream \in [Streams -> Stream]
      /\ lock \in [Workspaces -> Streams \union {Retry, None}]
      /\ None \notin Streams /\ Retry \notin Streams
      /\ charged \subseteq Workspaces
  BY ConstantsAssumption DEF IInv, Typed
\* Every attempt under way stays so and keeps its lock.
<1>1. ASSUME charged' \subseteq charged, Alive' => Alive,
             \A w \in charged', s \in Streams :
               Attempt(s) /\ lock[w] = s => Attempt(s)' /\ lock'[w] = s
      PROVE  ChargeInv'
  BY <1>1 DEF IInv, ChargeInv
<1>2. ASSUME NEW s \in Streams,
             \/ \E w \in Workspaces : Admit(s, w)
             \/ Interrupt(s) \/ Disconnect(s)
      PROVE  ChargeInv'
  <2>1. /\ Attempt(s) => Attempt(s)'
        /\ \A t \in Streams \ {s} : stream'[t] = stream[t]
        /\ UNCHANGED <<lock, serve, charged>>
    BY <1>0, <1>2 DEF Admit, Interrupt, Disconnect, Goto, Stream
  <2> QED
    BY <1>1, <2>1 DEF Alive
<1>3. ASSUME NEW s \in Streams, Lock(s) PROVE ChargeInv'
  <2>1. /\ stream[s].pc = "admitted" /\ UNCHANGED <<serve, charged>>
        /\ \A t \in Streams \ {s} : stream'[t] = stream[t]
        /\ \A w \in Workspaces : lock[w] # None => lock'[w] = lock[w]
    BY <1>0, <1>3 DEF Lock, Goto
  <2> QED
    BY <1>0, <1>1, <2>1 DEF Alive
<1>4. ASSUME NEW s \in Streams, Progress(s) PROVE ChargeInv'
  <2>1. Written(s, "progress").pc = stream[s].pc
    BY WrittenTyped DEF Kinds, IInv
  <2>2. /\ stream'[s] = Written(s, "progress") /\ UNCHANGED <<lock, serve, charged>>
        /\ \A t \in Streams \ {s} : stream'[t] = stream[t]
    BY <1>0, <1>4 DEF Progress
  <2> QED
    BY <1>1, <2>1, <2>2 DEF Alive
<1>5. ASSUME NEW s \in Streams, Charge(s) PROVE ChargeInv'
  <2> DEFINE w == stream[s].at
  <2>1. /\ Alive /\ stream[s].pc = "running" /\ charged' = charged \union {w}
        /\ stream' = [stream EXCEPT ![s].pc = "attempt"] /\ UNCHANGED <<lock, serve>>
    BY <1>5 DEF Charge, Goto
  <2>2. lock[w] = s
    BY <2>1 DEF IInv, LockInv, Holding
  <2>3. Attempt(s)' /\ \A t \in Streams \ {s} : stream'[t] = stream[t]
    BY <1>0, <2>1 DEF Stream
  <2> HIDE DEF w
  <2> QED
    BY <2>1, <2>2, <2>3 DEF IInv, ChargeInv, Alive
<1>6. ASSUME NEW s \in Streams,
             \/ \E failed \in BOOLEAN : EndCycle(s, failed)
             \/ Interrupted(s)
      PROVE  ChargeInv'
  <2>1. /\ charged' = charged \ {stream[s].at} /\ UNCHANGED <<lock, serve>>
        /\ \A t \in Streams \ {s} : stream'[t] = stream[t]
    BY <1>0, <1>6 DEF EndCycle, Interrupted, Settled
  <2>2. \A w \in charged' : lock[w] # s
    BY <1>0, <2>1 DEF IInv, LockInv
  <2> QED
    BY <1>1, <2>1, <2>2 DEF Alive
<1>7. ASSUME NEW s \in Streams, Unlock(s) PROVE ChargeInv'
  <2>1. /\ stream[s].pc = "unlock" /\ UNCHANGED <<serve, charged>>
        /\ lock' = [lock EXCEPT ![stream[s].at] = None]
        /\ \A t \in Streams \ {s} : stream'[t] = stream[t]
        /\ Alive /\ lock[stream[s].at] = s
    BY <1>0, <1>7 DEF Unlock, Goto, IInv, LockInv, Holding
  <2> QED
    BY <1>0, <1>1, <2>1 DEF Alive
<1>8. ASSUME NEW s \in Streams, Terminate(s) PROVE ChargeInv'
  <2>1. /\ stream[s].pc = "returned" /\ UNCHANGED <<lock, serve, charged>>
        /\ \A t \in Streams \ {s} : stream'[t] = stream[t]
    BY <1>0, <1>8 DEF Terminate
  <2> QED
    BY <1>1, <2>1 DEF Alive
<1>9. ASSUME NEW w \in Workspaces, BeginRetry(w) \/ EndRetry(w) PROVE ChargeInv'
  <2>1. /\ lock[w] \notin Streams
        /\ \A v \in Workspaces \ {w} : lock'[v] = lock[v]
        /\ UNCHANGED <<stream, serve, charged>>
    BY <1>0, <1>9 DEF BeginRetry, EndRetry
  <2> QED
    BY <1>0, <1>1, <2>1 DEF Alive
<1>10. CASE Close
  <2>1. \A s \in Streams : stream'[s].pc = stream[s].pc
    BY <1>0, <1>10, ClosedStream
  <2> QED
    BY <1>1, <1>10, <2>1 DEF Close, Alive
<1>11. CASE Exit
  BY <1>11 DEF Exit, Alive, ChargeInv
<1>12. ASSUME UNCHANGED <<stream, lock, charged>>, Alive' => Alive PROVE ChargeInv'
  BY <1>1, <1>12
<1> QED
  BY <1>2, <1>3, <1>4, <1>5, <1>6, <1>7, <1>8, <1>9, <1>10, <1>11, <1>12
  DEF Next, Stop, Drained, vars, Alive

LEMMA IInvariant == Spec => []IInv
<1>1. IInv /\ [Next]_vars => IInv'
  BY TypedStep, EventsStep, LockStep, ChargeStep DEF IInv
<1> QED
  BY InitIInv, <1>1, PTL DEF Spec

-----------------------------------------------------------------------------
(* What holds *)

\* Every variable keeps its type, and while the service lives a workspace with an
\* attempt under way is locked by the stream that charged it (server.go:258-270,
\* release.go:48-52).
THEOREM TypeCorrectness == Spec => []TypeOK
<1>1. IInv => TypeOK
  BY DEF IInv, Typed, ChargeInv, Alive, TypeOK
<1> QED
  BY <1>1, IInvariant, PTL

\* However streams, retries, disconnecting clients and a shutdown interleave, a
\* stream that has ended told its outcome last, once and truly, with contiguous
\* numbers, and its engine has let go of the workspace (server.go:258-270).
THEOREM OutcomeIsLast == Spec => []EndsWithOutcome
<1>1. IInv => EndsWithOutcome
  <2> SUFFICES ASSUME IInv, NEW s \in Streams, stream[s].pc = "done"
               PROVE  LET e == stream[s].events
                      IN /\ \A i \in 1..Len(e) :
                              e[i].seq = i /\ (e[i].type # "progress") = (i = Len(e))
                         /\ e # <<>>
                         /\ (e[Len(e)].type = "complete") = ~stream[s].failed
                         /\ (e[Len(e)].type = "canceled")
                              = (stream[s].failed /\ stream[s].canceled)
                         /\ \A w \in Workspaces : lock[w] # s
    BY DEF EndsWithOutcome
  <2>1. Told(stream[s])
    BY DEF IInv, EventsInv
  <2>2. \A w \in Workspaces : lock[w] # s
    BY DEF IInv, LockInv, Holding
  <2> QED
    BY <2>1, <2>2 DEF Told
<1> QED
  BY <1>1, IInvariant, PTL
=============================================================================
