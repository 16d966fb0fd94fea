--------------------------- MODULE Command_proofs ---------------------------
(***************************************************************************)
(* Theorems about Command, for all processes, capacities and amounts of    *)
(* output: what the buffer keeps, what a result without an error says, and *)
(* what a cancelled command leaves behind.                                 *)
(***************************************************************************)
EXTENDS Command, SequenceTheorems, TLAPS

\* The bytes after the first a, up to the b-th.
Bytes(a, b) == [i \in 1..(b - a) |-> a + i]

\* The first byte a buffer has let go of, after n bytes.
Gone(n) == IF n > Capacity THEN n - Capacity ELSE 0

TypeOK ==
  /\ pc \in {"start", "running", "reaped", "draining", "done"}
  /\ canceled \in BOOLEAN
  /\ watch \in {"watching", "killed", "gone"}
  /\ proc \in [Procs -> {"absent", "alive", "dead"}]
  /\ exit \in {"none", "ok", "failed", "killed"}
  /\ written \in Nat /\ copied \in 0..written
  /\ closed \in BOOLEAN

\* What the buffer is after the bytes copied so far.
TailInv == tail = [bytes |-> Bytes(Gone(copied), copied), truncated |-> copied > Capacity]

\* Whoever was killed is gone, with the group.
KillInv ==
  /\ pc = "start" => watch = "watching" /\ exit = "none" /\ Alive = {}
  /\ exit = "killed" => watch = "killed"
  /\ watch = "killed" => Alive \subseteq Daemons

IInv == TypeOK /\ TailInv /\ KillInv /\ SuccessIsComplete /\ CancelledLeavesNothing

-----------------------------------------------------------------------------
(* The buffer *)

LEMMA BytesLen ==
  ASSUME NEW a \in Nat, NEW b \in Nat, a <= b
  PROVE  /\ Bytes(a, b) \in Seq(Nat) /\ Len(Bytes(a, b)) = b - a
         /\ \A i \in 1..(b - a) : Bytes(a, b)[i] = a + i
<1>1. b - a \in Nat
  OBVIOUS
<1>2. \A i \in 1..(b - a) : a + i \in Nat
  OBVIOUS
<1>3. Bytes(a, b) \in [1..(b - a) -> Nat]
  BY <1>2 DEF Bytes
<1> QED
  BY <1>1, <1>3 DEF Bytes

\* The newest bytes of a run of bytes.
LEMMA NewestBytes ==
  ASSUME NEW a \in Nat, NEW b \in Nat, a <= b, NEW n \in Nat
  PROVE  Newest(Bytes(a, b), n) = Bytes(IF b - a > n THEN b - n ELSE a, b)
<1>1. CASE b - a > n
  <2>1. Newest(Bytes(a, b), n) = SubSeq(Bytes(a, b), b - a - n + 1, b - a)
    BY <1>1, BytesLen DEF Newest
  <2>2. SubSeq(Bytes(a, b), b - a - n + 1, b - a)
          = [i \in 1..n |-> Bytes(a, b)[b - a - n + i]]
    BY <1>1, BytesLen
  <2>3. \A i \in 1..n : Bytes(a, b)[b - a - n + i] = (b - n) + i
    BY <1>1, BytesLen
  <2>4. Bytes(b - n, b) = [i \in 1..n |-> (b - n) + i]
    BY <1>1 DEF Bytes
  <2> QED
    BY <1>1, <2>1, <2>2, <2>3, <2>4
<1>2. CASE ~(b - a > n)
  BY <1>2, BytesLen DEF Newest
<1> QED
  BY <1>1, <1>2

\* Two runs of bytes that meet are one.
LEMMA BytesConcat ==
  ASSUME NEW a \in Nat, NEW b \in Nat, NEW c \in Nat, a <= b, b <= c
  PROVE  Bytes(a, b) \o Bytes(b, c) = Bytes(a, c)
<1> DEFINE s == Bytes(a, b)  t == Bytes(b, c)
<1>1. /\ s \in Seq(Nat) /\ Len(s) = b - a /\ \A i \in 1..(b - a) : s[i] = a + i
      /\ t \in Seq(Nat) /\ Len(t) = c - b /\ \A i \in 1..(c - b) : t[i] = b + i
  BY BytesLen
<1> HIDE DEF s, t
<1>2. /\ s \o t \in Seq(Nat) /\ Len(s \o t) = c - a
      /\ \A i \in 1..(c - a) : (s \o t)[i] = IF i <= b - a THEN s[i] ELSE t[i - (b - a)]
  <2>1. /\ s \o t \in Seq(Nat) /\ Len(s \o t) = Len(s) + Len(t)
        /\ \A i \in 1..(Len(s) + Len(t)) :
             (s \o t)[i] = IF i <= Len(s) THEN s[i] ELSE t[i - Len(s)]
    BY <1>1, ConcatProperties
  <2>2. Len(s) + Len(t) = c - a
    BY <1>1
  <2> QED
    BY <1>1, <2>1, <2>2
<1>3. \A i \in 1..(c - a) : (s \o t)[i] = a + i
  BY <1>1, <1>2
<1>4. /\ Bytes(a, c) \in Seq(Nat) /\ Len(Bytes(a, c)) = c - a
      /\ \A i \in 1..(c - a) : Bytes(a, c)[i] = a + i
  BY BytesLen
<1>5. s \o t = Bytes(a, c)
  BY <1>2, <1>3, <1>4, SeqEqual
<1> QED
  BY <1>5 DEF s, t

LEMMA GoneType ==
  ASSUME NEW n \in Nat
  PROVE  Gone(n) \in Nat /\ Gone(n) <= n
BY ConstantsAssumption DEF Gone

\* A write of the bytes up to m leaves what one would keep of all of them.
LEMMA WriteKeeps ==
  ASSUME NEW n \in Nat, NEW m \in Nat, n <= m,
         NEW t, t = [bytes |-> Bytes(Gone(n), n), truncated |-> n > Capacity]
  PROVE  Written(t, Bytes(n, m)) = [bytes |-> Bytes(Gone(m), m), truncated |-> m > Capacity]
<1> DEFINE p == Bytes(n, m)
           q == Newest(p, Capacity)
           from == IF m - n > Capacity THEN m - Capacity ELSE n
           kept == Newest(t.bytes, Capacity - Len(q))
           start == IF n - Gone(n) > Capacity - Len(q) THEN n - (Capacity - Len(q)) ELSE Gone(n)
<1>1. Capacity \in Nat
  BY ConstantsAssumption
<1>2. Len(p) = m - n
  BY BytesLen
<1>3. from \in Nat /\ n <= from /\ from <= m
  BY <1>1
<1>4. q = Bytes(from, m)
  BY <1>1, NewestBytes
<1>5. Len(q) = m - from
  <2>1. Len(Bytes(from, m)) = m - from
    BY <1>3, BytesLen
  <2> QED
    BY <1>4, <2>1
<1>6. Capacity - Len(q) \in Nat
  BY <1>1, <1>3, <1>5
<1>7. /\ t.bytes = Bytes(Gone(n), n) /\ t.truncated = (n > Capacity)
      /\ Gone(n) \in Nat /\ Gone(n) <= n /\ Len(t.bytes) = n - Gone(n)
  BY GoneType, BytesLen
<1>8. Gone(n) = IF n > Capacity THEN n - Capacity ELSE 0
  BY DEF Gone
<1>9. Gone(m) = IF m > Capacity THEN m - Capacity ELSE 0
  BY DEF Gone
<1>10. kept = Bytes(start, n)
  <2> HIDE DEF q
  <2>1. Newest(Bytes(Gone(n), n), Capacity - Len(q)) = Bytes(start, n)
    BY <1>6, <1>7, NewestBytes
  <2> QED
    BY <1>7, <2>1
<1> HIDE DEF q, kept
<1>11. kept \o q = Bytes(Gone(m), m)
  <2>1. CASE m - n > Capacity
    <3>1. from = Gone(m) /\ start = n
      BY <1>1, <1>5, <1>7, <1>9, <2>1
    <3>2. kept \o q = Bytes(n, n) \o Bytes(from, m)
      BY <1>4, <1>10, <3>1
    <3>3. Bytes(n, n) = <<>> /\ Bytes(from, m) \in Seq(Nat)
      BY <1>3, BytesLen DEF Bytes
    <3> QED
      BY <3>1, <3>2, <3>3
  <2>2. CASE ~(m - n > Capacity)
    <3>1. from = n /\ start = Gone(m) /\ Gone(m) \in Nat /\ Gone(m) <= n
      BY <1>1, <1>5, <1>7, <1>8, <1>9, <2>2
    <3> HIDE DEF from, start
    <3>2. kept \o q = Bytes(Gone(m), n) \o Bytes(n, m)
      BY <1>4, <1>10, <3>1
    <3> QED
      BY <3>1, <3>2, BytesConcat
  <2> QED
    BY <2>1, <2>2
<1>12. (n > Capacity \/ m - n > Capacity \/ n - Gone(n) + (m - from) > Capacity) = (m > Capacity)
  BY <1>1, <1>8
<1>13. Written(t, p) = [bytes |-> kept \o q,
         truncated |-> n > Capacity \/ m - n > Capacity \/ n - Gone(n) + (m - from) > Capacity]
  BY <1>2, <1>5, <1>7 DEF Written, q, kept
<1> HIDE DEF p, from
<1> QED
  BY <1>11, <1>12, <1>13 DEF p

-----------------------------------------------------------------------------
(* What the steps preserve *)

LEMMA TailImplies ==
  ASSUME TypeOK, TailInv
  PROVE  TailIsLatest /\ (copied <= Capacity => Text(tail) = Bytes(0, copied))
<1>1. copied \in Nat /\ Capacity \in Nat
  BY ConstantsAssumption DEF TypeOK
<1>2. tail.bytes = Bytes(Gone(copied), copied) /\ tail.truncated = (copied > Capacity)
  BY DEF TailInv
<1>3. /\ tail.bytes \in Seq(Nat) /\ Len(tail.bytes) = copied - Gone(copied)
      /\ \A i \in 1..(copied - Gone(copied)) : tail.bytes[i] = Gone(copied) + i
      /\ Gone(copied) \in Nat /\ Gone(copied) <= copied
  <2> DEFINE g == Gone(copied)
  <2>1. g \in Nat /\ g <= copied
    BY <1>1, GoneType
  <2> HIDE DEF g
  <2>2. /\ Bytes(g, copied) \in Seq(Nat) /\ Len(Bytes(g, copied)) = copied - g
        /\ \A i \in 1..(copied - g) : Bytes(g, copied)[i] = g + i
    BY <1>1, <2>1, BytesLen
  <2> QED
    BY <1>2, <2>1, <2>2 DEF g
<1>4. tail.bytes = Newest([i \in 1..copied |-> i], Capacity)
  <2>1. [i \in 1..copied |-> i] = Bytes(0, copied)
    BY <1>1 DEF Bytes
  <2>2. Newest(Bytes(0, copied), Capacity) = Bytes(Gone(copied), copied)
    <3>1. Newest(Bytes(0, copied), Capacity)
            = Bytes(IF copied - 0 > Capacity THEN copied - Capacity ELSE 0, copied)
      BY <1>1, NewestBytes
    <3> QED
      BY <1>1, <3>1 DEF Gone
  <2> QED
    BY <1>2, <2>1, <2>2
<1>5. Text(tail) # <<>> => RuneStart(Text(tail)[1])
  <2>1. CASE tail.bytes = <<>>
    BY <2>1 DEF Text
  <2>2. CASE tail.bytes # <<>> /\ RuneStart(tail.bytes[1])
    BY <2>2 DEF Text
  <2>3. CASE tail.bytes # <<>> /\ ~RuneStart(tail.bytes[1])
    <3>1. Text(tail) = Tail(tail.bytes)
      BY <2>3 DEF Text
    <3>2. CASE Len(tail.bytes) = 1
      BY <1>3, <3>1, <3>2
    <3>3. CASE Len(tail.bytes) > 1
      <4>1. Tail(tail.bytes)[1] = tail.bytes[2]
        BY <1>3, <3>3
      <4>2. tail.bytes[1] = Gone(copied) + 1 /\ tail.bytes[2] = Gone(copied) + 2
        BY <1>3, <3>3
      <4>3. (Gone(copied) + 1) % 2 # 1 => (Gone(copied) + 2) % 2 = 1
        BY <1>3
      <4> QED
        BY <2>3, <3>1, <4>1, <4>2, <4>3 DEF RuneStart
    <3> QED
      BY <1>3, <2>3, <3>2, <3>3
  <2> QED
    BY <2>1, <2>2, <2>3
<1>6. copied <= Capacity => Text(tail) = Bytes(0, copied)
  <2> SUFFICES ASSUME copied <= Capacity PROVE Text(tail) = Bytes(0, copied)
    OBVIOUS
  <2>1. Gone(copied) = 0 /\ tail.bytes = Bytes(0, copied)
    BY <1>1, <1>2 DEF Gone
  <2>2. tail.bytes # <<>> => tail.bytes[1] = 1
    BY <1>3, <2>1
  <2> QED
    BY <2>1, <2>2 DEF Text, RuneStart
<1> QED
  BY <1>2, <1>4, <1>5, <1>6 DEF TailIsLatest

LEMMA InitIInv == Init => IInv
<1> SUFFICES ASSUME Init PROVE IInv
  OBVIOUS
<1>1. pc = "start" /\ exit = "none" /\ Alive = {}
  BY DEF Init, Alive
<1>5. TypeOK
  <2>1. /\ pc = "start" /\ canceled = FALSE /\ watch = "watching" /\ exit = "none"
        /\ written = 0 /\ copied = 0 /\ closed = FALSE
        /\ proc = [p \in Procs |-> "absent"]
    BY DEF Init
  <2>2. proc \in [Procs -> {"absent", "alive", "dead"}]
    BY <2>1
  <2>3. written \in Nat /\ copied \in 0..written
    BY <2>1
  <2> QED
    BY <2>1, <2>2, <2>3 DEF TypeOK
<1>6. KillInv
  BY <1>1 DEF Init, KillInv
<1>7. SuccessIsComplete /\ CancelledLeavesNothing
  BY <1>1 DEF SuccessIsComplete, CancelledLeavesNothing
<1>2. Gone(0) = 0 /\ ~(0 > Capacity)
  BY ConstantsAssumption DEF Gone
<1>3. Bytes(0, 0) = <<>>
  BY DEF Bytes
<1>4. TailInv
  <2>1. tail = [bytes |-> <<>>, truncated |-> FALSE] /\ copied = 0
    BY DEF Init
  <2>2. (copied > Capacity) = FALSE
    BY <1>2, <2>1
  <2> QED
    BY <1>2, <1>3, <2>1, <2>2 DEF TailInv
<1> QED
  BY <1>4, <1>5, <1>6, <1>7 DEF IInv

LEMMA TypeStep == TypeOK /\ [Next]_vars => TypeOK'
<1> SUFFICES ASSUME TypeOK, [Next]_vars PROVE TypeOK'
  OBVIOUS
<1> USE DEF TypeOK
<1>1. CASE Runner
  BY <1>1 DEF Runner, Refuse, Start, Reap, Watched, GiveUp, Finish, Return, Procs, Group
<1>2. CASE Kill
  BY <1>2 DEF Kill
<1>3. CASE Copier
  BY <1>3 DEF Copier, Copy
<1>4. CASE Cancel
  BY <1>4 DEF Cancel
<1>5. ASSUME NEW p \in Procs, NEW q \in Procs, Fork(p, q) PROVE TypeOK'
  BY <1>5 DEF Fork
<1>6. ASSUME NEW p \in Procs, Write(p) PROVE TypeOK'
  BY <1>6 DEF Write
<1>7. ASSUME NEW p \in Procs, Exit(p) PROVE TypeOK'
  BY <1>7 DEF Exit
<1>8. CASE UNCHANGED vars
  BY <1>8 DEF vars
<1> QED
  BY <1>1, <1>2, <1>3, <1>4, <1>5, <1>6, <1>7, <1>8 DEF Next

LEMMA TailStep == TypeOK /\ TailInv /\ [Next]_vars => TailInv'
<1> SUFFICES ASSUME TypeOK, TailInv, [Next]_vars PROVE TailInv'
  OBVIOUS
<1>1. ASSUME UNCHANGED <<tail, copied>> PROVE TailInv'
  BY <1>1 DEF TailInv
<1>2. ASSUME NEW n \in 1..MaxWritten, Copy(n) PROVE TailInv'
  <2> DEFINE m == copied + n
  <2>1. copied \in Nat /\ m \in Nat /\ copied <= m /\ n \in Nat
    BY ConstantsAssumption DEF TypeOK
  <2>2. copied' = m /\ tail' = Written(tail, Chunk(n))
    BY <1>2 DEF Copy
  <2>3. Chunk(n) = Bytes(copied, m)
    <3>1. m - copied = n
      BY <2>1
    <3> QED
      BY <3>1 DEF Chunk, Bytes
  <2> HIDE DEF m
  <2>4. tail' = [bytes |-> Bytes(Gone(m), m), truncated |-> m > Capacity]
    BY <2>1, <2>2, <2>3, WriteKeeps DEF TailInv
  <2> QED
    BY <2>2, <2>4 DEF TailInv
<1>3. CASE Runner
  BY <1>1, <1>3 DEF Runner, Refuse, Start, Reap, Watched, GiveUp, Finish
<1> QED
  BY <1>1, <1>2, <1>3 DEF Next, Kill, Copier, Cancel, Fork, Write, Exit, vars

LEMMA KillStep == TypeOK /\ KillInv /\ [Next]_vars => KillInv'
<1> SUFFICES ASSUME TypeOK, KillInv, [Next]_vars PROVE KillInv'
  OBVIOUS
<1> USE DEF KillInv
<1>1. CASE Runner
  <2>1. CASE Start
    BY <2>1 DEF Start
  <2>2. CASE ~Start
    BY <1>1, <2>2 DEF Runner, Refuse, Reap, Watched, GiveUp, Finish, Return, Alive
  <2> QED
    BY <2>1, <2>2
<1>2. CASE Kill
  BY <1>2 DEF Kill, Killed, Alive, Procs, Group, TypeOK
<1>3. ASSUME UNCHANGED <<pc, watch, proc, exit>> PROVE KillInv'
  BY <1>3 DEF Alive
<1>4. ASSUME NEW p \in Procs, NEW q \in Procs, Fork(p, q) PROVE KillInv'
  BY <1>4 DEF Fork, Alive, TypeOK
<1>5. ASSUME NEW p \in Procs, Exit(p) PROVE KillInv'
  <2>1. p \in Alive /\ Alive' \subseteq Alive /\ UNCHANGED <<pc, watch>>
    BY <1>5 DEF Exit, Alive, TypeOK
  <2>2. exit' = "killed" => exit = "killed"
    BY <1>5 DEF Exit
  <2> QED
    BY <2>1, <2>2
<1> QED
  BY <1>1, <1>2, <1>3, <1>4, <1>5 DEF Next, Copier, Copy, Cancel, Write, vars

LEMMA SuccessStep ==
  TypeOK /\ TailInv /\ SuccessIsComplete /\ [Next]_vars => SuccessIsComplete'
<1> SUFFICES ASSUME TypeOK, TailInv, SuccessIsComplete, [Next]_vars,
                    pc' = "done", result'.error = "none"
             PROVE  exit' = "ok" /\ Alive' = {} /\ result'.text = [i \in 1..written' |-> i]
  BY DEF SuccessIsComplete
<1>1. CASE Finish
  <2>1. WaitError = "none" /\ ~Cut /\ result'.text = Text(tail)
    BY <1>1 DEF Finish, Return
  <2>2. exit = "ok" /\ ~closed
    BY <2>1 DEF WaitError
  <2>3. Alive = {} /\ copied = written
    BY <1>1, <2>2 DEF Finish, EndOfFile
  <2>4. copied \in Nat /\ copied <= Capacity
    <3>1. tail.truncated = (copied > Capacity)
      BY DEF TailInv
    <3>2. ~(copied > Capacity)
      BY <2>1, <3>1 DEF Cut
    <3> QED
      BY <3>2, ConstantsAssumption DEF TypeOK
  <2>5. Text(tail) = Bytes(0, copied)
    BY <2>4, TailImplies
  <2>6. Bytes(0, copied) = [i \in 1..copied |-> i]
    BY <2>4 DEF Bytes
  <2>7. UNCHANGED <<exit, proc, written>>
    BY <1>1 DEF Finish
  <2> QED
    BY <2>1, <2>2, <2>3, <2>5, <2>6, <2>7 DEF Alive
<1>2. CASE pc = "done"
  <2>1. UNCHANGED result => exit = "ok" /\ Alive = {} /\ result.text = [i \in 1..written |-> i]
    BY <1>2 DEF SuccessIsComplete
  <2>2. UNCHANGED result
    BY <1>2 DEF Next, Runner, Refuse, Start, Reap, Watched, GiveUp, Finish, Kill, Copier,
               Copy, Cancel, Fork, Write, Exit, vars
  <2>3. UNCHANGED <<exit, proc, written>>
    BY <1>2, <2>1, <2>2 DEF Next, Runner, Refuse, Start, Reap, Watched, GiveUp, Finish, Kill,
               Copier, Copy, Cancel, Fork, Write, Exit, vars
  <2> QED
    BY <2>1, <2>2, <2>3 DEF Alive
<1>3. CASE Refuse
  BY <1>3 DEF Refuse, Return
<1> QED
  BY <1>1, <1>2, <1>3 DEF Next, Runner, Start, Reap, Watched, GiveUp, Kill, Copier, Copy,
                          Cancel, Fork, Write, Exit, vars

LEMMA CancelledStep ==
  TypeOK /\ KillInv /\ KillInv' /\ CancelledLeavesNothing /\ [Next]_vars
    => CancelledLeavesNothing'
<1> SUFFICES ASSUME TypeOK, KillInv, KillInv', CancelledLeavesNothing, [Next]_vars,
                    pc' = "done", exit' = "killed" \/ result'.error = "canceled"
             PROVE  Alive' \subseteq Daemons
  BY DEF CancelledLeavesNothing
<1>1. CASE Finish
  <2>1. exit = "killed" \/ WaitError = "canceled"
    BY <1>1 DEF Finish, Return
  <2>2. watch = "killed" /\ UNCHANGED proc
    BY <1>1, <2>1 DEF Finish, WaitError, KillInv
  <2> QED
    BY <2>2 DEF KillInv, Alive
<1>2. CASE Refuse
  BY <1>2 DEF Refuse, KillInv, Alive
<1>3. CASE pc = "done"
  <2>1. /\ UNCHANGED result /\ (exit' = "killed" => exit = "killed")
        /\ UNCHANGED proc \/ (\E p, q \in Procs : Fork(p, q)) \/ (\E p \in Procs : Exit(p))
    BY <1>3 DEF Next, Runner, Refuse, Start, Reap, Watched, GiveUp, Finish, Kill, Copier,
               Copy, Cancel, Fork, Write, Exit, vars
  <2>2. Alive \subseteq Daemons
    BY <1>3, <2>1 DEF CancelledLeavesNothing
  <2>3. CASE UNCHANGED proc
    BY <2>2, <2>3 DEF Alive
  <2>4. ASSUME NEW p \in Procs, NEW q \in Procs, Fork(p, q) PROVE Alive' \subseteq Daemons
    BY <2>2, <2>4 DEF Fork, Alive, TypeOK
  <2>5. ASSUME NEW p \in Procs, Exit(p) PROVE Alive' \subseteq Daemons
    BY <2>2, <2>5 DEF Exit, Alive, TypeOK
  <2> QED
    BY <2>1, <2>3, <2>4, <2>5
<1> QED
  BY <1>1, <1>2, <1>3 DEF Next, Runner, Start, Reap, Watched, GiveUp, Kill, Copier, Copy,
                          Cancel, Fork, Write, Exit, vars

LEMMA IInvStep == IInv /\ [Next]_vars => IInv'
BY TypeStep, TailStep, KillStep, SuccessStep, CancelledStep DEF IInv

LEMMA IInvHolds == Spec => []IInv
BY InitIInv, IInvStep, PTL DEF Spec

-----------------------------------------------------------------------------
(* Theorems *)

\* The buffer of every command holds exactly the last bytes that were copied, for
\* every capacity and every way the output is cut into writes (run.go:24-47).
THEOREM BufferKeepsLatest == Spec => []TailIsLatest
<1>1. IInv => TailIsLatest
  BY TailImplies DEF IInv
<1> QED
  BY IInvHolds, <1>1, PTL

\* An answer without an error is all the output of a command that succeeded and
\* left nobody who could add to it (run.go:72-91).
THEOREM AnswersAreComplete == Spec => []SuccessIsComplete
<1>1. IInv => SuccessIsComplete
  BY DEF IInv
<1> QED
  BY IInvHolds, <1>1, PTL

\* A command reported as cancelled has left nothing of its process group
\* behind, whatever it had forked (run.go:55-67).
THEOREM CancellationIsWhole == Spec => []CancelledLeavesNothing
<1>1. IInv => CancelledLeavesNothing
  BY DEF IInv
<1> QED
  BY IInvHolds, <1>1, PTL
=============================================================================
