----------------------------- MODULE StateStore -----------------------------
(***************************************************************************)
(* The durable record and its locks (state.go): the steps of writeState    *)
(* and ReadState, lockConfig's two file locks, and the processes that use  *)
(* them, daemons (Run) and retry commands (Retry), which may be killed at  *)
(* any step, beside power losses that keep only what had reached the disk. *)
(* ReleaseJob and Cadence take all this as one step with three outcomes,   *)
(* and leave out what only a loss of power brings back: a record that was  *)
(* replaced by a write not yet reported as successful.                     *)
(*                                                                         *)
(* Abstractions.  A version of the record is the number of its write, and  *)
(* 0 is no file; what is in it is its writer's checkout, which ReadState   *)
(* compares, and the version its writer had read.  A daemon's cycle is     *)
(* reading, then writing any number of times.                              *)
(***************************************************************************)
EXTENDS Integers, Sequences, FiniteSets

CONSTANTS
  Procs,      \* processes
  Retries,    \* those that are retry commands
  StateDir,   \* the state directory each is configured with
  Checkout,   \* the checkout each is configured with
  None,       \* no process
  Torn,       \* a file with a part of its contents
  MaxWrites,  \* bound: writes begun
  MaxFaults   \* bound: failed calls, kills and power losses

Dirs      == {StateDir[p] : p \in Procs}
Checkouts == {Checkout[p] : p \in Procs}

ASSUME ConstantsAssumption ==
  /\ Retries \subseteq Procs /\ None \notin Procs
  /\ DOMAIN StateDir = Procs /\ DOMAIN Checkout = Procs
  /\ MaxWrites \in Nat /\ MaxFaults \in Nat /\ Torn \notin Nat

VARIABLES
  proc,          \* the processes
  stateLock,     \* the holder of each daemon.lock
  checkoutLock,  \* the holder of each checkout's lock file
  file,          \* what state.json in each directory reads as
  onDisk,        \* what it may read as after a loss of power
  log,           \* ghost: the writes begun
  acked,         \* ghost: the last write reported as successful
  faults         \* bound: faults so far

locks == <<stateLock, checkoutLock>>
disk  == <<file, onDisk>>
vars  == <<proc, locks, disk, log, acked, faults>>

Pcs == {"off", "lockState", "lockCheckout", "read", "modify",
        "written", "synced", "renamed", "unlockCheckout", "unlockState"}

Off == [pc |-> "off", base |-> 0, new |-> 0, whole |-> FALSE]

TypeOK ==
  /\ proc \in [Procs -> [pc : Pcs, base : Nat, new : 0..MaxWrites, whole : BOOLEAN]]
  /\ stateLock \in [Dirs -> Procs \union {None}]
  /\ checkoutLock \in [Checkouts -> Procs \union {None}]
  /\ file \in [Dirs -> 0..MaxWrites \union {Torn}]
  /\ \A d \in Dirs : file[d] \in onDisk[d] /\ acked[d] \in 0..MaxWrites
  /\ Len(log) <= MaxWrites /\ faults \in 0..MaxFaults
  \* A lock is held by a process that is alive and knows of it.
  /\ \A d \in Dirs : stateLock[d] # None =>
       proc[stateLock[d]].pc \notin {"off", "lockState"}
  /\ \A c \in Checkouts : checkoutLock[c] # None =>
       proc[checkoutLock[c]].pc \notin
         {"off", "lockState", "lockCheckout", "unlockState"}

Goto(p, pc) == proc' = [proc EXCEPT ![p].pc = pc]

-----------------------------------------------------------------------------
(* lockConfig *)

Start(p) ==
  /\ proc[p].pc = "off"
  /\ Goto(p, "lockState")
  /\ UNCHANGED <<locks, disk, log, acked, faults>>

\* Mutant of Free: flock is asked for a shared lock.
Shared(holder) == TRUE

Free(holder) == holder = None

LockState(p) ==
  /\ proc[p].pc = "lockState"
  /\ LET d == StateDir[p]
     IN IF Free(stateLock[d])
        THEN stateLock' = [stateLock EXCEPT ![d] = p] /\ Goto(p, "lockCheckout")
        ELSE Goto(p, "off") /\ UNCHANGED stateLock
  /\ UNCHANGED <<checkoutLock, disk, log, acked, faults>>

\* Mutant of GiveBack: the early return forgets the first lock.
KeepFirst(p) == UNCHANGED stateLock

GiveBack(p) == stateLock' = [stateLock EXCEPT ![StateDir[p]] = None]

LockCheckout(p) ==
  /\ proc[p].pc = "lockCheckout"
  /\ LET c == Checkout[p]
     IN IF checkoutLock[c] = None
        THEN /\ checkoutLock' = [checkoutLock EXCEPT ![c] = p]
             /\ Goto(p, "read") /\ UNCHANGED stateLock
        ELSE /\ GiveBack(p)
             /\ Goto(p, "off") /\ UNCHANGED checkoutLock
  /\ UNCHANGED <<disk, log, acked, faults>>

UnlockCheckout(p) ==
  /\ proc[p].pc = "unlockCheckout"
  /\ checkoutLock' = [checkoutLock EXCEPT ![Checkout[p]] = None]
  /\ Goto(p, "unlockState")
  /\ UNCHANGED <<stateLock, disk, log, acked, faults>>

UnlockState(p) ==
  /\ proc[p].pc = "unlockState"
  /\ GiveBack(p)
  /\ proc' = [proc EXCEPT ![p] = Off]
  /\ UNCHANGED <<checkoutLock, disk, log, acked, faults>>

-----------------------------------------------------------------------------
(* ReadState, and what its callers do with an error *)

\* The file is absent, or a whole record of this configuration.
Readable(p) ==
  LET v == file[StateDir[p]]
  IN  v = 0 \/ (v # Torn /\ log[v].checkout = Checkout[p])

\* A retry needs a record; a daemon begins one, and tries again after an error.
Read(p) ==
  /\ proc[p].pc = "read"
  /\ LET v == file[StateDir[p]]
     IN CASE ~Readable(p) \/ (p \in Retries /\ v = 0) ->
               IF p \in Retries THEN Goto(p, "unlockCheckout") ELSE UNCHANGED proc
          [] OTHER -> proc' = [proc EXCEPT ![p].pc = "modify", ![p].base = v]
  /\ UNCHANGED <<locks, disk, log, acked, faults>>

\* The cycle ends without another write, or the daemon stops.
EndCycle(p) ==
  /\ proc[p].pc = "modify" /\ p \notin Retries
  /\ Goto(p, "read")
  /\ UNCHANGED <<locks, disk, log, acked, faults>>

Quit(p) ==
  /\ proc[p].pc \in {"read", "modify"} /\ p \notin Retries
  /\ Goto(p, "unlockCheckout")
  /\ UNCHANGED <<locks, disk, log, acked, faults>>

-----------------------------------------------------------------------------
(* writeState *)

WriteTemp(p) ==
  /\ proc[p].pc = "modify"
  /\ Len(log) < MaxWrites
  /\ log' = Append(log, [checkout |-> Checkout[p], base |-> proc[p].base])
  /\ proc' = [proc EXCEPT ![p].pc = "written", ![p].new = Len(log) + 1,
                          ![p].whole = FALSE]
  /\ UNCHANGED <<locks, disk, acked, faults>>

\* Mutant of Synced: f.Sync is left to the system.
Unsynced == FALSE

Synced == TRUE

SyncTemp(p) ==
  /\ proc[p].pc = "written"
  /\ proc' = [proc EXCEPT ![p].pc = "synced", ![p].whole = Synced]
  /\ UNCHANGED <<locks, disk, log, acked, faults>>

\* Everybody reads the new record at once; the disk may have either, and of a
\* file that was not synced perhaps a part.
Rename(p) ==
  /\ proc[p].pc = "synced"
  /\ LET d == StateDir[p]
     IN /\ file' = [file EXCEPT ![d] = proc[p].new]
        /\ onDisk' = [onDisk EXCEPT ![d] = @ \union
             {proc[p].new} \union IF proc[p].whole THEN {} ELSE {Torn}]
  /\ Goto(p, "renamed")
  /\ UNCHANGED <<locks, log, acked, faults>>

\* What follows the return of writeState.
Return(p, base) ==
  proc' = [proc EXCEPT
    ![p].base = base,
    ![p].pc = IF p \in Retries THEN "unlockCheckout" ELSE "modify"]

\* Mutant of SettledBy: the directory is not synced.
Lingering(p) == onDisk[StateDir[p]]

SettledBy(p) == {file[StateDir[p]]}

SyncDirectory(p) ==
  /\ proc[p].pc = "renamed"
  /\ onDisk' = [onDisk EXCEPT ![StateDir[p]] = SettledBy(p)]
  /\ acked' = [acked EXCEPT ![StateDir[p]] = proc[p].new]
  /\ Return(p, proc[p].new)
  /\ UNCHANGED <<locks, file, log, faults>>

\* A call of writeState fails; the writer keeps what it has in memory, which
\* after the rename is what everybody reads.
FailWrite(p) ==
  /\ proc[p].pc \in {"written", "synced", "renamed"}
  /\ faults < MaxFaults /\ faults' = faults + 1
  /\ Return(p, IF proc[p].pc = "renamed" THEN proc[p].new ELSE proc[p].base)
  /\ UNCHANGED <<locks, disk, log, acked>>

-----------------------------------------------------------------------------

\* The system closes the files of a process that dies, which unlocks them.
Kill(p) ==
  /\ proc[p].pc # "off"
  /\ faults < MaxFaults /\ faults' = faults + 1
  /\ proc' = [proc EXCEPT ![p] = Off]
  /\ stateLock' = [d \in Dirs |-> IF stateLock[d] = p THEN None ELSE stateLock[d]]
  /\ checkoutLock' =
       [c \in Checkouts |-> IF checkoutLock[c] = p THEN None ELSE checkoutLock[c]]
  /\ UNCHANGED <<disk, log, acked>>

PowerLoss ==
  /\ faults < MaxFaults /\ faults' = faults + 1
  /\ proc' = [p \in Procs |-> Off]
  /\ stateLock' = [d \in Dirs |-> None]
  /\ checkoutLock' = [c \in Checkouts |-> None]
  /\ file' \in {f \in [Dirs -> UNION {onDisk[d] : d \in Dirs}] :
                  \A d \in Dirs : f[d] \in onDisk[d]}
  /\ onDisk' = [d \in Dirs |-> {file'[d]}]
  /\ UNCHANGED <<log, acked>>

Init ==
  /\ proc = [p \in Procs |-> Off]
  /\ stateLock = [d \in Dirs |-> None]
  /\ checkoutLock = [c \in Checkouts |-> None]
  /\ file = [d \in Dirs |-> 0]
  /\ onDisk = [d \in Dirs |-> {0}]
  /\ log = <<>>
  /\ acked = [d \in Dirs |-> 0]
  /\ faults = 0

Step(p) ==
  \/ Start(p) \/ LockState(p) \/ LockCheckout(p)
  \/ Read(p) \/ EndCycle(p) \/ Quit(p)
  \/ WriteTemp(p) \/ SyncTemp(p) \/ Rename(p) \/ SyncDirectory(p)
  \/ FailWrite(p) \/ UnlockCheckout(p) \/ UnlockState(p) \/ Kill(p)

Next == (\E p \in Procs : Step(p)) \/ PowerLoss

Spec == Init /\ [][Next]_vars

-----------------------------------------------------------------------------
(* Properties *)

\* A process that works on its record and its checkout.
Working(p) ==
  proc[p].pc \notin {"off", "lockState", "lockCheckout", "unlockState"}

\* Two processes that share a state directory or a checkout never work at the
\* same time, however they start, fail half-way or die (state.go:114-125).
MutualExclusion ==
  \A p, q \in Procs :
    p # q /\ (StateDir[p] = StateDir[q] \/ Checkout[p] = Checkout[q])
      => ~(Working(p) /\ Working(q))

\* state.json is absent or whole at every moment, for readers without a lock
\* (brb status) and after a loss of power at any step (state.go:70-99).
RecordIsWhole == \A d \in Dirs : Torn \notin onDisk[d] \union {file[d]}

\* A write that was reported as successful survives whatever follows: what is
\* read, or would be after a loss of power, is never older (state.go:93-98).
AcknowledgedIsDurable ==
  \A d \in Dirs : \A v \in onDisk[d] \ {Torn} : v >= acked[d]

\* Every new record was made from the one it replaces, so that neither a
\* retry nor a daemon undoes what the other wrote (state.go:126-142).
NoLostUpdate ==
  [][\A d \in Dirs : file'[d] # file[d] /\ file'[d] \notin onDisk[d] =>
       log[file'[d]].base = file[d]]_vars
=============================================================================
