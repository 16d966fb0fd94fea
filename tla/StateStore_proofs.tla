-------------------------- MODULE StateStore_proofs --------------------------
(***************************************************************************)
(* Machine-checked proofs about StateStore, for any processes, directories *)
(* and checkouts, any number of writes and faults.  The argument: whoever  *)
(* is past a lock's step holds it (Locks); therefore the record that a     *)
(* process has read stays the one in its directory until it writes itself  *)
(* (Records); and what may be on the disk lies between the last record     *)
(* that was acknowledged and the newest (Disk).                            *)
(***************************************************************************)
EXTENDS StateStore, TLAPS

Versions == 0..MaxWrites

Entry == [checkout : Checkouts, base : Versions]

Process == [pc : Pcs, base : Versions, new : Versions, whole : BOOLEAN]

\* TypeOK speaks of part of this only.
Types ==
  /\ proc \in [Procs -> Process]
  /\ stateLock \in [Dirs -> Procs \union {None}]
  /\ checkoutLock \in [Checkouts -> Procs \union {None}]
  /\ file \in [Dirs -> Versions]
  /\ onDisk \in [Dirs -> SUBSET Versions]
  /\ log \in Seq(Entry) /\ Len(log) <= MaxWrites
  /\ acked \in [Dirs -> 0..Len(log)]
  /\ faults \in 0..MaxFaults

\* The steps at which a process has its state directory's lock.
Locked(p) == proc[p].pc \notin {"off", "lockState"}

Locks ==
  /\ \A p \in Procs : Locked(p) => stateLock[StateDir[p]] = p
  /\ \A p \in Procs : Working(p) => checkoutLock[Checkout[p]] = p
  /\ \A d \in Dirs : stateLock[d] # None =>
       StateDir[stateLock[d]] = d /\ Locked(stateLock[d])
  /\ \A c \in Checkouts : checkoutLock[c] # None =>
       Checkout[checkoutLock[c]] = c /\ Working(checkoutLock[c])

Writing == {"written", "synced", "renamed"}

\* What a process knows of the record in its directory.
Knows(p) ==
  /\ proc[p].pc \in {"modify", "written", "synced"} =>
       proc[p].base = file[StateDir[p]]
  /\ proc[p].pc = "renamed" => proc[p].new = file[StateDir[p]]
  /\ proc[p].pc \in Writing =>
       proc[p].new \in 1..Len(log) /\ proc[p].new >= acked[StateDir[p]]
  /\ proc[p].pc \in {"written", "synced"} => log[proc[p].new].base = proc[p].base
  /\ proc[p].pc \in {"synced", "renamed"} => proc[p].whole

Records == \A p \in Procs : Knows(p)

Disk ==
  \A d \in Dirs :
    /\ file[d] \in onDisk[d]
    /\ \A v \in onDisk[d] : v >= acked[d]

Inv == Types /\ Locks /\ Records /\ Disk

-----------------------------------------------------------------------------

LEMMA Constants ==
  /\ \A p \in Procs : StateDir[p] \in Dirs /\ Checkout[p] \in Checkouts /\ p # None
  /\ MaxWrites \in Nat /\ MaxFaults \in Nat /\ Torn \notin Versions
  BY ConstantsAssumption DEF Dirs, Checkouts, Versions

LEMMA OffIsProcess == Off \in Process /\ Off.pc = "off"
  BY Constants DEF Off, Process, Pcs, Versions

LEMMA Initially == Init => Inv
  <1>. SUFFICES ASSUME Init PROVE Inv
    OBVIOUS
  <1>1. Off \in Process /\ Off.pc = "off"
    BY OffIsProcess
  <1>2. log \in Seq(Entry) /\ Len(log) = 0
    BY DEF Init
  <1>3. Types
    BY <1>1, <1>2, Constants DEF Init, Types, Versions
  <1>4. Locks
    BY <1>1, Constants DEF Init, Locks, Locked, Working
  <1>5. Records
    BY <1>1 DEF Init, Records, Knows, Writing
  <1>6. Disk
    BY DEF Init, Disk
  <1>. QED
    BY <1>3, <1>4, <1>5, <1>6 DEF Inv

\* What an action does to its process p: the others stay, and p's fields become
\* those of r.
Becomes(p, r) ==
  /\ proc' \in [Procs -> Process]
  /\ proc'[p] = r
  /\ \A q \in Procs : q # p => proc'[q] = proc[q]

LEMMA Moved ==
  ASSUME Types, NEW p \in Procs, NEW s \in Pcs, Goto(p, s)
  PROVE  /\ Becomes(p, [proc[p] EXCEPT !.pc = s])
         /\ proc'[p].pc = s /\ proc'[p].base = proc[p].base
         /\ proc'[p].new = proc[p].new /\ proc'[p].whole = proc[p].whole
  BY DEF Types, Process, Goto, Becomes

LEMMA Replaced ==
  ASSUME Types, NEW p \in Procs, NEW r \in Process, proc' = [proc EXCEPT ![p] = r]
  PROVE  Becomes(p, r)
  BY DEF Types, Becomes

LEMMA AnyPc ==
  /\ "off" \in Pcs /\ "lockState" \in Pcs /\ "lockCheckout" \in Pcs
  /\ "read" \in Pcs /\ "modify" \in Pcs /\ "written" \in Pcs /\ "synced" \in Pcs
  /\ "renamed" \in Pcs /\ "unlockCheckout" \in Pcs /\ "unlockState" \in Pcs
  BY DEF Pcs

\* Two processes that have locked the same directory are one.
LEMMA Alone ==
  ASSUME Types, Locks, NEW p \in Procs, NEW q \in Procs,
         Locked(p), Locked(q), StateDir[p] = StateDir[q]
  PROVE  p = q
  BY DEF Locks

-----------------------------------------------------------------------------
(* Locks.                                                                   *)

\* A step that leaves the locks alone, and its process on the same side.
LEMMA LocksStay ==
  ASSUME Types, Locks, NEW p \in Procs, NEW r, Becomes(p, r), UNCHANGED locks,
         Locked(p) <=> r.pc \notin {"off", "lockState"},
         Working(p) <=> r.pc \notin {"off", "lockState", "lockCheckout", "unlockState"}
  PROVE  Locks'
  <1>1. stateLock' = stateLock /\ checkoutLock' = checkoutLock
    BY DEF locks
  <1>2. \A q \in Procs : (Locked(q) <=> Locked(q)') /\ (Working(q) <=> Working(q)')
    BY DEF Becomes, Locked, Working
  <1>. QED
    BY <1>1, <1>2, Constants DEF Types, Locks

LEMMA LockStateLocks ==
  ASSUME Types, Locks, NEW p \in Procs, LockState(p)
  PROVE  Locks'
  <1>1. CASE stateLock[StateDir[p]] = None
    <2>1. Goto(p, "lockCheckout") /\ stateLock' = [stateLock EXCEPT ![StateDir[p]] = p]
          /\ checkoutLock' = checkoutLock /\ proc[p].pc = "lockState"
      BY <1>1 DEF LockState, Free
    <2>2. Becomes(p, [proc[p] EXCEPT !.pc = "lockCheckout"])
          /\ proc'[p].pc = "lockCheckout"
      BY <2>1, AnyPc, Moved
    <2>3. \A q \in Procs : (Working(q) <=> Working(q)')
                           /\ (q # p => (Locked(q) <=> Locked(q)'))
      BY <2>1, <2>2 DEF Becomes, Locked, Working
    <2>4. Locked(p)' /\ ~Locked(p)
      BY <2>1, <2>2 DEF Locked
    <2>. QED
      BY <1>1, <2>1, <2>3, <2>4, Constants DEF Types, Locks
  <1>2. CASE stateLock[StateDir[p]] # None
    <2>1. Goto(p, "off") /\ UNCHANGED locks /\ proc[p].pc = "lockState"
      BY <1>2 DEF LockState, Free, locks
    <2>2. Becomes(p, [proc[p] EXCEPT !.pc = "off"])
          /\ [proc[p] EXCEPT !.pc = "off"].pc = "off"
      BY <2>1, AnyPc, Moved DEF Types, Process
    <2>. QED
      BY <2>1, <2>2, LocksStay DEF Locked, Working
  <1>. QED
    BY <1>1, <1>2

LEMMA LockCheckoutLocks ==
  ASSUME Types, Locks, NEW p \in Procs, LockCheckout(p)
  PROVE  Locks'
  <1>1. CASE checkoutLock[Checkout[p]] = None
    <2>1. Goto(p, "read") /\ checkoutLock' = [checkoutLock EXCEPT ![Checkout[p]] = p]
          /\ stateLock' = stateLock /\ proc[p].pc = "lockCheckout"
      BY <1>1 DEF LockCheckout
    <2>2. Becomes(p, [proc[p] EXCEPT !.pc = "read"]) /\ proc'[p].pc = "read"
      BY <2>1, AnyPc, Moved
    <2>3. \A q \in Procs : (Locked(q) <=> Locked(q)')
                           /\ (q # p => (Working(q) <=> Working(q)'))
      BY <2>1, <2>2 DEF Becomes, Locked, Working
    <2>4. Working(p)' /\ ~Working(p)
      BY <2>1, <2>2 DEF Working
    <2>. QED
      BY <1>1, <2>1, <2>3, <2>4, Constants DEF Types, Locks
  <1>2. CASE checkoutLock[Checkout[p]] # None
    <2>1. Goto(p, "off") /\ stateLock' = [stateLock EXCEPT ![StateDir[p]] = None]
          /\ checkoutLock' = checkoutLock /\ proc[p].pc = "lockCheckout"
      BY <1>2 DEF LockCheckout, GiveBack
    <2>2. Becomes(p, [proc[p] EXCEPT !.pc = "off"]) /\ proc'[p].pc = "off"
      BY <2>1, AnyPc, Moved
    <2>3. \A q \in Procs : (Working(q) <=> Working(q)')
                           /\ (q # p => (Locked(q) <=> Locked(q)'))
      BY <2>1, <2>2 DEF Becomes, Locked, Working
    <2>4. ~Locked(p)' /\ Locked(p)
      BY <2>1, <2>2 DEF Locked
    <2>5. stateLock[StateDir[p]] = p
      BY <2>4 DEF Locks
    <2>. QED
      BY <2>1, <2>3, <2>4, <2>5, Constants DEF Types, Locks
  <1>. QED
    BY <1>1, <1>2

LEMMA UnlockCheckoutLocks ==
  ASSUME Types, Locks, NEW p \in Procs, UnlockCheckout(p)
  PROVE  Locks'
  <1>1. Goto(p, "unlockState") /\ checkoutLock' = [checkoutLock EXCEPT ![Checkout[p]] = None]
        /\ stateLock' = stateLock /\ proc[p].pc = "unlockCheckout"
    BY DEF UnlockCheckout
  <1>2. Becomes(p, [proc[p] EXCEPT !.pc = "unlockState"]) /\ proc'[p].pc = "unlockState"
    BY <1>1, AnyPc, Moved
  <1>3. \A q \in Procs : (Locked(q) <=> Locked(q)')
                         /\ (q # p => (Working(q) <=> Working(q)'))
    BY <1>1, <1>2 DEF Becomes, Locked, Working
  <1>4. ~Working(p)' /\ Working(p)
    BY <1>1, <1>2 DEF Working
  <1>5. checkoutLock[Checkout[p]] = p
    BY <1>4 DEF Locks
  <1>. QED
    BY <1>1, <1>3, <1>4, <1>5, Constants DEF Types, Locks

LEMMA UnlockStateLocks ==
  ASSUME Types, Locks, NEW p \in Procs, UnlockState(p)
  PROVE  Locks'
  <1>1. proc' = [proc EXCEPT ![p] = Off] /\ stateLock' = [stateLock EXCEPT ![StateDir[p]] = None]
        /\ checkoutLock' = checkoutLock /\ proc[p].pc = "unlockState"
    BY DEF UnlockState, GiveBack
  <1>2. Becomes(p, Off) /\ Off.pc = "off"
    BY <1>1, OffIsProcess, Replaced
  <1>3. \A q \in Procs : (Working(q) <=> Working(q)')
                         /\ (q # p => (Locked(q) <=> Locked(q)'))
    BY <1>1, <1>2 DEF Becomes, Locked, Working
  <1>4. ~Locked(p)' /\ Locked(p)
    BY <1>1, <1>2 DEF Locked, Becomes
  <1>5. stateLock[StateDir[p]] = p
    BY <1>4 DEF Locks
  <1>. QED
    BY <1>1, <1>3, <1>4, <1>5, Constants DEF Types, Locks

LEMMA KillLocks ==
  ASSUME Types, Locks, NEW p \in Procs, Kill(p)
  PROVE  Locks'
  <1>1. proc' = [proc EXCEPT ![p] = Off]
    BY DEF Kill
  <1>2. Becomes(p, Off) /\ Off.pc = "off"
    BY <1>1, OffIsProcess, Replaced
  <1>3. \A q \in Procs : q # p => (Working(q) <=> Working(q)') /\ (Locked(q) <=> Locked(q)')
    BY <1>2 DEF Becomes, Locked, Working
  <1>4. ~Locked(p)' /\ ~Working(p)'
    BY <1>2 DEF Locked, Working, Becomes
  <1>5. /\ stateLock' = [d \in Dirs |-> IF stateLock[d] = p THEN None ELSE stateLock[d]]
        /\ checkoutLock' =
             [c \in Checkouts |-> IF checkoutLock[c] = p THEN None ELSE checkoutLock[c]]
    BY DEF Kill
  <1>. QED
    BY <1>3, <1>4, <1>5, Constants DEF Types, Locks

LEMMA PowerLossLocks ==
  ASSUME PowerLoss
  PROVE  Locks'
  BY OffIsProcess, Constants DEF PowerLoss, Locks, Locked, Working

-----------------------------------------------------------------------------
(* What the other processes know, and the disk.                             *)

LEMMA RecordsStay ==
  ASSUME Types, Records, NEW p \in Procs, NEW r, Becomes(p, r),
         UNCHANGED <<file, log, acked>>, Knows(p)'
  PROVE  Records'
  BY DEF Records, Knows, Becomes

LEMMA DiskStays ==
  ASSUME Disk, UNCHANGED <<file, onDisk, acked>>
  PROVE  Disk'
  BY DEF Disk

\* A process between its first lock and the reading of the record, or past its
\* work, knows nothing.
LEMMA NothingKnown ==
  ASSUME NEW p \in Procs,
         proc'[p].pc \in {"off", "lockState", "lockCheckout", "read",
                          "unlockCheckout", "unlockState"}
  PROVE  Knows(p)'
  BY DEF Knows, Writing

\* A step that only moves p to s, where it knows nothing it did not know.
LEMMA GotoStep ==
  ASSUME Inv, NEW p \in Procs, NEW s \in Pcs, Goto(p, s),
         s \in {"off", "lockState", "lockCheckout", "read", "unlockCheckout",
                "unlockState"},
         UNCHANGED <<disk, log, acked, faults>>,
         stateLock' \in [Dirs -> Procs \union {None}],
         checkoutLock' \in [Checkouts -> Procs \union {None}]
  PROVE  Types' /\ Records' /\ Disk'
  <1>1. Types /\ Records /\ Disk
    BY DEF Inv
  <1>2. Becomes(p, [proc[p] EXCEPT !.pc = s]) /\ proc'[p].pc = s
    BY <1>1, Moved
  <1>3. Types'
    BY <1>1, <1>2 DEF Types, Becomes, disk
  <1>4. Knows(p)'
    BY <1>2, NothingKnown
  <1>. QED
    BY <1>1, <1>2, <1>3, <1>4, RecordsStay, DiskStays DEF disk

-----------------------------------------------------------------------------
(* One lemma per step.                                                      *)

LEMMA StartStep ==
  ASSUME Inv, NEW p \in Procs, Start(p)
  PROVE  Inv'
  <1>1. Becomes(p, [proc[p] EXCEPT !.pc = "lockState"]) /\ proc'[p].pc = "lockState"
    BY AnyPc, Moved DEF Start, Inv
  <1>2. Locks'
    BY <1>1, LocksStay DEF Start, Locked, Working, Becomes, Inv
  <1>3. Types' /\ Records' /\ Disk'
    BY AnyPc, GotoStep DEF Start, Inv, locks, Types
  <1>. QED
    BY <1>2, <1>3 DEF Inv

LEMMA LockStateStep ==
  ASSUME Inv, NEW p \in Procs, LockState(p)
  PROVE  Inv'
  <1>1. Locks'
    BY LockStateLocks DEF Inv
  <1>2. PICK s \in {"lockCheckout", "off"} : Goto(p, s)
    BY DEF LockState
  <1>3. stateLock' \in [Dirs -> Procs \union {None}] /\ checkoutLock' = checkoutLock
    BY Constants DEF LockState, Inv, Types
  <1>4. Types' /\ Records' /\ Disk'
    BY <1>2, <1>3, AnyPc, GotoStep DEF LockState, Inv, Types
  <1>. QED
    BY <1>1, <1>4 DEF Inv

LEMMA LockCheckoutStep ==
  ASSUME Inv, NEW p \in Procs, LockCheckout(p)
  PROVE  Inv'
  <1>1. Locks'
    BY LockCheckoutLocks DEF Inv
  <1>2. PICK s \in {"read", "off"} : Goto(p, s)
    BY DEF LockCheckout
  <1>3. stateLock' \in [Dirs -> Procs \union {None}]
        /\ checkoutLock' \in [Checkouts -> Procs \union {None}]
    BY Constants DEF LockCheckout, GiveBack, Inv, Types
  <1>4. Types' /\ Records' /\ Disk'
    BY <1>2, <1>3, AnyPc, GotoStep DEF LockCheckout
  <1>. QED
    BY <1>1, <1>4 DEF Inv

LEMMA UnlockCheckoutStep ==
  ASSUME Inv, NEW p \in Procs, UnlockCheckout(p)
  PROVE  Inv'
  <1>1. Locks'
    BY UnlockCheckoutLocks DEF Inv
  <1>2. checkoutLock' \in [Checkouts -> Procs \union {None}] /\ stateLock' = stateLock
    BY Constants DEF UnlockCheckout, Inv, Types
  <1>3. Types' /\ Records' /\ Disk'
    BY <1>2, AnyPc, GotoStep DEF UnlockCheckout, Inv, Types
  <1>. QED
    BY <1>1, <1>3 DEF Inv

\* A process that is gone knows nothing.
LEMMA GoneStep ==
  ASSUME Inv, NEW p \in Procs, proc' = [proc EXCEPT ![p] = Off],
         UNCHANGED <<disk, log, acked>>, faults' \in 0..MaxFaults,
         stateLock' \in [Dirs -> Procs \union {None}],
         checkoutLock' \in [Checkouts -> Procs \union {None}]
  PROVE  Types' /\ Records' /\ Disk'
  <1>1. Becomes(p, Off)
    BY OffIsProcess, Replaced DEF Inv
  <1>2. Types'
    BY <1>1 DEF Inv, Types, Becomes, disk
  <1>3. Knows(p)'
    BY <1>1, OffIsProcess, NothingKnown DEF Becomes
  <1>. QED
    BY <1>1, <1>2, <1>3, RecordsStay, DiskStays DEF Inv, disk

LEMMA UnlockStateStep ==
  ASSUME Inv, NEW p \in Procs, UnlockState(p)
  PROVE  Inv'
  <1>1. Locks'
    BY UnlockStateLocks DEF Inv
  <1>2. stateLock' \in [Dirs -> Procs \union {None}] /\ checkoutLock' = checkoutLock
        /\ faults' = faults
    BY Constants DEF UnlockState, GiveBack, Inv, Types
  <1>3. Types' /\ Records' /\ Disk'
    BY <1>2, GoneStep DEF UnlockState, Inv, Types
  <1>. QED
    BY <1>1, <1>3 DEF Inv

LEMMA KillStep ==
  ASSUME Inv, NEW p \in Procs, Kill(p)
  PROVE  Inv'
  <1>1. Locks'
    BY KillLocks DEF Inv
  <1>2. stateLock' \in [Dirs -> Procs \union {None}]
        /\ checkoutLock' \in [Checkouts -> Procs \union {None}]
    BY DEF Kill, Inv, Types
  <1>3. faults' \in 0..MaxFaults
    BY Constants DEF Kill, Inv, Types
  <1>4. Types' /\ Records' /\ Disk'
    BY <1>2, <1>3, GoneStep DEF Kill
  <1>. QED
    BY <1>1, <1>4 DEF Inv

LEMMA PowerLossStep ==
  ASSUME Inv, PowerLoss
  PROVE  Inv'
  <1>1. Locks'
    BY PowerLossLocks DEF Inv
  <1>2. /\ file' \in [Dirs -> Versions] /\ \A d \in Dirs : file'[d] \in onDisk[d]
        /\ onDisk' = [d \in Dirs |-> {file'[d]}]
    BY DEF PowerLoss, Inv, Types
  <1>3. faults' \in 0..MaxFaults
    BY Constants DEF PowerLoss, Inv, Types
  <1>4. Types'
    BY <1>2, <1>3, OffIsProcess DEF PowerLoss, Inv, Types
  <1>5. \A p \in Procs : proc'[p].pc = "off"
    BY OffIsProcess DEF PowerLoss
  <1>6. Records'
    BY <1>5, NothingKnown DEF Records
  <1>7. Disk'
    BY <1>2 DEF PowerLoss, Inv, Disk
  <1>. QED
    BY <1>1, <1>4, <1>6, <1>7 DEF Inv

-----------------------------------------------------------------------------
(* The steps of a process that has its locks.                               *)

\* Such a step leaves what the others know alone: those of the same directory
\* are not past its lock.
LEMMA OthersKnow ==
  ASSUME Inv, NEW p \in Procs, NEW r, Locked(p), Becomes(p, r), Knows(p)',
         \A d \in Dirs : d # StateDir[p] => file'[d] = file[d] /\ acked'[d] = acked[d],
         Len(log') >= Len(log), \A i \in 1..Len(log) : log'[i] = log[i]
  PROVE  Records'
  <1>. SUFFICES ASSUME NEW q \in Procs, q # p PROVE Knows(q)'
    BY DEF Records
  <1>1. proc'[q] = proc[q] /\ Knows(q)
    BY DEF Becomes, Inv, Records
  <1>2. CASE StateDir[q] = StateDir[p]
    <2>1. ~Locked(q)
      BY <1>2, Alone DEF Inv
    <2>. QED
      BY <1>1, <2>1, NothingKnown DEF Locked
  <1>3. CASE StateDir[q] # StateDir[p]
    <2>1. file'[StateDir[q]] = file[StateDir[q]] /\ acked'[StateDir[q]] = acked[StateDir[q]]
      BY <1>3, Constants
    <2>. QED
      BY <1>1, <2>1, Constants DEF Knows, Writing, Inv, Types, Process, Versions
  <1>. QED
    BY <1>2, <1>3

LEMMA ReadStep ==
  ASSUME Inv, NEW p \in Procs, Read(p)
  PROVE  Inv'
  <1>1. proc[p].pc = "read" /\ UNCHANGED <<locks, disk, log, acked, faults>>
    BY DEF Read
  <1>2. CASE Goto(p, "unlockCheckout")
    <2>1. Becomes(p, [proc[p] EXCEPT !.pc = "unlockCheckout"])
          /\ proc'[p].pc = "unlockCheckout"
      BY <1>2, AnyPc, Moved DEF Inv
    <2>2. Locks'
      BY <1>1, <2>1, LocksStay DEF Locked, Working, Becomes, Inv
    <2>3. Types' /\ Records' /\ Disk'
      BY <1>1, <1>2, AnyPc, GotoStep DEF Inv, locks, Types
    <2>. QED
      BY <2>2, <2>3 DEF Inv
  <1>3. CASE UNCHANGED proc
    BY <1>1, <1>3 DEF Inv, Types, Locks, Locked, Working, Records, Knows, Disk, locks, disk
  <1>4. CASE proc' = [proc EXCEPT ![p].pc = "modify", ![p].base = file[StateDir[p]]]
    <2>. DEFINE v == file[StateDir[p]]
    <2>1. v \in Versions
      BY Constants DEF Inv, Types
    <2>. DEFINE r == [proc[p] EXCEPT !.pc = "modify", !.base = v]
    <2>2. r \in Process /\ r.pc = "modify" /\ r.base = v
      BY <2>1, AnyPc DEF Inv, Types, Process
    <2>3. proc' = [proc EXCEPT ![p] = r]
      BY <1>4
    <2>4. Becomes(p, r)
      BY <2>2, <2>3, Replaced DEF Inv
    <2>5. Locks'
      BY <1>1, <2>2, <2>4, LocksStay DEF Locked, Working, Inv
    <2>6. Types'
      BY <1>1, <2>4 DEF Inv, Types, Becomes, locks, disk
    <2>7. Knows(p)'
      BY <1>1, <2>2, <2>4 DEF Knows, Becomes, Writing, disk
    <2>8. Records' /\ Disk'
      BY <1>1, <2>4, <2>7, RecordsStay, DiskStays DEF Inv, disk
    <2>. QED
      BY <2>5, <2>6, <2>8 DEF Inv
  <1>. QED
    BY <1>2, <1>3, <1>4 DEF Read

\* EndCycle, and what Quit does.
LEMMA StopWorkingStep ==
  ASSUME Inv, NEW p \in Procs, NEW s \in {"read", "unlockCheckout"},
         proc[p].pc \in {"read", "modify"}, Goto(p, s),
         UNCHANGED <<locks, disk, log, acked, faults>>
  PROVE  Inv'
  <1>1. Becomes(p, [proc[p] EXCEPT !.pc = s]) /\ proc'[p].pc = s
    BY AnyPc, Moved DEF Inv
  <1>2. Locks'
    BY <1>1, LocksStay DEF Locked, Working, Becomes, Inv
  <1>3. Types' /\ Records' /\ Disk'
    BY AnyPc, GotoStep DEF Inv, locks, Types
  <1>. QED
    BY <1>2, <1>3 DEF Inv

LEMMA WriteTempStep ==
  ASSUME Inv, NEW p \in Procs, WriteTemp(p)
  PROVE  Inv'
  <1>. DEFINE e == [checkout |-> Checkout[p], base |-> proc[p].base]
              n == Len(log) + 1
              r == [proc[p] EXCEPT !.pc = "written", !.new = n, !.whole = FALSE]
  <1>1. proc[p].pc = "modify" /\ UNCHANGED <<locks, disk, acked, faults>>
    BY DEF WriteTemp
  <1>2. e \in Entry /\ e.base = proc[p].base
    BY Constants DEF Inv, Types, Process, Entry
  <1>3. n \in 1..MaxWrites /\ n = Len(log) + 1 /\ n \in Versions
    BY Constants DEF WriteTemp, Inv, Types, Versions
  <1>4. r \in Process /\ r.pc = "written" /\ r.base = proc[p].base /\ r.new = n
    BY <1>3, AnyPc DEF Inv, Types, Process
  <1>5. proc' = [proc EXCEPT ![p] = r] /\ log' = Append(log, e)
    BY DEF WriteTemp
  <1>. HIDE DEF e, n, r
  <1>6. Becomes(p, r)
    BY <1>4, <1>5, Replaced DEF Inv
  <1>7. /\ log' \in Seq(Entry) /\ Len(log') = n /\ log'[n] = e
        /\ \A i \in 1..Len(log) : log'[i] = log[i]
    BY <1>2, <1>3, <1>5 DEF Inv, Types
  <1>8. Len(log) \in Nat
    BY DEF Inv, Types
  <1>9. Types'
    <2>1. acked' \in [Dirs -> 0..Len(log')]
      BY <1>1, <1>3, <1>7, <1>8 DEF Inv, Types
    <2>. QED
      BY <1>1, <1>3, <1>6, <1>7, <2>1, Constants DEF Inv, Types, Becomes, locks, disk
  <1>10. Locks'
    BY <1>1, <1>4, <1>6, LocksStay DEF Locked, Working, Inv
  <1>11. Knows(p)'
    <2>1. proc'[p] = r /\ proc[p].base = file[StateDir[p]]
      BY <1>1, <1>6 DEF Becomes, Inv, Records, Knows
    <2>2. n \in 1..Len(log') /\ n >= acked'[StateDir[p]]
      BY <1>1, <1>3, <1>7, <1>8, Constants DEF Inv, Types
    <2>. QED
      BY <1>1, <1>2, <1>4, <1>7, <2>1, <2>2 DEF Knows, Writing, disk
  <1>12. Records'
    <2>1. Locked(p)
      BY <1>1 DEF Locked
    <2>. QED
      BY <1>1, <1>3, <1>6, <1>7, <1>8, <1>11, <2>1, OthersKnow DEF disk
  <1>13. Disk'
    BY <1>1, DiskStays DEF Inv, disk
  <1>. QED
    BY <1>9, <1>10, <1>12, <1>13 DEF Inv

LEMMA SyncTempStep ==
  ASSUME Inv, NEW p \in Procs, SyncTemp(p)
  PROVE  Inv'
  <1>. DEFINE r == [proc[p] EXCEPT !.pc = "synced", !.whole = TRUE]
  <1>1. proc[p].pc = "written" /\ UNCHANGED <<locks, disk, log, acked, faults>>
    BY DEF SyncTemp
  <1>2. r \in Process /\ r.pc = "synced" /\ r.base = proc[p].base
        /\ r.new = proc[p].new /\ r.whole
    BY AnyPc DEF Inv, Types, Process
  <1>3. proc' = [proc EXCEPT ![p] = r]
    BY DEF SyncTemp, Synced
  <1>. HIDE DEF r
  <1>4. Becomes(p, r)
    BY <1>2, <1>3, Replaced DEF Inv
  <1>5. Types'
    BY <1>1, <1>4 DEF Inv, Types, Becomes, locks, disk
  <1>6. Locks'
    BY <1>1, <1>2, <1>4, LocksStay DEF Locked, Working, Inv
  <1>7. Knows(p)'
    <2>1. proc'[p] = r /\ Knows(p)
      BY <1>4 DEF Becomes, Inv, Records
    <2>. QED
      BY <1>1, <1>2, <2>1 DEF Knows, Writing, disk
  <1>8. Records' /\ Disk'
    BY <1>1, <1>4, <1>7, RecordsStay, DiskStays DEF Inv, disk
  <1>. QED
    BY <1>5, <1>6, <1>8 DEF Inv

LEMMA RenameStep ==
  ASSUME Inv, NEW p \in Procs, Rename(p)
  PROVE  Inv'
  <1>. DEFINE d == StateDir[p]
  <1>1. proc[p].pc = "synced" /\ Goto(p, "renamed") /\ UNCHANGED <<locks, log, acked, faults>>
    BY DEF Rename
  <1>2. Becomes(p, [proc[p] EXCEPT !.pc = "renamed"])
        /\ proc'[p].pc = "renamed" /\ proc'[p].new = proc[p].new
        /\ proc'[p].whole = proc[p].whole
    BY <1>1, AnyPc, Moved DEF Inv
  <1>3. /\ proc[p].new \in 1..Len(log) /\ proc[p].new >= acked[d] /\ proc[p].whole
        /\ proc[p].new \in Versions
    BY <1>1, Constants DEF Inv, Records, Knows, Writing, Types, Process
  <1>4. file' = [file EXCEPT ![d] = proc[p].new]
        /\ onDisk' = [onDisk EXCEPT ![d] = @ \union {proc[p].new}]
    BY <1>3 DEF Rename
  <1>5. /\ file' \in [Dirs -> Versions] /\ file'[d] = proc[p].new
        /\ \A x \in Dirs : x # d => file'[x] = file[x]
    BY <1>3, <1>4, Constants DEF Inv, Types
  <1>6. /\ onDisk' \in [Dirs -> SUBSET Versions]
        /\ onDisk'[d] = onDisk[d] \union {proc[p].new}
        /\ \A x \in Dirs : x # d => onDisk'[x] = onDisk[x]
    BY <1>3, <1>4, Constants DEF Inv, Types
  <1>7. Types'
    BY <1>1, <1>2, <1>5, <1>6 DEF Inv, Types, Becomes, locks
  <1>8. Locks'
    BY <1>1, <1>2, LocksStay DEF Locked, Working, Becomes, Inv
  <1>9. Records'
    <2>1. Knows(p)'
      BY <1>1, <1>2, <1>3, <1>5 DEF Knows, Writing
    <2>2. Locked(p)
      BY <1>1 DEF Locked
    <2>3. Len(log') >= Len(log)
      BY <1>1 DEF Inv, Types
    <2>. QED
      BY <1>1, <1>2, <1>5, <2>1, <2>2, <2>3, OthersKnow
  <1>10. Disk'
    <2>. SUFFICES ASSUME NEW x \in Dirs
                  PROVE  file'[x] \in onDisk'[x] /\ \A v \in onDisk'[x] : v >= acked[x]
      BY <1>1 DEF Disk
    <2>1. file[x] \in onDisk[x] /\ \A v \in onDisk[x] : v >= acked[x]
      BY DEF Inv, Disk
    <2>2. CASE x = d
      BY <1>3, <1>5, <1>6, <2>1, <2>2
    <2>3. CASE x # d
      BY <1>5, <1>6, <2>1, <2>3
    <2>. QED
      BY <2>2, <2>3
  <1>. QED
    BY <1>7, <1>8, <1>9, <1>10 DEF Inv

\* What Return leaves: a base and a step, the write's number and its state.
LEMMA Returned ==
  ASSUME Types, NEW p \in Procs, NEW b \in Versions, Return(p, b)
  PROVE  \E r \in Process : /\ Becomes(p, r) /\ r.base = b
                            /\ r.pc \in {"modify", "unlockCheckout"}
  <1>. DEFINE s == IF p \in Retries THEN "unlockCheckout" ELSE "modify"
              r == [proc[p] EXCEPT !.base = b, !.pc = s]
  <1>1. s \in {"modify", "unlockCheckout"} /\ s \in Pcs
    BY AnyPc
  <1>2. proc' = [proc EXCEPT ![p] = r]
    BY DEF Return
  <1>. HIDE DEF s
  <1>3. r \in Process /\ r.base = b /\ r.pc = s
    BY <1>1 DEF Types, Process
  <1>. HIDE DEF r
  <1>4. Becomes(p, r)
    BY <1>2, <1>3, Replaced
  <1>. QED
    BY <1>1, <1>3, <1>4

LEMMA SyncDirectoryStep ==
  ASSUME Inv, NEW p \in Procs, SyncDirectory(p)
  PROVE  Inv'
  <1>. DEFINE d == StateDir[p]
              n == proc[p].new
  <1>1. proc[p].pc = "renamed" /\ Return(p, n) /\ UNCHANGED <<locks, file, log, faults>>
    BY DEF SyncDirectory
  <1>2. n \in Versions /\ n \in 1..Len(log) /\ n = file[d]
    BY <1>1, Constants DEF Inv, Types, Process, Records, Knows, Writing
  <1>3. onDisk' = [onDisk EXCEPT ![d] = {n}] /\ acked' = [acked EXCEPT ![d] = n]
    BY <1>2 DEF SyncDirectory, SettledBy
  <1>. HIDE DEF n
  <1>4. PICK r \in Process : /\ Becomes(p, r) /\ r.base = n
                             /\ r.pc \in {"modify", "unlockCheckout"}
    BY <1>1, <1>2, Returned DEF Inv
  <1>5. /\ onDisk' \in [Dirs -> SUBSET Versions] /\ onDisk'[d] = {n}
        /\ \A x \in Dirs : x # d => onDisk'[x] = onDisk[x]
    BY <1>2, <1>3, Constants DEF Inv, Types
  <1>6. /\ acked' \in [Dirs -> 0..Len(log)] /\ acked'[d] = n
        /\ \A x \in Dirs : x # d => acked'[x] = acked[x]
    BY <1>2, <1>3, Constants DEF Inv, Types
  <1>7. Types'
    BY <1>1, <1>4, <1>5, <1>6 DEF Inv, Types, Becomes, locks
  <1>8. Locks'
    BY <1>1, <1>4, LocksStay DEF Locked, Working, Inv
  <1>9. Records'
    <2>1. Knows(p)'
      BY <1>1, <1>2, <1>4 DEF Knows, Writing, Becomes
    <2>2. Locked(p)
      BY <1>1 DEF Locked
    <2>3. Len(log') >= Len(log)
      BY <1>1 DEF Inv, Types
    <2>. QED
      BY <1>1, <1>4, <1>6, <2>1, <2>2, <2>3, OthersKnow
  <1>10. Disk'
    <2>. SUFFICES ASSUME NEW x \in Dirs
                  PROVE  file[x] \in onDisk'[x] /\ \A v \in onDisk'[x] : v >= acked'[x]
      BY <1>1 DEF Disk
    <2>1. CASE x = d
      BY <1>2, <1>5, <1>6, <2>1 DEF Versions
    <2>2. CASE x # d
      BY <1>5, <1>6, <2>2 DEF Inv, Disk
    <2>. QED
      BY <2>1, <2>2
  <1>. QED
    BY <1>7, <1>8, <1>9, <1>10 DEF Inv

LEMMA FailWriteStep ==
  ASSUME Inv, NEW p \in Procs, FailWrite(p)
  PROVE  Inv'
  <1>. DEFINE b == IF proc[p].pc = "renamed" THEN proc[p].new ELSE proc[p].base
  <1>1. proc[p].pc \in Writing /\ Return(p, b) /\ UNCHANGED <<locks, disk, log, acked>>
    BY DEF FailWrite, Writing
  <1>2. b \in Versions /\ b = file[StateDir[p]]
    BY <1>1 DEF Inv, Types, Process, Records, Knows, Writing
  <1>. HIDE DEF b
  <1>3. PICK r \in Process : /\ Becomes(p, r) /\ r.base = b
                             /\ r.pc \in {"modify", "unlockCheckout"}
    BY <1>1, <1>2, Returned DEF Inv
  <1>4. faults' \in 0..MaxFaults
    BY Constants DEF FailWrite, Inv, Types
  <1>5. Types'
    BY <1>1, <1>3, <1>4 DEF Inv, Types, Becomes, locks, disk
  <1>6. Locks'
    BY <1>1, <1>3, LocksStay DEF Locked, Working, Writing, Inv
  <1>7. Knows(p)'
    BY <1>1, <1>2, <1>3 DEF Knows, Writing, Becomes, disk
  <1>8. Records' /\ Disk'
    BY <1>1, <1>3, <1>7, RecordsStay, DiskStays DEF Inv, disk
  <1>. QED
    BY <1>5, <1>6, <1>8 DEF Inv

LEMMA StutterStep == Inv /\ UNCHANGED vars => Inv'
  BY DEF Inv, Types, Locks, Locked, Working, Records, Knows, Disk, vars, locks, disk

LEMMA StepKeepsInv == Inv /\ [Next]_vars => Inv'
  <1>. SUFFICES ASSUME Inv, [Next]_vars PROVE Inv'
    OBVIOUS
  <1>1. ASSUME NEW p \in Procs, Step(p) PROVE Inv'
    <2>1. EndCycle(p) \/ Quit(p) => Inv'
      BY StopWorkingStep DEF EndCycle, Quit
    <2>. QED
      BY <1>1, <2>1, StartStep, LockStateStep, LockCheckoutStep, ReadStep, WriteTempStep,
         SyncTempStep, RenameStep, SyncDirectoryStep, FailWriteStep, UnlockCheckoutStep,
         UnlockStateStep, KillStep DEF Step
  <1>. QED
    BY <1>1, PowerLossStep, StutterStep DEF Next

-----------------------------------------------------------------------------
(* The theorems.                                                            *)

\* Every reachable state is one the argument is about.
LEMMA Invariant == Spec => []Inv
  BY Initially, StepKeepsInv, PTL DEF Spec

\* The record, the locks and the ghosts keep their types; a lock is never left
\* behind by a process that is gone or no longer knows of it (state.go:105-142).
THEOREM TypeCorrectness == Spec => []TypeOK
  <1>1. Inv => TypeOK
    <2>. SUFFICES ASSUME Inv PROVE TypeOK
      OBVIOUS
    <2>1. proc \in [Procs -> [pc : Pcs, base : Nat, new : 0..MaxWrites, whole : BOOLEAN]]
      BY Constants DEF Inv, Types, Process, Versions
    <2>2. /\ file \in [Dirs -> 0..MaxWrites \union {Torn}]
          /\ \A d \in Dirs : file[d] \in onDisk[d] /\ acked[d] \in 0..MaxWrites
      BY Constants DEF Inv, Types, Versions, Disk
    <2>. QED
      BY <2>1, <2>2 DEF TypeOK, Inv, Types, Locks, Locked, Working
  <1>. QED
    BY <1>1, Invariant, PTL

\* At most one process works on a state directory or on a checkout, whatever the
\* others configure and however they end (state.go:114-125).
THEOREM OneAtATime == Spec => []MutualExclusion
  <1>1. Inv => MutualExclusion
    <2>. SUFFICES ASSUME Inv, NEW p \in Procs, NEW q \in Procs, Working(p), Working(q),
                         StateDir[p] = StateDir[q] \/ Checkout[p] = Checkout[q]
                  PROVE  p = q
      BY DEF MutualExclusion
    <2>1. Locked(p) /\ Locked(q)
      BY DEF Locked, Working
    <2>. QED
      BY <2>1 DEF Inv, Locks
  <1>. QED
    BY <1>1, Invariant, PTL

\* The record in a directory is whole or absent at every moment, and so is what
\* a loss of power leaves of it (state.go:70-99).
THEOREM NeverTorn == Spec => []RecordIsWhole
  <1>1. Inv => RecordIsWhole
    BY Constants DEF Inv, Types, RecordIsWhole
  <1>. QED
    BY <1>1, Invariant, PTL

\* What writeState reported as written is never undone by a loss of power
\* (state.go:93-98).
THEOREM Durable == Spec => []AcknowledgedIsDurable
  <1>1. Inv => AcknowledgedIsDurable
    BY DEF Inv, Disk, AcknowledgedIsDurable
  <1>. QED
    BY <1>1, Invariant, PTL

\* A step that replaces the record with one the disk could not have shown puts
\* there a record made from the one it replaces (state.go:126-142).
THEOREM NothingUndone == Spec => NoLostUpdate
  <1>. DEFINE Kept == \A d \in Dirs : file'[d] # file[d] /\ file'[d] \notin onDisk[d] =>
                        log[file'[d]].base = file[d]
  <1>1. Inv /\ [Next]_vars => [Kept]_vars
    <2>. SUFFICES ASSUME Inv, Next, NEW d \in Dirs, file'[d] # file[d],
                         file'[d] \notin onDisk[d]
                  PROVE  log[file'[d]].base = file[d]
      BY DEF vars
    <2>1. ~PowerLoss
      BY DEF PowerLoss
    <2>2. PICK p \in Procs : Step(p)
      BY <2>1 DEF Next
    <2>3. Rename(p)
      BY <2>2 DEF Step, Start, LockState, LockCheckout, Read, EndCycle, Quit, WriteTemp,
         SyncTemp, SyncDirectory, FailWrite, UnlockCheckout, UnlockState, Kill, disk
    <2>4. proc[p].pc = "synced" /\ file' = [file EXCEPT ![StateDir[p]] = proc[p].new]
      BY <2>3 DEF Rename
    <2>5. d = StateDir[p] /\ file'[d] = proc[p].new
      BY <2>4 DEF Inv, Types
    <2>. QED
      BY <2>4, <2>5 DEF Inv, Records, Knows
  <1>. QED
    BY <1>1, Invariant, PTL DEF Spec, NoLostUpdate
=============================================================================
