--------------------------- MODULE RcuStepProofs ----------------------------
(***************************************************************************)
(* The inductive invariant of Rcu and why its steps keep it; RcuProofs has *)
(* the part that counts, and the theorems.                                 *)
(*                                                                         *)
(* The argument.  A CPU has at most one outermost reader at a time: its    *)
(* depth counts the admitted contexts and its marker is the epoch of the   *)
(* outermost one (CpuInv; the interrupt of a CPU runs between two unmasked *)
(* steps of its task).  The epoch is odd exactly while a writer is between *)
(* its two increments, and only one writer is inside the lock (WriterInv); *)
(* so a reader that was verified at an even epoch and loaded an object     *)
(* since unlinked has an epoch below the object's (HeldInv, Safe).  Entries*)
(* enter the FIFO in epoch order and an object is in one place (FifoInv,   *)
(* PlaceInv).  The scan of the reclaimer goes over the CPUs one by one, so *)
(* what it has established is about the CPUs it has passed (GraceInv): a   *)
(* reader that starts there later cannot load the object any more.  The    *)
(* strong count of an object is the number of its owners (CountInv).  And  *)
(* while no CPU went offline somebody who will look at a non-empty FIFO    *)
(* exists: a queued kick, the reclaimer, an outermost reader before its    *)
(* note_reader_quiescent, or a writer before its arming (WakeInv).         *)
(*                                                                         *)
(* Types alone are not enough for any of it: without Safe the clone of a   *)
(* reader could be of a freed object, and Safe needs the place and the     *)
(* order of every retired entry.                                           *)
(***************************************************************************)
EXTENDS Rcu, TLAPS

\* Steps of a reader by what the CPU's reader state says meanwhile: its depth
\* counts the reader, its marker is the reader's, and the reader's epoch is one
\* it loaded.
Admitted == {"epoch", "mark", "verify", "undo", "unadmit", "load", "clone",
             "exit", "depart"}
Marked == {"verify", "undo", "load", "clone", "exit"}
Pinned == {"load", "clone", "exit"}
Dated == {"mark", "peek", "after"} \cup Marked

\* Steps of a writer: inside the writer lock, with the epoch odd, holding a
\* reservation, owning the expected object, owning an unpublished one, and
\* between the swap and the FIFO.
Locked == {"cancel", "swap", "open", "commit", "store", "filled"}
Closed == {"swap", "open", "store", "filled"}
Reserving == {"reserved", "cancel", "swap", "open", "commit"}
Expecting == Reserving \cup {"arm"}
Private == {"reserved", "cancel", "swap", "store"}
Unlinked == {"open", "commit"}

ReaderPcs == Admitted \cup {"idle", "admit", "note", "grace", "before", "peek", "after"}
WriterPcs == Locked \cup Expecting \cup {"idle", "grace"}

\* The types of each kind of context's variables.
ReaderTypes ==
    /\ online \in [Cpus -> BOOLEAN] /\ depth \in [Cpus -> Int] /\ marker \in [Cpus -> Int]
    /\ rpc \in [Readers -> ReaderPcs] /\ seen \in [Readers -> Int]
    /\ nested \in [Readers -> BOOLEAN] /\ held \in [Readers -> Objects \cup {Null}]
    /\ again \in [Readers -> BOOLEAN]

WriterTypes ==
    /\ epoch \in Nat /\ ptr \in Objects \cup {Null}
    /\ wlock \subseteq Writers /\ born \subseteq Objects
    /\ wpc \in [Writers -> WriterPcs]
    /\ expect \in [Writers -> Objects \cup {Null}] /\ fresh \in [Writers -> Objects \cup {Null}]

\* A scan that has its verdict has no CPU left.
ScanInv ==
    /\ left \in [Scanners -> SUBSET Cpus] /\ goal \in [Scanners -> Nat]
    /\ sample \in [Scanners -> {"none", "admitted", "quiet", "offline"}]
    /\ verdict \in [Scanners -> {"none", "yes", "no"}]
    /\ \A a \in Scanners : verdict[a] # "none" => left[a] = {}

Task(c) == <<c, "task">>
Irq(c) == <<c, "irq">>
Counts(r) == IF rpc[r] \in Admitted THEN 1 ELSE 0

\* The task of a CPU is never nested; an outermost reader's marker is its epoch.
TaskInv(c) ==
    /\ ~nested[Task(c)]
    /\ rpc[Task(c)] \in Admitted =>
          marker[c] = IF rpc[Task(c)] \in Marked THEN seen[Task(c)] + 1 ELSE 0

\* An interrupt runs between two steps of its task that are not masked; it is
\* nested exactly when the task holds a guard, and then reads under its epoch.
IrqInv(c) ==
    /\ rpc[Irq(c)] # "idle" => rpc[Task(c)] \notin Masked
    /\ nested[Irq(c)] => /\ rpc[Irq(c)] \in Pinned \cup {"depart"}
                         /\ rpc[Task(c)] \in Pinned /\ seen[Irq(c)] = marker[c] - 1
    /\ rpc[Irq(c)] \in Admitted /\ ~nested[Irq(c)] =>
          /\ rpc[Task(c)] \notin Admitted
          /\ marker[c] = IF rpc[Irq(c)] \in Marked THEN seen[Irq(c)] + 1 ELSE 0

DepthInv(c) ==
    /\ depth[c] = Counts(Task(c)) + IF c \in Interrupts THEN Counts(Irq(c)) ELSE 0
    /\ depth[c] = 0 => marker[c] = 0
    /\ ~online[c] => depth[c] = 0

CpuInv(c) == TaskInv(c) /\ (c \in Interrupts => IrqInv(c)) /\ DepthInv(c)

\* An epoch a reader loaded is even and not of the future.
DateInv == \A r \in Readers : rpc[r] \in Dated =>
               seen[r] \in Nat /\ seen[r] % 2 = 0 /\ seen[r] <= epoch

ReaderInv == (\A c \in Cpus : CpuInv(c)) /\ DateInv

WriterInv ==
    /\ \A w \in Writers : w \in wlock <=> wpc[w] \in Locked
    /\ \A v, w \in wlock : v = w
    /\ epoch % 2 = 1 <=> \E w \in Writers : wpc[w] \in Closed
    /\ ptr \in born \cup {Null}
    /\ \A w \in Writers :
          /\ wpc[w] \in Expecting => expect[w] \in born
          /\ wpc[w] \in Private => fresh[w] \in born \cup {Null}
          /\ wpc[w] = "swap" => expect[w] = ptr
          /\ wpc[w] = "store" => ptr = Null /\ fresh[w] # Null

\* Reservations are counted, entries are in epoch order, and the hints are exact.
Holders == {w \in Writers : wpc[w] \in Reserving}
FifoInv ==
    /\ queue \in Seq(Objects \X Nat) /\ reserved \in Int
    /\ reserved = Cardinality(Holders)
    /\ Len(queue) + reserved <= Capacity
    /\ \A i, j \in 1 .. Len(queue) : i < j => queue[i][2] < queue[j][2]
    /\ \A i \in 1 .. Len(queue) : 0 < queue[i][2] /\ queue[i][2] <= epoch
    /\ \A w \in Writers : wpc[w] \in {"swap", "open", "commit"} =>
          0 < epoch /\ \A i \in 1 .. Len(queue) : queue[i][2] < epoch
    /\ front = FrontEpoch(queue) /\ (queue # <<>> => pending)

\* An object is in at most one place: private to a writer, published, unlinked,
\* or retired; and retired once.
PlaceInv ==
    /\ \A i \in 1 .. Len(queue) : queue[i][1] \in born /\ queue[i][1] # ptr
    /\ \A i, j \in 1 .. Len(queue) : queue[i][1] = queue[j][1] => i = j
    /\ \A w \in Writers : wpc[w] \in Unlinked =>
          expect[w] # ptr /\ \A i \in 1 .. Len(queue) : queue[i][1] # expect[w]
    /\ \A w \in Writers : wpc[w] \in Private /\ fresh[w] # Null =>
          /\ fresh[w] # ptr
          /\ \A i \in 1 .. Len(queue) : queue[i][1] # fresh[w]
          /\ \A v \in Writers : wpc[v] \in Expecting => expect[v] # fresh[w]
          /\ \A v \in Writers : wpc[v] \in Private /\ fresh[v] = fresh[w] => v = w

\* Where the object a reader is about to clone can be: still published, or
\* unlinked or retired at an epoch after the reader's.
Safe(r) ==
    \/ held[r] = ptr
    \/ \E w \in Writers : wpc[w] \in Unlinked /\ expect[w] = held[r] /\ seen[r] < epoch
    \/ \E i \in 1 .. Len(queue) : queue[i][1] = held[r] /\ seen[r] < queue[i][2]

HeldInv == \A r \in Readers :
    /\ rpc[r] = "clone" => held[r] \in Objects /\ Safe(r)
    /\ rpc[r] = "after" /\ seen[r] = epoch => held[r] = ptr

\* What the drainer's scan of the front entry has established: no reader of a
\* CPU it has passed holds that entry's object.
GraceInv ==
    dpc = "grace" =>
       /\ queue # <<>> /\ goal[Drainer] = Head(queue)[2]
       /\ verdict[Drainer] = "no" \/
          \A r \in Readers : rpc[r] = "clone" /\ r[1] \notin left[Drainer] =>
                                held[r] # Head(queue)[1]

\* The owners of an object: the slot, the FIFO, a writer's expected object (two
\* once it was swapped out), its unpublished one, and a reader's snapshot.
Tokens == ({"slot", "fifo"} \X {0}) \cup ({"expect", "second", "fresh"} \X Writers)
              \cup ({"held"} \X Readers)
Queued(o) == \E i \in 1 .. Len(queue) : queue[i][1] = o
ExpectedBy(w, o) == wpc[w] \in Expecting /\ expect[w] = o
SwappedBy(w, o) == wpc[w] \in Unlinked \cup {"arm"} /\ expect[w] = o
PrivateTo(w, o) == wpc[w] \in Private /\ fresh[w] = o
HeldBy(r, o) == rpc[r] \in {"exit", "depart"} /\ held[r] = o
Owns(t, o) ==
    \/ t[1] = "slot" /\ ptr = o
    \/ t[1] = "fifo" /\ Queued(o)
    \/ t[1] = "expect" /\ ExpectedBy(t[2], o)
    \/ t[1] = "second" /\ SwappedBy(t[2], o)
    \/ t[1] = "fresh" /\ PrivateTo(t[2], o)
    \/ t[1] = "held" /\ HeldBy(t[2], o)
Owners(o) == {t \in Tokens : Owns(t, o)}

\* A snapshot is of an object that was created.
SnapshotInv == \A r \in Readers : rpc[r] \in {"exit", "depart"} => held[r] \in born \cup {Null}

CountInv == count \in [Objects -> Int] /\ \A o \in Objects : count[o] = Cardinality(Owners(o))

\* A scan that may still end in a wake.
Hopeful(a) == verdict[a] # "no" /\ sample[a] # "admitted"

\* Somebody who will look at the FIFO again: the reclaimer, an outermost reader
\* on its way to note_reader_quiescent, or a writer that has yet to arm.
DrainerWatches == \/ dpc \in {"front", "grace", "final", "blocked", "rearm"}
                  \/ dpc = "recheck" /\ Hopeful(Drainer)
ReaderWatches(r) == \/ rpc[r] \in Admitted \cup {"admit", "note"} /\ ~nested[r]
                    \/ rpc[r] = "grace" /\ Hopeful(r)
WriterWatches(w) == wpc[w] = "arm" \/ (wpc[w] = "grace" /\ Hopeful(w))
Attended == \/ kick \/ DrainerWatches
            \/ \E r \in Readers : ReaderWatches(r)
            \/ \E w \in Writers : WriterWatches(w)

\* A queued edge has woken the reclaimer, and no scan met an offline CPU yet.
EdgeInv ==
    /\ moves \in Nat /\ queued \in BOOLEAN /\ kick \in BOOLEAN
    /\ queued => kick
    /\ moves = 0 => /\ \A c \in Cpus : online[c]
                    /\ \A a \in Scanners : sample[a] # "offline"

WakeInv == queue # <<>> /\ moves = 0 => Attended

Inv == ReaderTypes /\ WriterTypes /\ ScanInv /\ ReaderInv /\ WriterInv /\ FifoInv
       /\ PlaceInv /\ HeldInv /\ GraceInv /\ SnapshotInv /\ CountInv /\ EdgeInv /\ WakeInv

-----------------------------------------------------------------------------
(* Frames: what the steps of each kind of context leave alone.              *)

ReaderStep(r) == Load(r) \/ IsEmpty(r) \/ Read(r)
WriterStep(w) == Write(w) \/ Publish(w) \/ Clear(w) \/ \E new \in Unborn : Fill(w, new)
CpuStep(c) == RegisterCpu(c) \/ UnregisterCpu(c)

\* A leaf that names no prover is one for Zenon.
USE ZenonT(60)

\* A reading context is the task or the interrupt of one CPU.
LEMMA ReaderShape ==
    ASSUME NEW r \in Readers
    PROVE  /\ r[1] \in Cpus
           /\ r = Task(r[1]) \/ (r = Irq(r[1]) /\ r[1] \in Interrupts)
<1>1. CASE \E c \in Cpus : r = <<c, "task">>
    BY SMTT(30), Z3T(30), <1>1 DEF Task
<1>2. CASE \E c \in Interrupts : r = <<c, "irq">>
    BY SMTT(30), Z3T(30), <1>2, RcuAssumption DEF Irq
<1> QED BY SMTT(30), Z3T(30), <1>1, <1>2 DEF Readers

\* A CPU's task and interrupt are two different contexts, and no other CPU's.
LEMMA CpuReaders ==
    ASSUME NEW c \in Cpus
    PROVE  /\ Task(c) \in Readers /\ (c \in Interrupts => Irq(c) \in Readers)
           /\ Task(c)[1] = c /\ Task(c)[2] = "task" /\ Irq(c)[1] = c /\ Irq(c)[2] = "irq"
           /\ Task(c) # Irq(c)
           /\ \A d \in Cpus : d # c => /\ Task(c) # Task(d) /\ Irq(c) # Irq(d)
                                      /\ Task(c) # Irq(d) /\ Irq(c) # Task(d)
    BY RcuAssumption DEF Readers, Task, Irq

\* Every context may scan, and the three kinds of contexts are apart.
LEMMA Contexts ==
    /\ Readers \subseteq Scanners /\ Writers \subseteq Scanners /\ Drainer \in Scanners
    /\ \A r \in Readers : r # Drainer /\ r \notin Writers
    /\ \A w \in Writers : w # Drainer /\ w \notin Readers
    BY RcuAssumption DEF Scanners

\* A reader changes only its CPU's reader state, counts, the wake and its scan.
LEMMA ReaderFrame ==
    ASSUME NEW r \in Readers, ReaderStep(r)
    PROVE  UNCHANGED <<online, epoch, ptr, queue, reserved, pending, front,
                       wlock, qlock, wpc, expect, fresh, born, dpc, dropped, moves>>
<1> USE DEF RGoto, reader, shared, fifo, wlocal, dlocal
<1>1. CASE Load(r) \/ IsEmpty(r)
    BY <1>1 DEF Load, IsEmpty
<1>2. CASE EmptyBefore(r) \/ EmptyPeek(r) \/ EmptyAfter(r)
    BY <1>2 DEF EmptyBefore, EmptyPeek, EmptyAfter
<1>3. CASE Admit(r) \/ LoadEpoch(r)
    BY <1>3 DEF Admit, LoadEpoch
<1>4. CASE StoreMarker(r) \/ Verify(r) \/ Undo(r) \/ Unadmit(r)
    BY <1>4 DEF StoreMarker, Verify, Undo, Unadmit
<1>5. CASE LoadPointer(r) \/ Clone(r) \/ Exit(r) \/ Depart(r)
    BY <1>5 DEF LoadPointer, Clone, Exit, Depart
<1>6. CASE Note(r) \/ NoteGrace(r) \/ Scan(r)
    BY <1>6 DEF Note, NoteGrace, Scan
<1> QED BY <1>1, <1>2, <1>3, <1>4, <1>5, <1>6 DEF ReaderStep, Read

\* A writer changes nothing of the readers and the drainer.
LEMMA WriterFrame ==
    ASSUME NEW w \in Writers, WriterStep(w)
    PROVE  UNCHANGED <<online, depth, marker, rpc, seen, nested, held, again, reads,
                       queued, dpc, dropped, moves>>
<1> USE DEF reader, rlocal, dlocal
<1>1. CASE Begin(w) \/ Cancel(w) \/ Swap(w) \/ Open(w)
    BY <1>1 DEF Begin, Cancel, Swap, Open
<1>2. CASE Commit(w) \/ Arm(w) \/ Armed(w) \/ Scan(w)
    BY <1>2 DEF Commit, Arm, Armed, Scan
<1>3. CASE FillStore(w) \/ FillOpen(w) \/ \E new \in Unborn : Fill(w, new)
    BY <1>3 DEF FillStore, FillOpen, Fill
<1>4. CASE Publish(w) \/ Clear(w)
    BY <1>4 DEF Publish, Clear, Reserve
<1> QED BY <1>1, <1>2, <1>3, <1>4 DEF WriterStep, Write

\* The drainer changes nothing of the readers and the writers.
LEMMA DrainFrame ==
    ASSUME Reclaim
    PROVE  UNCHANGED <<online, depth, marker, epoch, ptr, reserved, wlock, rpc, seen,
                       nested, held, again, reads, wpc, expect, fresh, born, moves>>
<1> USE DEF besides, reader, rlocal, wlocal
<1>1. CASE Drain \/ DrainFront \/ DrainPop \/ DrainFinal
    BY <1>1 DEF Drain, DrainFront, DrainPop, DrainFinal
<1>2. CASE DrainBlocked \/ DrainRearm \/ DrainRecheck
    BY <1>2 DEF DrainBlocked, DrainRearm, DrainRecheck
<1>3. CASE Scan(Drainer)
    BY <1>3 DEF Scan, fifo
<1> QED BY <1>1, <1>2, <1>3 DEF Reclaim

\* A change of the CPU set changes nothing else.
LEMMA CpuFrame ==
    ASSUME NEW c \in Cpus, CpuStep(c)
    PROVE  UNCHANGED <<depth, marker, epoch, ptr, fifo, queued, kick, wlock, qlock, count,
                       rlocal, wlocal, dlocal, scan>>
    BY DEF CpuStep, RegisterCpu, UnregisterCpu, shared

\* A step is a reader's, a writer's, the drainer's or a change of the CPU set.
LEMMA Steps ==
    ASSUME [Next]_vars
    PROVE  \/ \E r \in Readers : ReaderStep(r)
           \/ \E w \in Writers : WriterStep(w)
           \/ Reclaim
           \/ \E c \in Cpus : CpuStep(c)
           \/ UNCHANGED vars
    BY DEF Next, ReaderStep, WriterStep, CpuStep

-----------------------------------------------------------------------------
(* Scans.                                                                   *)

\* What one step may do to the scan of the context that takes it.
ScanStep(a) ==
    \/ UNCHANGED scan
    \/ \E e \in Nat : StartScan(a, e)
    \/ EndScan(a)
    \/ ScanRegistration(a)
    \/ ScanMarker(a)

\* A step of one context leaves the other scans alone, and a finished scan
\* keeps its verdict until it is read.
LEMMA ScanStepKeeps ==
    ASSUME ScanInv, NEW a \in Scanners, ScanStep(a)
    PROVE  /\ ScanInv'
           /\ \A b \in Scanners \ {a} : /\ left'[b] = left[b] /\ goal'[b] = goal[b]
                                        /\ sample'[b] = sample[b] /\ verdict'[b] = verdict[b]
<1> USE DEF ScanInv
<1>1. CASE UNCHANGED scan
    BY <1>1 DEF scan
<1>2. CASE \E e \in Nat : StartScan(a, e)
    BY SMTT(30), Z3T(30), <1>2 DEF StartScan
<1>3. CASE EndScan(a)
    BY <1>3 DEF EndScan
<1>4. CASE ScanRegistration(a)
    BY <1>4 DEF ScanRegistration
<1>5. CASE ScanMarker(a)
  <2>1. PICK c \in Cpus :
          /\ Lowest(c, left[a])
          /\ LET ok == CpuGrace(sample[a], marker[c], goal[a])
                 rest == IF ok THEN left[a] \ {c} ELSE {} IN
             /\ left' = [left EXCEPT ![a] = rest]
             /\ verdict' = [verdict EXCEPT ![a] =
                               IF ~ok THEN "no" ELSE IF rest = {} THEN "yes" ELSE @]
    BY <1>5 DEF ScanMarker
  <2>2. goal' = goal /\ sample' = [sample EXCEPT ![a] = "none"]
    BY <1>5 DEF ScanMarker
  <2>3. verdict[a] = "none"
    BY <2>1 DEF Lowest
  <2> QED BY <2>1, <2>2, <2>3
<1> QED BY <1>1, <1>2, <1>3, <1>4, <1>5 DEF ScanStep

\* The hint and the front entry are epochs.
LEMMA FrontNat ==
    ASSUME FifoInv
    PROVE  /\ front \in Nat /\ (queue # <<>> => front = Head(queue)[2] /\ front > 0)
           /\ queue # <<>> => /\ Len(queue) > 0 /\ Head(queue) = queue[1]
                              /\ queue[1] \in Objects \X Nat
<1>1. queue \in Seq(Objects \X Nat)
    BY DEF FifoInv
<1>2. CASE queue = <<>>
    BY <1>2 DEF FifoInv, FrontEpoch
<1>3. CASE queue # <<>>
  <2>1. Len(queue) > 0 /\ 1 \in 1 .. Len(queue) /\ Head(queue) = queue[1]
    BY SMTT(30), Z3T(30), <1>1, <1>3
  <2>2. queue[1] \in Objects \X Nat
    BY SMTT(30), Z3T(30), <1>1, <2>1
  <2> QED BY <1>3, <2>1, <2>2 DEF FifoInv, FrontEpoch
<1> QED BY <1>2, <1>3

\* Every step scans in the name of the context that takes it.
LEMMA ReaderScans ==
    ASSUME FifoInv, NEW r \in Readers, ReaderStep(r) PROVE ScanStep(r)
<1> USE DEF ScanStep, scan
<1>1. CASE Load(r) \/ IsEmpty(r) \/ EmptyBefore(r) \/ EmptyPeek(r) \/ EmptyAfter(r)
    BY <1>1 DEF Load, IsEmpty, EmptyBefore, EmptyPeek, EmptyAfter
<1>2. CASE Admit(r) \/ LoadEpoch(r) \/ StoreMarker(r) \/ Verify(r) \/ Undo(r) \/ Unadmit(r)
    BY <1>2 DEF Admit, LoadEpoch, StoreMarker, Verify, Undo, Unadmit
<1>3. CASE LoadPointer(r) \/ Clone(r) \/ Exit(r) \/ Depart(r)
    BY <1>3 DEF LoadPointer, Clone, Exit, Depart
<1>4. CASE Note(r) \/ NoteGrace(r) \/ Scan(r)
    BY <1>4, FrontNat DEF Note, NoteGrace, Scan
<1> QED BY <1>1, <1>2, <1>3, <1>4 DEF ReaderStep, Read

\* A writer's step is at most a step of its own scan (has_reclaimable_pending).
LEMMA WriterScans ==
    ASSUME FifoInv, NEW w \in Writers, WriterStep(w) PROVE ScanStep(w)
<1> USE DEF ScanStep
<1>1. CASE Begin(w) \/ Cancel(w) \/ Swap(w) \/ Open(w) \/ Commit(w)
    BY <1>1 DEF Begin, Cancel, Swap, Open, Commit
<1>2. CASE Arm(w) \/ Armed(w) \/ Scan(w)
    BY <1>2, FrontNat DEF Arm, Armed, Scan
<1>3. CASE FillStore(w) \/ FillOpen(w) \/ \E new \in Unborn : Fill(w, new)
    BY <1>3 DEF FillStore, FillOpen, Fill
<1>4. CASE Publish(w) \/ Clear(w)
    BY <1>4 DEF Publish, Clear, Reserve
<1> QED BY <1>1, <1>2, <1>3, <1>4 DEF WriterStep, Write

\* The drainer's step is at most a step of its own scan.
LEMMA DrainScans == ASSUME FifoInv, Reclaim PROVE ScanStep(Drainer)
<1> USE DEF ScanStep
<1>1. CASE Drain \/ DrainPop \/ DrainBlocked \/ DrainRecheck \/ Scan(Drainer)
    BY <1>1 DEF Drain, DrainPop, DrainBlocked, DrainRecheck, Scan
<1>2. CASE DrainFront \/ DrainFinal \/ DrainRearm
    BY <1>2, FrontNat DEF DrainFront, DrainFinal, DrainRearm
<1> QED BY <1>1, <1>2 DEF Reclaim

\* grace_complete ends with its verdict, whoever else moves meanwhile.
LEMMA ScanInvKept == ASSUME ScanInv, FifoInv, [Next]_vars PROVE ScanInv'
<1>1. CASE \E r \in Readers : ReaderStep(r)
    BY <1>1, ReaderScans, ScanStepKeeps, Contexts
<1>2. CASE \E w \in Writers : WriterStep(w)
    BY <1>2, WriterScans, ScanStepKeeps, Contexts
<1>3. CASE Reclaim
    BY <1>3, DrainScans, ScanStepKeeps, Contexts
<1>4. CASE (\E c \in Cpus : CpuStep(c)) \/ UNCHANGED vars
    BY <1>4, CpuFrame DEF vars, scan, ScanInv
<1> QED BY <1>1, <1>2, <1>3, <1>4, Steps

-----------------------------------------------------------------------------
(* Readers.                                                                 *)

\* A step of a reader changes only its own locals and its CPU's state.
Local(r) ==
    /\ \A d \in Cpus \ {r[1]} : depth'[d] = depth[d] /\ marker'[d] = marker[d]
    /\ \A s \in Readers \ {r} : /\ rpc'[s] = rpc[s] /\ seen'[s] = seen[s]
                                /\ nested'[s] = nested[s] /\ held'[s] = held[s]

\* A reader's step changes its own variables and its CPU's words only.
LEMMA ReaderLocal ==
    ASSUME ReaderTypes, WriterTypes, NEW r \in Readers, ReaderStep(r)
    PROVE  ReaderTypes' /\ Local(r)
<1> USE DEF ReaderTypes, WriterTypes, Local, RGoto, reader, ReaderPcs, Admitted
<1>0. r[1] \in Cpus
    BY ReaderShape
<1>1. CASE Load(r) \/ IsEmpty(r)
    BY <1>1 DEF Load, IsEmpty
<1>2. CASE EmptyBefore(r)
    BY SMTT(30), Z3T(30), <1>2 DEF EmptyBefore
<1>2a. CASE EmptyPeek(r)
    BY <1>2a DEF EmptyPeek
<1>2b. CASE EmptyAfter(r)
    BY SMTT(30), Z3T(30), <1>2b DEF EmptyAfter
<1>3. CASE Admit(r)
  <2>0. UNCHANGED <<online, marker, held>>
    BY <1>3 DEF Admit
  <2>1. CASE ~online[r[1]]
    BY <1>3, <2>0, <2>1 DEF Admit
  <2>2. CASE online[r[1]] /\ depth[r[1]] = 0
    <3>1. /\ nested' = [nested EXCEPT ![r] = FALSE] /\ rpc' = [rpc EXCEPT ![r] = "epoch"]
          /\ seen' = [seen EXCEPT ![r] = 0] /\ depth' = [depth EXCEPT ![r[1]] = @ + 1]
          /\ UNCHANGED again
        BY <1>3, <2>2 DEF Admit
    <3> QED BY SMTT(30), Z3T(30), <1>0, <2>0, <3>1
  <2>3. CASE online[r[1]] /\ depth[r[1]] # 0
    <3>1. /\ nested' = [nested EXCEPT ![r] = TRUE] /\ rpc' = [rpc EXCEPT ![r] = "load"]
          /\ seen' = [seen EXCEPT ![r] = marker[r[1]] - 1]
          /\ depth' = [depth EXCEPT ![r[1]] = @ + 1] /\ UNCHANGED again
        BY <1>3, <2>3 DEF Admit
    <3> QED BY SMTT(30), Z3T(30), <1>0, <2>0, <3>1
  <2> QED BY <2>1, <2>2, <2>3
<1>4. CASE LoadEpoch(r)
    BY SMTT(30), Z3T(30), <1>0, <1>4 DEF LoadEpoch
<1>5. CASE StoreMarker(r)
    BY SMTT(30), Z3T(30), <1>0, <1>5 DEF StoreMarker
<1>6. CASE Verify(r)
    BY <1>6 DEF Verify
<1>7. CASE Undo(r)
    BY SMTT(30), Z3T(30), <1>0, <1>7 DEF Undo
<1>8. CASE Unadmit(r)
    BY SMTT(30), Z3T(30), <1>0, <1>8 DEF Unadmit
<1>9. CASE LoadPointer(r)
    BY <1>9 DEF LoadPointer
<1>10. CASE Clone(r)
    BY <1>10 DEF Clone
<1>11. CASE Exit(r)
    BY SMTT(30), Z3T(30), <1>0, <1>11 DEF Exit
<1>12. CASE Depart(r)
  <2>1. /\ depth' = [depth EXCEPT ![r[1]] = @ - 1] /\ seen' = [seen EXCEPT ![r] = 0]
        /\ nested' = [nested EXCEPT ![r] = FALSE] /\ held' = [held EXCEPT ![r] = Null]
        /\ UNCHANGED <<online, marker, again>>
    BY <1>12 DEF Depart
  <2>2. \E l \in {"admit", "idle", "note"} : rpc' = [rpc EXCEPT ![r] = l]
    BY <1>12 DEF Depart, Finished
  <2> QED BY SMTT(30), Z3T(30), <1>0, <2>1, <2>2
<1>13. CASE Note(r)
    BY <1>13 DEF Note, Finished
<1>14. CASE NoteGrace(r)
    BY <1>14 DEF NoteGrace, Finished
<1>15. CASE Scan(r)
    BY <1>15 DEF Scan, rlocal
<1> QED BY <1>1, <1>2, <1>2a, <1>2b, <1>3, <1>4, <1>5, <1>6, <1>7, <1>8, <1>9,
           <1>10,
           <1>11, <1>12, <1>13, <1>14, <1>15 DEF ReaderStep, Read

\* The epoch only grows.
LEMMA EpochGrows ==
    ASSUME WriterTypes, [Next]_vars
    PROVE  epoch' = epoch \/ epoch' = epoch + 1
<1>1. ASSUME NEW w \in Writers, WriterStep(w) PROVE epoch' = epoch \/ epoch' = epoch + 1
    BY <1>1
       DEF WriterStep, Write, Begin, Cancel, Swap, Open, Commit, Arm, Armed, Scan,
           FillStore, FillOpen, Fill, Publish, Clear, Reserve
<1> QED BY <1>1, Steps, ReaderFrame, DrainFrame, CpuFrame DEF vars

\* Reader state is kept by every step.
LEMMA ReaderInvKept ==
    ASSUME ReaderTypes, WriterTypes, ReaderInv, [Next]_vars PROVE ReaderTypes' /\ ReaderInv'
\* A reader that steps is not suspended by an interrupt.
<1>StepRuns. ASSUME NEW r \in Readers, ReaderStep(r) PROVE Runs(r)
    BY <1>StepRuns
       DEF ReaderStep, Read, At, Load, IsEmpty, EmptyBefore, EmptyPeek, EmptyAfter, Admit,
           LoadEpoch, StoreMarker, Verify, Undo, Unadmit, LoadPointer, Clone, Exit,
           Depart,
           Note, NoteGrace
\* The task moves only while its CPU's interrupt is idle.
<1>TaskKeeps.
    ASSUME ReaderTypes, ReaderTypes', NEW r \in Readers, ReaderStep(r), Local(r), NEW c \in Cpus,
           r = Task(c), CpuInv(c), online' = online
    PROVE  CpuInv(c)'
  <2> USE <1>TaskKeeps
  <2> USE DEF ReaderTypes, RGoto, At, reader, ReaderPcs, Admitted, Marked, Pinned, CpuInv,
              TaskInv, DepthInv, Counts
  <2>a. /\ r[1] = c /\ r[2] = "task" /\ Task(c) # Irq(c)
        /\ c \in Interrupts => /\ Irq(c) \in Readers /\ rpc[Irq(c)] = "idle" /\ ~nested[Irq(c)]
                               /\ rpc'[Irq(c)] = "idle" /\ ~nested'[Irq(c)]
        /\ c \in Interrupts => IrqInv(c)'
    <3>1. /\ r[1] = c /\ r[2] = "task" /\ Task(c) # Irq(c)
          /\ c \in Interrupts => Irq(c) \in Readers
      BY CpuReaders
    <3>2. c \in Interrupts => rpc[Irq(c)] = "idle"
      BY <3>1, <1>StepRuns DEF Runs, Irq
    <3>3. c \in Interrupts => ~nested[Irq(c)]
      BY <3>2 DEF IrqInv
    <3>4. c \in Interrupts => rpc'[Irq(c)] = "idle" /\ nested'[Irq(c)] = nested[Irq(c)]
      BY <3>1, <3>2 DEF Local
    <3> QED BY <3>1, <3>2, <3>3, <3>4 DEF IrqInv
  <2>1. CASE Load(r) \/ IsEmpty(r)
      BY <2>1, <2>a DEF Load, IsEmpty
  <2>2. CASE EmptyBefore(r) \/ EmptyPeek(r) \/ EmptyAfter(r)
      BY SMTT(30), Z3T(30), <2>2, <2>a DEF EmptyBefore, EmptyPeek, EmptyAfter
  <2>3. CASE Admit(r)
      BY SMTT(30), Z3T(30), <2>3, <2>a DEF Admit
  <2>4. CASE LoadEpoch(r)
      BY SMTT(30), Z3T(30), <2>4, <2>a DEF LoadEpoch
  <2>5. CASE StoreMarker(r)
      BY SMTT(30), Z3T(30), <2>5, <2>a DEF StoreMarker
  <2>6. CASE Verify(r)
      BY <2>6, <2>a DEF Verify
  <2>7. CASE Undo(r)
      BY <2>7, <2>a DEF Undo
  <2>8. CASE Unadmit(r)
      BY SMTT(30), Z3T(30), <2>8, <2>a DEF Unadmit
  <2>9. CASE LoadPointer(r) \/ Clone(r)
      BY <2>9, <2>a DEF LoadPointer, Clone
  <2>10. CASE Exit(r)
      BY <2>10, <2>a DEF Exit
  <2>11. CASE Depart(r)
      BY SMTT(30), Z3T(30), <2>11, <2>a DEF Depart, Finished
  <2>12. CASE Note(r) \/ NoteGrace(r)
      BY SMTT(30), Z3T(30), <2>12, <2>a DEF Note, NoteGrace, Finished
  <2>13. CASE Scan(r)
      BY <2>13, <2>a DEF Scan, rlocal
  <2> QED BY <2>1, <2>2, <2>3, <2>4, <2>5, <2>6, <2>7, <2>8, <2>9, <2>10, <2>11,
             <2>12, <2>13
          DEF ReaderStep, Read
\* An interrupt returns before its task goes on.
<1>IrqKeeps.
    ASSUME ReaderTypes, ReaderTypes', NEW r \in Readers, ReaderStep(r), Local(r),
           NEW c \in Interrupts,
           r = Irq(c), CpuInv(c), online' = online
    PROVE  CpuInv(c)'
  <2> USE <1>IrqKeeps
  <2> USE DEF ReaderTypes, RGoto, At, reader, ReaderPcs, Admitted, Marked, Pinned,
              Masked, CpuInv,
              TaskInv, IrqInv, DepthInv, Counts
  <2>a. /\ r[1] = c /\ r[2] = "irq" /\ Task(c) # Irq(c) /\ Task(c) \in Readers
        /\ rpc'[Task(c)] = rpc[Task(c)] /\ nested'[Task(c)] = nested[Task(c)]
        /\ seen'[Task(c)] = seen[Task(c)] /\ c \in Cpus /\ Task(c) = <<r[1], "task">>
    <3>1. c \in Cpus
      BY RcuAssumption
    <3>2. /\ r[1] = c /\ r[2] = "irq" /\ Task(c) # Irq(c) /\ Task(c) \in Readers
      BY <3>1, CpuReaders
    <3>3. Task(c) = <<r[1], "task">>
      BY <3>2 DEF Task
    <3> QED BY <3>1, <3>2, <3>3 DEF Local
  <2>1. CASE Load(r) \/ IsEmpty(r)
      BY SMTT(30), Z3T(30), <2>1, <2>a DEF Load, IsEmpty
  <2>2. CASE EmptyBefore(r) \/ EmptyPeek(r) \/ EmptyAfter(r)
      BY SMTT(30), Z3T(30), <2>2, <2>a DEF EmptyBefore, EmptyPeek, EmptyAfter
  <2>3. CASE Admit(r)
      BY SMTT(30), Z3T(30), <2>3, <2>a DEF Admit
  <2>4. CASE LoadEpoch(r)
      BY SMTT(30), Z3T(30), <2>4, <2>a DEF LoadEpoch
  <2>5. CASE StoreMarker(r)
      BY SMTT(30), Z3T(30), <2>5, <2>a DEF StoreMarker
  <2>6. CASE Verify(r)
      BY <2>6, <2>a DEF Verify
  <2>7. CASE Undo(r)
      BY <2>7, <2>a DEF Undo
  <2>8. CASE Unadmit(r)
      BY SMTT(30), Z3T(30), <2>8, <2>a DEF Unadmit
  <2>9. CASE LoadPointer(r) \/ Clone(r)
      BY SMTT(30), Z3T(30), <2>9, <2>a DEF LoadPointer, Clone
  <2>10. CASE Exit(r)
      BY <2>10, <2>a DEF Exit
  <2>11. CASE Depart(r)
      BY SMTT(30), Z3T(30), <2>11, <2>a DEF Depart, Finished
  <2>12. CASE Note(r) \/ NoteGrace(r)
      BY SMTT(30), Z3T(30), <2>12, <2>a DEF Note, NoteGrace, Finished
  <2>13. CASE Scan(r)
      BY <2>13, <2>a DEF Scan, rlocal
  <2> QED BY <2>1, <2>2, <2>3, <2>4, <2>5, <2>6, <2>7, <2>8, <2>9, <2>10, <2>11,
             <2>12, <2>13
          DEF ReaderStep, Read
\* A reader that enters nested takes the epoch of its CPU's marker, the one the
\* interrupted task loaded.
<1>NestedDate.
    ASSUME ReaderTypes, ReaderInv, NEW r \in Readers, Runs(r), rpc[r] = "admit", depth[r[1]] # 0
    PROVE  /\ marker[r[1]] - 1 \in Nat /\ (marker[r[1]] - 1) % 2 = 0
           /\ marker[r[1]] - 1 <= epoch
  <2> USE <1>NestedDate
  <2> DEFINE c == r[1]
  <2>1. c \in Cpus /\ (r = Task(c) \/ (r = Irq(c) /\ c \in Interrupts))
      BY ReaderShape
  <2>2. CpuInv(c)
      BY <2>1 DEF ReaderInv
  <2>3. r # Task(c)
    <3> SUFFICES ASSUME r = Task(c) PROVE FALSE
      OBVIOUS
    <3>1. c \in Interrupts => rpc[Irq(c)] = "idle"
      BY SMTT(30), Z3T(30), <2>1, CpuReaders DEF Runs, Irq
    <3> QED BY SMTT(30), Z3T(30), <2>2, <3>1 DEF CpuInv, DepthInv, Counts, Admitted
  <2>4. r = Irq(c) /\ c \in Interrupts
      BY <2>1, <2>3
  <2>5. rpc[Task(c)] \in Pinned
    <3>1. Counts(Irq(c)) = 0
      BY <2>4 DEF Counts, Admitted
    <3>2. Counts(Task(c)) # 0
      BY SMTT(30), Z3T(30), <2>2, <2>4, <3>1 DEF CpuInv, DepthInv, Counts
    <3>3. rpc[Task(c)] \in Admitted /\ rpc[Task(c)] \notin Masked
      BY <2>2, <2>4, <3>2 DEF CpuInv, IrqInv, Counts
    <3> QED BY <3>3 DEF Admitted, Masked, Pinned
  <2>6. marker[c] = seen[Task(c)] + 1
      BY <2>2, <2>5 DEF CpuInv, TaskInv, Pinned, Admitted, Marked
  <2>7. Task(c) \in Readers /\ seen[Task(c)] \in Int
      BY <2>1, CpuReaders DEF ReaderTypes
  <2>8. seen[Task(c)] \in Nat /\ seen[Task(c)] % 2 = 0 /\ seen[Task(c)] <= epoch
      BY <2>5, <2>7 DEF ReaderInv, DateInv, Pinned, Dated, Marked
  <2> QED BY SMTT(30), Z3T(30), <2>6, <2>7, <2>8
\* read_enter and is_empty keep only even epochs, and epochs never go back.
<1>DateKept.
    ASSUME ReaderTypes, ReaderTypes', WriterTypes, ReaderInv, NEW r \in Readers,
           ReaderStep(r), Local(r)
    PROVE  DateInv'
  <2> USE <1>DateKept
  <2>0. UNCHANGED epoch /\ epoch \in Nat
      BY ReaderFrame DEF WriterTypes
  <2> SUFFICES rpc'[r] \in Dated =>
                 seen'[r] \in Nat /\ seen'[r] % 2 = 0 /\ seen'[r] <= epoch
      BY <2>0 DEF DateInv, Local, ReaderInv
  <2>a. rpc[r] \in Dated => seen[r] \in Nat /\ seen[r] % 2 = 0 /\ seen[r] <= epoch
      BY DEF ReaderInv, DateInv
  <2> USE DEF ReaderTypes, RGoto, At, Dated, Marked
  <2>1. CASE Load(r) \/ IsEmpty(r) \/ EmptyPeek(r) \/ EmptyAfter(r)
      BY SMTT(30), Z3T(30), <2>1, <2>a DEF Load, IsEmpty, EmptyPeek, EmptyAfter
  <2>2. CASE EmptyBefore(r) \/ LoadEpoch(r)
    <3>1. epoch % 2 = 1 \/ epoch % 2 = 0
      BY SMTT(30), Z3T(30), <2>0
    <3> QED BY SMTT(30), Z3T(30), <2>0, <2>2, <2>a, <3>1 DEF EmptyBefore, LoadEpoch
  <2>3. CASE Admit(r)
      BY SMTT(30), Z3T(30), <2>3, <1>NestedDate DEF Admit
  <2>4. CASE StoreMarker(r) \/ Verify(r) \/ Undo(r) \/ Unadmit(r) \/ Exit(r)
      BY <2>4, <2>a DEF StoreMarker, Verify, Undo, Unadmit, Exit
  <2>5. CASE LoadPointer(r) \/ Clone(r)
      BY <2>5, <2>a DEF LoadPointer, Clone
  <2>6. CASE Depart(r) \/ Note(r) \/ NoteGrace(r)
      BY SMTT(30), Z3T(30), <2>6 DEF Depart, Note, NoteGrace, Finished
  <2>7. CASE Scan(r)
      BY <2>7, <2>a DEF Scan, rlocal
  <2> QED BY <2>1, <2>2, <2>3, <2>4, <2>5, <2>6, <2>7 DEF ReaderStep, Read
<1>1. ASSUME NEW r \in Readers, ReaderStep(r) PROVE ReaderTypes' /\ ReaderInv'
  <2>1. ReaderTypes' /\ Local(r) /\ DateInv' /\ UNCHANGED online
    BY <1>1, ReaderLocal, <1>DateKept, ReaderFrame
  <2>2. r[1] \in Cpus /\ (r = Task(r[1]) \/ (r = Irq(r[1]) /\ r[1] \in Interrupts))
    BY ReaderShape
  <2>3. CpuInv(r[1])
    BY <2>2 DEF ReaderInv
  <2>4. CpuInv(r[1])'
    BY <1>1, <2>1, <2>2, <2>3, <1>TaskKeeps, <1>IrqKeeps
  <2>5. ASSUME NEW d \in Cpus, d # r[1] PROVE CpuInv(d)'
    <3>1. /\ Task(d) \in Readers \ {r} /\ (d \in Interrupts => Irq(d) \in Readers \ {r})
        BY <2>2, <2>5, CpuReaders
    <3>2. depth'[d] = depth[d] /\ marker'[d] = marker[d]
        BY <2>1, <2>5 DEF Local
    <3>3. /\ rpc'[Task(d)] = rpc[Task(d)] /\ nested'[Task(d)] = nested[Task(d)]
          /\ seen'[Task(d)] = seen[Task(d)]
          /\ d \in Interrupts => /\ rpc'[Irq(d)] = rpc[Irq(d)] /\ nested'[Irq(d)] = nested[Irq(d)]
                                 /\ seen'[Irq(d)] = seen[Irq(d)]
        BY <2>1, <3>1 DEF Local
    <3>4. CpuInv(d)
        BY DEF ReaderInv
    <3> QED BY <2>1, <3>2, <3>3, <3>4 DEF CpuInv, TaskInv, IrqInv, DepthInv, Counts
  <2> QED BY <2>1, <2>4, <2>5 DEF ReaderInv
<1>2. ASSUME UNCHANGED <<online, depth, marker, rpc, seen, nested, held, again>>
      PROVE  ReaderTypes' /\ ReaderInv'
  <2>1. epoch \in Nat /\ (epoch' = epoch \/ epoch' = epoch + 1)
    BY EpochGrows DEF WriterTypes
  <2>2. DateInv'
    BY SMTT(30), Z3T(30), <1>2, <2>1 DEF ReaderInv, DateInv, ReaderTypes
  <2> QED BY <1>2, <2>2
             DEF ReaderTypes, ReaderInv, CpuInv, TaskInv, IrqInv, DepthInv, Counts
<1>3. ASSUME NEW c \in Cpus, CpuStep(c) PROVE ReaderTypes' /\ ReaderInv'
  <2>1. /\ UNCHANGED <<depth, marker, rpc, seen, nested, held, again, epoch>>
        /\ depth[c] = 0 /\ \E b \in BOOLEAN : online' = [online EXCEPT ![c] = b]
    BY <1>3, CpuFrame DEF rlocal, CpuStep, RegisterCpu, UnregisterCpu
  <2>2. ReaderTypes'
    BY <2>1 DEF ReaderTypes
  <2>3. DateInv'
    BY <2>1 DEF ReaderInv, DateInv
  <2>4. \A d \in Cpus : ~online'[d] => depth[d] = 0
    BY <2>1 DEF ReaderTypes, ReaderInv, CpuInv, DepthInv
  <2> QED BY <2>1, <2>2, <2>3, <2>4
             DEF ReaderInv, CpuInv, TaskInv, IrqInv, DepthInv, Counts
<1> QED BY <1>1, <1>2, <1>3, Steps, WriterFrame, DrainFrame
           DEF vars, reader, rlocal

-----------------------------------------------------------------------------
(* Writers.                                                                 *)

\* The slot, the writer lock and the writers' own steps, action by action.
LEMMA WriterTypesKept ==
    ASSUME WriterTypes, NEW w \in Writers, WriterStep(w) PROVE WriterTypes'
<1> USE DEF WriterTypes, WGoto, WriterPcs, Locked, Expecting, Reserving
<1>1. CASE Begin(w)
    BY SMTT(30), Z3T(30), <1>1 DEF Begin
<1>2. CASE Cancel(w)
    BY <1>2 DEF Cancel
<1>3. CASE Swap(w) \/ Open(w)
    BY SMTT(30), Z3T(30), <1>3 DEF Swap, Open
<1>4. CASE Commit(w)
    BY <1>4 DEF Commit
<1>5. CASE Arm(w) \/ Armed(w)
    BY <1>5 DEF Arm, Armed
<1>6. CASE FillStore(w) \/ FillOpen(w)
    BY SMTT(30), Z3T(30), <1>6 DEF FillStore, FillOpen
<1>7. CASE \E new \in Unborn : Fill(w, new)
    BY SMTT(30), Z3T(30), <1>7 DEF Fill, Unborn
<1>8. CASE Publish(w) \/ Clear(w)
    BY SMTT(30), Z3T(30), <1>8 DEF Publish, Clear, Reserve, Unborn
<1>9. CASE Scan(w)
    BY <1>9 DEF Scan, wlocal
<1> QED BY <1>1, <1>2, <1>3, <1>4, <1>5, <1>6, <1>7, <1>8, <1>9
           DEF WriterStep, Write

\* A writer inside the lock is alone there.
LEMMA AloneInside ==
    ASSUME WriterInv, NEW w \in Writers, wpc[w] \in Locked
    PROVE  w \in wlock /\ \A v \in Writers : v # w => v \notin wlock /\ wpc[v] \notin Locked
    BY DEF WriterInv

\* A writer's step keeps the writer lock, the parity of the epoch and what
\* the writers own.
LEMMA WriterInvKept ==
    ASSUME WriterTypes, WriterTypes', WriterInv, NEW w \in Writers, WriterStep(w)
    PROVE  WriterInv'
\* A writer that is about to take the lock finds nobody inside, and so an even
\* epoch.
<1>NobodyInside.
    ASSUME WriterTypes, WriterInv, wlock = {}
    PROVE  /\ \A v \in Writers : wpc[v] \notin Locked
           /\ epoch % 2 = 0
  <2> USE <1>NobodyInside
  <2>1. \A v \in Writers : wpc[v] \notin Locked
      BY DEF WriterInv
  <2>2. \A v \in Writers : wpc[v] \notin Closed
      BY <2>1 DEF Locked, Closed
  <2>3. epoch % 2 = 0 \/ epoch % 2 = 1
      BY SMTT(30), Z3T(30) DEF WriterTypes
  <2> QED BY <2>1, <2>2, <2>3 DEF WriterInv
<1>t. epoch \in Nat /\ (epoch % 2 = 0 \/ epoch % 2 = 1)
    BY SMTT(30), Z3T(30) DEF WriterTypes
<1>p. /\ epoch % 2 = 0 => (epoch + 1) % 2 = 1
      /\ epoch % 2 = 1 => (epoch + 1) % 2 = 0
    BY SMTT(30), Z3T(30), <1>t
<1>l. Closed \subseteq Locked /\ Private \subseteq Locked \cup {"reserved"}
    BY DEF Closed, Locked, Private
<1> USE DEF WriterTypes, WGoto
<1>1. CASE Begin(w)
  <2>1. /\ wpc[w] = "reserved" /\ wlock = {} /\ wlock' = {w}
        /\ UNCHANGED <<ptr, expect, fresh, born>>
    BY <1>1 DEF Begin
  <2>2. (\A v \in Writers : wpc[v] \notin Locked) /\ epoch % 2 = 0
    BY <2>1, <1>NobodyInside
  <2>3. CASE epoch' = epoch + 1 /\ wpc' = [wpc EXCEPT ![w] = "swap"] /\ ptr = expect[w]
    <3>1. epoch' % 2 = 1 /\ wpc'[w] \in Closed
        BY <1>p, <2>2, <2>3 DEF Closed
    <3> QED BY SMTT(30), Z3T(30), <1>l, <2>1, <2>2, <2>3, <3>1
               DEF WriterInv, Locked, Expecting, Reserving, Private
  <2>4. CASE epoch' = epoch /\ wpc' = [wpc EXCEPT ![w] = "cancel"]
    <3>1. \A v \in Writers : wpc'[v] \notin Closed
        BY <1>l, <2>2, <2>4 DEF Closed
    <3> QED BY <1>l, <2>1, <2>2, <2>4, <3>1
               DEF WriterInv, Locked, Expecting, Reserving, Private
  <2> QED BY <1>1, <2>3, <2>4 DEF Begin
<1>2. CASE Cancel(w)
  <2>1. /\ wpc[w] \in {"reserved", "cancel"} /\ wlock' = wlock \ {w}
        /\ wpc' = [wpc EXCEPT ![w] = "idle"] /\ expect' = [expect EXCEPT ![w] = Null]
        /\ fresh' = [fresh EXCEPT ![w] = Null] /\ UNCHANGED <<ptr, epoch, born>>
    BY <1>2 DEF Cancel
  <2>2. (\E v \in Writers : wpc'[v] \in Closed) <=> \E v \in Writers : wpc[v] \in Closed
    BY <2>1 DEF Closed
  <2> QED BY <2>1, <2>2 DEF WriterInv, Locked, Expecting, Reserving, Private
<1>3. CASE Swap(w)
  <2>1. /\ wpc[w] = "swap" /\ wpc' = [wpc EXCEPT ![w] = "open"] /\ ptr' = fresh[w]
        /\ UNCHANGED <<expect, fresh, wlock, epoch, born>>
    BY <1>3 DEF Swap
  <2>2. \A v \in Writers : v # w => wpc[v] \notin Locked
    BY <2>1, AloneInside DEF Locked
  <2>3. (\E v \in Writers : wpc'[v] \in Closed) /\ (\E v \in Writers : wpc[v] \in Closed)
    BY <2>1 DEF Closed
  <2> QED BY <2>1, <2>2, <2>3 DEF WriterInv, Locked, Expecting, Reserving, Private
<1>4. CASE Open(w)
  <2>1. /\ wpc[w] = "open" /\ wpc' = [wpc EXCEPT ![w] = "commit"] /\ epoch' = epoch + 1
        /\ UNCHANGED <<ptr, expect, fresh, wlock, born>>
    BY <1>4 DEF Open
  <2>2. \A v \in Writers : v # w => wpc[v] \notin Locked
    BY <2>1, AloneInside DEF Locked
  <2>3. epoch % 2 = 1
    BY <2>1 DEF WriterInv, Closed
  <2>4. epoch' % 2 = 0 /\ \A v \in Writers : wpc'[v] \notin Closed
    BY <1>l, <1>p, <2>1, <2>2, <2>3 DEF Closed
  <2> QED BY SMTT(30), Z3T(30), <2>1, <2>2, <2>4
             DEF WriterInv, Locked, Expecting, Reserving, Private
<1>5. CASE Commit(w)
  <2>1. /\ wpc[w] = "commit" /\ wpc' = [wpc EXCEPT ![w] = "arm"] /\ wlock' = {}
        /\ UNCHANGED <<ptr, expect, fresh, epoch, born>>
    BY <1>5 DEF Commit
  <2>2. \A v \in Writers : v # w => wpc[v] \notin Locked
    BY <2>1, AloneInside DEF Locked
  <2>3. (\E v \in Writers : wpc'[v] \in Closed) <=> \E v \in Writers : wpc[v] \in Closed
    BY <2>1 DEF Closed
  <2> QED BY <2>1, <2>2, <2>3 DEF WriterInv, Locked, Expecting, Reserving, Private
<1>6. CASE Arm(w) \/ Armed(w)
  <2>1. /\ wpc[w] \in {"arm", "grace"} /\ UNCHANGED <<ptr, epoch, born, wlock>>
        /\ \E l \in {"idle", "grace"} : wpc' = [wpc EXCEPT ![w] = l]
        /\ \A v \in Writers : v # w => expect'[v] = expect[v] /\ fresh'[v] = fresh[v]
    BY <1>6 DEF Arm, Armed
  <2>2. (\E v \in Writers : wpc'[v] \in Closed) <=> \E v \in Writers : wpc[v] \in Closed
    BY <2>1 DEF Closed
  <2> QED BY SMTT(30), Z3T(30), <2>1, <2>2
             DEF WriterInv, Locked, Expecting, Reserving, Private
<1>7. CASE FillStore(w)
  <2>1. /\ wpc[w] = "store" /\ wpc' = [wpc EXCEPT ![w] = "filled"] /\ ptr' = fresh[w]
        /\ UNCHANGED <<expect, fresh, wlock, epoch, born>>
    BY <1>7 DEF FillStore
  <2>2. \A v \in Writers : v # w => wpc[v] \notin Locked
    BY <2>1, AloneInside DEF Locked
  <2>3. (\E v \in Writers : wpc'[v] \in Closed) /\ (\E v \in Writers : wpc[v] \in Closed)
    BY <2>1 DEF Closed
  <2> QED BY <2>1, <2>2, <2>3 DEF WriterInv, Locked, Expecting, Reserving, Private
<1>8. CASE FillOpen(w)
  <2>1. /\ wpc[w] = "filled" /\ wpc' = [wpc EXCEPT ![w] = "idle"] /\ epoch' = epoch + 1
        /\ wlock' = {} /\ fresh' = [fresh EXCEPT ![w] = Null] /\ UNCHANGED <<ptr, expect, born>>
    BY <1>8 DEF FillOpen
  <2>2. \A v \in Writers : v # w => wpc[v] \notin Locked
    BY <2>1, AloneInside DEF Locked
  <2>3. epoch % 2 = 1
    BY <2>1 DEF WriterInv, Closed
  <2>4. epoch' % 2 = 0 /\ \A v \in Writers : wpc'[v] \notin Closed
    BY <1>l, <1>p, <2>1, <2>2, <2>3 DEF Closed
  <2> QED BY SMTT(30), Z3T(30), <2>1, <2>2, <2>4
             DEF WriterInv, Locked, Expecting, Reserving, Private
<1>9. CASE \E new \in Unborn : Fill(w, new)
  <2>1. PICK new \in Unborn :
          /\ wpc[w] = "idle" /\ wlock = {} /\ ptr = Null /\ wlock' = {w} /\ epoch' = epoch + 1
          /\ fresh' = [fresh EXCEPT ![w] = new] /\ born' = born \cup {new}
          /\ wpc' = [wpc EXCEPT ![w] = "store"] /\ UNCHANGED <<ptr, expect>>
    BY <1>9 DEF Fill
  <2>2. (\A v \in Writers : wpc[v] \notin Locked) /\ epoch % 2 = 0
    BY <2>1, <1>NobodyInside
  <2>3. epoch' % 2 = 1 /\ wpc'[w] \in Closed /\ new # Null
    BY <1>p, <2>1, <2>2, RcuAssumption DEF Closed, Unborn
  <2> QED BY <2>1, <2>2, <2>3 DEF WriterInv, Locked, Expecting, Reserving, Private
<1>10. CASE Publish(w) \/ Clear(w)
  <2>1. PICK new \in Unborn \cup {Null} :
          /\ wpc[w] = "idle" /\ ptr # Null /\ expect' = [expect EXCEPT ![w] = ptr]
          /\ fresh' = [fresh EXCEPT ![w] = new] /\ born' = born \cup ({new} \ {Null})
          /\ wpc' = [wpc EXCEPT ![w] = "reserved"] /\ UNCHANGED <<epoch, ptr, wlock>>
    BY <1>10 DEF Publish, Clear, Reserve
  <2>2. (\E v \in Writers : wpc'[v] \in Closed) <=> \E v \in Writers : wpc[v] \in Closed
    BY <2>1 DEF Closed
  <2> QED BY <2>1, <2>2 DEF WriterInv, Locked, Expecting, Reserving, Private
<1>11. CASE Scan(w)
    BY <1>11 DEF Scan, wlocal, WriterInv
<1> QED BY <1>1, <1>2, <1>3, <1>4, <1>5, <1>6, <1>7, <1>8, <1>9, <1>10, <1>11
        DEF WriterStep, Write

\* What a retirement does to the entries.
LEMMA Appended ==
    ASSUME FifoInv, NEW x \in Objects \X Nat, queue' = Append(queue, x)
    PROVE  /\ queue' \in Seq(Objects \X Nat) /\ Len(queue') = Len(queue) + 1 /\ Len(queue) \in Nat
           /\ queue' # <<>> /\ queue'[Len(queue) + 1] = x
           /\ \A i \in 1 .. Len(queue) : queue'[i] = queue[i]
           /\ Head(queue') = IF queue = <<>> THEN x ELSE Head(queue)
<1>1. queue \in Seq(Objects \X Nat)
    BY DEF FifoInv
<1> QED BY SMTT(30), Z3T(30), <1>1

\* What a pop leaves of a sequence.
LEMMA TailFacts ==
    ASSUME NEW S, NEW q \in Seq(S), q # <<>>
    PROVE  /\ Tail(q) \in Seq(S) /\ Len(Tail(q)) = Len(q) - 1 /\ Len(q) >= 1
           /\ \A i \in 1 .. Len(Tail(q)) : i + 1 \in 1 .. Len(q) /\ Tail(q)[i] = q[i + 1]
    BY SMTT(30), Z3T(30)

-----------------------------------------------------------------------------
(* Where an object is.                                                      *)

\* An object born now is nowhere else.
LEMMA NewPlace ==
    ASSUME PlaceInv, WriterTypes, WriterInv, NEW w \in Writers, NEW new \in Unborn
    PROVE  /\ new # ptr /\ new # Null
           /\ \A i \in 1 .. Len(queue) : queue[i][1] # new
           /\ \A v \in Writers : wpc[v] \in Expecting => expect[v] # new
           /\ \A v \in Writers : wpc[v] \in Private => fresh[v] # new
    BY SMTT(30), Z3T(30), RcuAssumption DEF PlaceInv, WriterInv, Unborn

\* Every step keeps each object in one place.
LEMMA PlaceInvKept ==
    ASSUME PlaceInv, WriterTypes, WriterInv, FifoInv, GraceInv, [Next]_vars PROVE PlaceInv'
\* A step after which no writer owns what it did not own keeps every object in
\* one place.
<1>SamePlaces.
    ASSUME PlaceInv, UNCHANGED <<queue, ptr>>, born \subseteq born',
           \A v \in Writers :
              /\ wpc'[v] \in Unlinked => wpc[v] \in Unlinked /\ expect'[v] = expect[v]
              /\ wpc'[v] \in Expecting => wpc[v] \in Expecting /\ expect'[v] = expect[v]
              /\ wpc'[v] \in Private => wpc[v] \in Private /\ fresh'[v] = fresh[v]
    PROVE  PlaceInv'
    BY SMTT(30), Z3T(30), <1>SamePlaces DEF PlaceInv
\* A reservation puts its new object in one place, the writer's hands.
<1>ReservePlace.
    ASSUME PlaceInv, WriterTypes, WriterInv, NEW w \in Writers,
           NEW new \in Unborn \cup {Null}, Reserve(w, new)
    PROVE  PlaceInv'
  <2> USE <1>ReservePlace
  <2>1. /\ wpc[w] = "idle" /\ ptr # Null /\ expect' = [expect EXCEPT ![w] = ptr]
        /\ fresh' = [fresh EXCEPT ![w] = new] /\ born \subseteq born'
        /\ wpc' = [wpc EXCEPT ![w] = "reserved"] /\ UNCHANGED <<ptr, queue>>
      BY DEF Reserve, WGoto
  <2>2. /\ wpc[w] \notin Unlinked \cup Expecting \cup Private
        /\ "reserved" \notin Unlinked /\ "reserved" \in Expecting /\ "reserved" \in Private
      BY <2>1 DEF Unlinked, Expecting, Reserving, Private
  <2>3. /\ \A v \in Writers : v # w => /\ wpc'[v] = wpc[v] /\ expect'[v] = expect[v]
                                      /\ fresh'[v] = fresh[v]
        /\ wpc'[w] = "reserved" /\ expect'[w] = ptr /\ fresh'[w] = new
      BY <2>1 DEF WriterTypes
  <2>4. new # Null => /\ new # ptr /\ \A i \in 1 .. Len(queue) : queue[i][1] # new
                      /\ \A v \in Writers : wpc[v] \in Expecting => expect[v] # new
                      /\ \A v \in Writers : wpc[v] \in Private => fresh[v] # new
      BY NewPlace
  <2>5. \A v \in Writers : wpc[v] \in Private /\ fresh[v] # Null => fresh[v] # ptr
      BY DEF PlaceInv
  <2>6. ASSUME NEW u \in Writers, wpc'[u] \in Private, fresh'[u] # Null
        PROVE  /\ fresh'[u] # ptr
               /\ \A i \in 1 .. Len(queue) : queue[i][1] # fresh'[u]
               /\ \A v \in Writers : wpc'[v] \in Expecting => expect'[v] # fresh'[u]
               /\ \A v \in Writers : wpc'[v] \in Private /\ fresh'[v] = fresh'[u] => v = u
    <3>1. CASE u = w
      BY <2>2, <2>3, <2>4, <2>6, <3>1
    <3>2. CASE u # w
      <4>1. wpc[u] \in Private /\ fresh[u] # Null /\ fresh'[u] = fresh[u]
          BY <2>3, <2>6, <3>2
      <4>2. /\ fresh[u] # ptr /\ \A i \in 1 .. Len(queue) : queue[i][1] # fresh[u]
            /\ \A v \in Writers : wpc[v] \in Expecting => expect[v] # fresh[u]
            /\ \A v \in Writers : wpc[v] \in Private /\ fresh[v] = fresh[u] => v = u
          BY <4>1 DEF PlaceInv
      <4>3. fresh[u] # new
          BY <2>4, <4>1
      <4> QED BY <2>3, <4>1, <4>2, <4>3
    <3> QED BY <3>1, <3>2
  <2>7. ASSUME NEW u \in Writers, wpc'[u] \in Unlinked
        PROVE  expect'[u] # ptr /\ \A i \in 1 .. Len(queue) : queue[i][1] # expect'[u]
      BY SMTT(30), Z3T(30), <2>2, <2>3, <2>7 DEF PlaceInv
  <2> QED BY <2>1, <2>6, <2>7 DEF PlaceInv
\* publish_if_empty's object is private until it is stored.
<1>FillPlace.
    ASSUME PlaceInv, WriterTypes, WriterInv, NEW w \in Writers, NEW new \in Unborn, Fill(w, new)
    PROVE  PlaceInv'
  <2> USE <1>FillPlace
  <2>1. /\ wpc[w] = "idle" /\ fresh' = [fresh EXCEPT ![w] = new] /\ born \subseteq born'
        /\ wpc' = [wpc EXCEPT ![w] = "store"] /\ UNCHANGED <<ptr, queue, expect>>
      BY DEF Fill, WGoto, fifo
  <2>2. /\ wpc[w] \notin Unlinked \cup Expecting \cup Private
        /\ "store" \notin Unlinked /\ "store" \notin Expecting /\ "store" \in Private
      BY <2>1 DEF Unlinked, Expecting, Reserving, Private
  <2>3. /\ \A v \in Writers : v # w => wpc'[v] = wpc[v] /\ fresh'[v] = fresh[v]
        /\ wpc'[w] = "store" /\ fresh'[w] = new
      BY <2>1 DEF WriterTypes
  <2>4. /\ new # ptr /\ new # Null /\ \A i \in 1 .. Len(queue) : queue[i][1] # new
        /\ \A v \in Writers : wpc[v] \in Expecting => expect[v] # new
        /\ \A v \in Writers : wpc[v] \in Private => fresh[v] # new
      BY NewPlace
  <2>5. ASSUME NEW u \in Writers, wpc'[u] \in Private, fresh'[u] # Null
        PROVE  /\ fresh'[u] # ptr
               /\ \A i \in 1 .. Len(queue) : queue[i][1] # fresh'[u]
               /\ \A v \in Writers : wpc'[v] \in Expecting => expect[v] # fresh'[u]
               /\ \A v \in Writers : wpc'[v] \in Private /\ fresh'[v] = fresh'[u] => v = u
    <3>1. CASE u = w
      BY <2>2, <2>3, <2>4, <2>5, <3>1
    <3>2. CASE u # w
      <4>1. wpc[u] \in Private /\ fresh[u] # Null /\ fresh'[u] = fresh[u]
          BY <2>3, <2>5, <3>2
      <4>2. /\ fresh[u] # ptr /\ \A i \in 1 .. Len(queue) : queue[i][1] # fresh[u]
            /\ \A v \in Writers : wpc[v] \in Expecting => expect[v] # fresh[u]
            /\ \A v \in Writers : wpc[v] \in Private /\ fresh[v] = fresh[u] => v = u
          BY <4>1 DEF PlaceInv
      <4>3. fresh[u] # new
          BY <2>4, <4>1
      <4> QED BY <2>2, <2>3, <4>1, <4>2, <4>3
    <3> QED BY <3>1, <3>2
  <2>6. \A u \in Writers : wpc'[u] \in Unlinked => wpc[u] \in Unlinked
      BY <2>2, <2>3
  <2> QED BY <2>1, <2>5, <2>6 DEF PlaceInv
\* The swap publishes a private object and unlinks the published one.
<1>SwapPlace.
    ASSUME PlaceInv, WriterTypes, WriterInv, NEW w \in Writers, Swap(w) \/ FillStore(w)
    PROVE  PlaceInv'
  <2> USE <1>SwapPlace
  <2>1. /\ wpc[w] \in {"swap", "store"} /\ UNCHANGED <<queue, expect, fresh, born>> /\ ptr' = fresh[w]
        /\ wpc' = [wpc EXCEPT ![w] = IF wpc[w] = "swap" THEN "open" ELSE "filled"]
      BY DEF Swap, FillStore, WGoto, fifo
  <2>2. /\ wpc[w] \in Private /\ wpc'[w] \notin Private /\ wpc[w] \in Locked
        /\ wpc'[w] \in Unlinked => wpc[w] = "swap"
        /\ wpc'[w] \in Expecting => wpc[w] \in Expecting
      BY <2>1 DEF WriterTypes, Private, Locked, Unlinked, Expecting, Reserving
  <2>3. \A v \in Writers : v # w => wpc[v] \notin Locked /\ wpc'[v] = wpc[v]
      BY <2>1, <2>2, AloneInside DEF WriterTypes
  <2>4. \A v \in Writers : v # w => wpc'[v] \notin Unlinked
      BY <2>3 DEF Unlinked, Locked
  <2>5. wpc[w] = "swap" => /\ expect[w] = ptr /\ expect[w] # Null /\ wpc[w] \in Expecting
                           /\ \A i \in 1 .. Len(queue) : queue[i][1] # expect[w]
    <3>1. wpc[w] = "swap" => wpc[w] \in Expecting
      BY DEF Expecting, Reserving
    <3>2. wpc[w] = "swap" => expect[w] = ptr /\ expect[w] \in born
      BY <3>1 DEF WriterInv
    <3>3. born \subseteq Objects /\ \A i \in 1 .. Len(queue) : queue[i][1] # ptr
      BY DEF WriterTypes, PlaceInv
    <3> QED BY <3>1, <3>2, <3>3, RcuAssumption
  <2>6. fresh[w] # Null => /\ fresh[w] # ptr /\ \A i \in 1 .. Len(queue) : queue[i][1] # fresh[w]
                           /\ \A v \in Writers : wpc[v] \in Expecting => expect[v] # fresh[w]
                           /\ \A v \in Writers : wpc[v] \in Private /\ fresh[v] = fresh[w] => v = w
      BY <2>2 DEF PlaceInv
  <2>7. \A i \in 1 .. Len(queue) : queue[i][1] \in born /\ queue[i][1] # ptr'
      BY <2>1, <2>6, RcuAssumption DEF PlaceInv, WriterTypes
  <2>8. ASSUME NEW u \in Writers, wpc'[u] \in Unlinked
        PROVE  expect[u] # ptr' /\ \A i \in 1 .. Len(queue) : queue[i][1] # expect[u]
      BY <2>1, <2>2, <2>4, <2>5, <2>6, <2>8
  <2>9. ASSUME NEW u \in Writers, wpc'[u] \in Private, fresh[u] # Null
        PROVE  /\ fresh[u] # ptr'
               /\ \A i \in 1 .. Len(queue) : queue[i][1] # fresh[u]
               /\ \A v \in Writers : wpc'[v] \in Expecting => expect[v] # fresh[u]
               /\ \A v \in Writers : wpc'[v] \in Private /\ fresh[v] = fresh[u] => v = u
      BY <2>1, <2>2, <2>3, <2>6, <2>9 DEF PlaceInv
  <2> QED BY <2>1, <2>7, <2>8, <2>9 DEF PlaceInv
\* An unlinked object is retired.
<1>CommitPlace.
    ASSUME PlaceInv, WriterTypes, WriterInv, FifoInv, NEW w \in Writers, Commit(w)
    PROVE  PlaceInv'
  <2> USE <1>CommitPlace
  <2>1. /\ wpc[w] = "commit" /\ wpc' = [wpc EXCEPT ![w] = "arm"]
        /\ queue' = Append(queue, <<expect[w], epoch>>) /\ UNCHANGED <<ptr, expect, fresh, born>>
      BY DEF Commit, WGoto
  <2>2. expect[w] \in born /\ expect[w] \in Objects /\ epoch \in Nat /\ queue \in Seq(Objects \X Nat)
      BY <2>1 DEF WriterInv, WriterTypes, FifoInv, Expecting, Reserving
  <2> DEFINE x == <<expect[w], epoch>>
  <2>3. x \in Objects \X Nat /\ x[1] = expect[w]
      BY <2>2
  <2> HIDE DEF x
  <2>4. /\ Len(queue') = Len(queue) + 1 /\ Len(queue) \in Nat
        /\ queue'[Len(queue) + 1] = x /\ \A i \in 1 .. Len(queue) : queue'[i] = queue[i]
    <3>1. queue' = Append(queue, x)
      BY <2>1 DEF x
    <3> QED BY <2>3, <3>1, Appended
  <2>5. \A i \in 1 .. Len(queue') : i \in 1 .. Len(queue) \/ i = Len(queue) + 1
      BY SMTT(30), Z3T(30), <2>4
  <2>6. \A v \in Writers : v # w => wpc[v] \notin Locked /\ wpc'[v] = wpc[v]
      BY <2>1, AloneInside DEF WriterTypes, Locked
  <2>7. /\ wpc[w] \in Unlinked /\ wpc[w] \in Expecting
        /\ wpc'[w] \notin Unlinked /\ wpc'[w] \notin Private
      BY <2>1 DEF WriterTypes, Unlinked, Expecting, Reserving, Private
  <2>8. \A v \in Writers : wpc'[v] \notin Unlinked
      BY <2>6, <2>7 DEF Unlinked, Locked
  <2>9. expect[w] # ptr /\ \A i \in 1 .. Len(queue) : queue[i][1] # expect[w]
      BY <2>7 DEF PlaceInv
  <2>10. \A i \in 1 .. Len(queue') : queue'[i][1] \in born /\ queue'[i][1] # ptr
      BY <2>2, <2>3, <2>4, <2>5, <2>9 DEF PlaceInv
  <2>11. ASSUME NEW i \in 1 .. Len(queue'), NEW j \in 1 .. Len(queue'), queue'[i][1] = queue'[j][1]
         PROVE  i = j
    <3>1. CASE i \in 1 .. Len(queue) /\ j \in 1 .. Len(queue)
      BY <2>4, <2>11, <3>1 DEF PlaceInv
    <3>2. CASE i = Len(queue) + 1 \/ j = Len(queue) + 1
      BY <2>3, <2>4, <2>5, <2>9, <2>11, <3>2
    <3> QED BY <2>5, <3>1, <3>2
  <2>12. ASSUME NEW u \in Writers, wpc'[u] \in Private, fresh[u] # Null
         PROVE  /\ fresh[u] # ptr
                /\ \A i \in 1 .. Len(queue') : queue'[i][1] # fresh[u]
                /\ \A v \in Writers : wpc'[v] \in Expecting => expect[v] # fresh[u]
                /\ \A v \in Writers : wpc'[v] \in Private /\ fresh[v] = fresh[u] => v = u
    <3>1. u # w /\ wpc[u] \in Private
      BY <2>6, <2>7, <2>12
    <3>2. /\ fresh[u] # ptr /\ \A i \in 1 .. Len(queue) : queue[i][1] # fresh[u]
          /\ \A v \in Writers : wpc[v] \in Expecting => expect[v] # fresh[u]
          /\ \A v \in Writers : wpc[v] \in Private /\ fresh[v] = fresh[u] => v = u
      BY <2>12, <3>1 DEF PlaceInv
    <3> QED BY <2>3, <2>4, <2>5, <2>6, <2>7, <3>2
  <2> QED BY <2>1, <2>8, <2>10, <2>11, <2>12 DEF PlaceInv
<1>s. ASSUME UNCHANGED <<queue, ptr, born, wpc, expect, fresh>> PROVE PlaceInv'
    BY <1>s DEF PlaceInv
<1>1. ASSUME NEW w \in Writers, WriterStep(w) PROVE PlaceInv'
  <2>a. ASSUME NEW l, wpc' = [wpc EXCEPT ![w] = l], UNCHANGED <<queue, ptr, born>>,
               l \in Unlinked => wpc[w] \in Unlinked, l \in Expecting => wpc[w] \in Expecting,
               l \in Private => wpc[w] \in Private,
               UNCHANGED <<expect, fresh>> \/
               /\ l \notin Unlinked \cup Expecting \cup Private
               /\ \A v \in Writers : v # w => expect'[v] = expect[v] /\ fresh'[v] = fresh[v]
        PROVE  PlaceInv'
    BY <2>a, <1>SamePlaces DEF WriterTypes
  <2> USE DEF WGoto, Unlinked, Expecting, Reserving, Private
  <2>1. CASE Begin(w)
    <3>1. wpc[w] = "reserved" /\ UNCHANGED <<queue, ptr, born, expect, fresh>>
        BY <2>1 DEF Begin, fifo
    <3>2. \E l \in {"swap", "cancel"} : wpc' = [wpc EXCEPT ![w] = l]
        BY <2>1 DEF Begin
    <3> QED BY <2>a, <3>1, <3>2
  <2>2. CASE Cancel(w)
    <3>1. wpc' = [wpc EXCEPT ![w] = "idle"] /\ UNCHANGED <<queue, ptr, born>>
        BY <2>2 DEF Cancel
    <3>2. \A v \in Writers : v # w => expect'[v] = expect[v] /\ fresh'[v] = fresh[v]
        BY <2>2 DEF Cancel, WriterTypes
    <3> QED BY <2>a, <3>1, <3>2
  <2>3. CASE Swap(w) \/ FillStore(w)
    BY <2>3, <1>SwapPlace
  <2>4. CASE Open(w)
    BY <2>4, <2>a DEF Open, fifo
  <2>5. CASE Commit(w)
    BY <2>5, <1>CommitPlace
  <2>6. CASE Arm(w) \/ Armed(w)
    <3>1. UNCHANGED <<queue, ptr, born>>
        BY <2>6 DEF Arm, Armed, fifo
    <3>2. \A v \in Writers : v # w => expect'[v] = expect[v] /\ fresh'[v] = fresh[v]
        BY <2>6 DEF Arm, Armed, WriterTypes
    <3>3. \E l \in {"idle", "grace"} : wpc' = [wpc EXCEPT ![w] = l]
        BY <2>6 DEF Arm, Armed
    <3> QED BY <2>a, <3>1, <3>2, <3>3
  <2>7. CASE FillOpen(w)
    <3>1. wpc' = [wpc EXCEPT ![w] = "idle"] /\ UNCHANGED <<queue, ptr, born>>
        BY <2>7 DEF FillOpen, fifo
    <3>2. \A v \in Writers : v # w => expect'[v] = expect[v] /\ fresh'[v] = fresh[v]
        BY <2>7 DEF FillOpen, WriterTypes
    <3> QED BY <2>a, <3>1, <3>2
  <2>8. CASE \E new \in Unborn : Fill(w, new)
    BY <2>8, <1>FillPlace
  <2>9. CASE Publish(w) \/ Clear(w)
    BY <2>9, <1>ReservePlace DEF Publish, Clear
  <2>10. CASE Scan(w)
    BY <1>s, <2>10 DEF Scan, fifo, wlocal
  <2> QED BY <1>1, <2>1, <2>2, <2>3, <2>4, <2>5, <2>6, <2>7, <2>8, <2>9, <2>10
          DEF WriterStep, Write
<1>2. ASSUME NEW r \in Readers, ReaderStep(r) PROVE PlaceInv'
    BY <1>2, <1>s, ReaderFrame
<1>3. CASE Reclaim
  <2>0. UNCHANGED <<ptr, born, wpc, expect, fresh>>
    BY <1>3, DrainFrame
  <2>1. CASE UNCHANGED queue
    BY <1>s, <2>0, <2>1
  <2>2. CASE queue' = Tail(queue) /\ queue # <<>>
    <3>1. queue \in Seq(Objects \X Nat)
        BY DEF FifoInv
    <3>2. /\ Len(queue') = Len(queue) - 1 /\ Len(queue) >= 1
          /\ \A i \in 1 .. Len(queue') : i + 1 \in 1 .. Len(queue) /\ queue'[i] = queue[i + 1]
        BY <2>2, <3>1, TailFacts
    <3>3. ASSUME NEW i \in 1 .. Len(queue'), NEW j \in 1 .. Len(queue'), queue'[i][1] = queue'[j][1]
          PROVE  i = j
      <4>1. \A k, m \in 1 .. Len(queue) : queue[k][1] = queue[m][1] => k = m
        BY DEF PlaceInv
      <4>2. i + 1 = j + 1
        BY SMTT(30), Z3T(30), <3>2, <3>3, <4>1
      <4> QED BY SMTT(30), Z3T(30), <4>2
    <3>4. \A i \in 1 .. Len(queue') : queue'[i][1] \in born /\ queue'[i][1] # ptr
      <4>1. \A k \in 1 .. Len(queue) : queue[k][1] \in born /\ queue[k][1] # ptr
        BY DEF PlaceInv
      <4> QED BY <3>2, <4>1
    <3>5. \A o : (\A i \in 1 .. Len(queue) : queue[i][1] # o)
                  => \A i \in 1 .. Len(queue') : queue'[i][1] # o
        BY <3>2
    <3> QED BY <2>0, <3>3, <3>4, <3>5 DEF PlaceInv
  <2>3. UNCHANGED queue \/ (queue' = Tail(queue) /\ queue # <<>>)
    BY <1>3
       DEF Reclaim, Drain, DrainFront, DrainPop, DrainFinal, DrainBlocked, DrainRearm,
           DrainRecheck, Scan, fifo, GraceInv
  <2> QED BY <2>1, <2>2, <2>3
<1>4. CASE (\E c \in Cpus : CpuStep(c)) \/ UNCHANGED vars
    BY <1>4, <1>s, CpuFrame DEF vars, fifo, wlocal
<1> QED BY <1>1, <1>2, <1>3, <1>4, Steps

-----------------------------------------------------------------------------
(* What a reader is about to clone.                                         *)

\* A reader reaches the clone or the end of is_empty only by reading the slot.
LEMMA ReaderHolds ==
    ASSUME ReaderTypes, WriterTypes, NEW r \in Readers, ReaderStep(r),
           rpc'[r] \in {"clone", "after"}
    PROVE  \/ held'[r] = ptr /\ (rpc'[r] = "clone" => ptr \in Objects)
           \/ rpc'[r] = rpc[r] /\ held'[r] = held[r] /\ seen'[r] = seen[r]
<1> USE DEF ReaderTypes, RGoto, At
<1>1. CASE Load(r) \/ IsEmpty(r) \/ EmptyBefore(r) \/ EmptyAfter(r)
    BY <1>1 DEF Load, IsEmpty, EmptyBefore, EmptyAfter
<1>2. CASE EmptyPeek(r)
    BY <1>2 DEF EmptyPeek
<1>3. CASE Admit(r) \/ LoadEpoch(r) \/ StoreMarker(r) \/ Verify(r)
    BY <1>3 DEF Admit, LoadEpoch, StoreMarker, Verify
<1>4. CASE LoadPointer(r)
    BY <1>4 DEF LoadPointer, WriterTypes
<1>5. CASE Undo(r) \/ Unadmit(r) \/ Clone(r) \/ Exit(r)
    BY <1>5 DEF Undo, Unadmit, Clone, Exit
<1>6. CASE Depart(r) \/ Note(r) \/ NoteGrace(r)
    BY <1>6 DEF Depart, Note, NoteGrace, Finished
<1>7. CASE Scan(r)
    BY <1>7 DEF Scan, rlocal
<1> QED BY <1>1, <1>2, <1>3, <1>4, <1>5, <1>6, <1>7 DEF ReaderStep, Read

\* Only a writer inside an odd epoch changes the slot; it leaves the old object
\* to the readers of earlier epochs, and so does the retirement.
LEMMA WriterSlot ==
    ASSUME WriterTypes, WriterInv, FifoInv, NEW w \in Writers, WriterStep(w)
    PROVE  \/ /\ UNCHANGED <<ptr, queue>>
              /\ \A v \in Writers : wpc[v] \in Unlinked =>
                                     wpc'[v] \in Unlinked /\ expect'[v] = expect[v]
           \/ Swap(w) \/ FillStore(w) \/ Commit(w)
<1> USE DEF WriterTypes, WGoto, Unlinked
<1>1. CASE Begin(w)
    BY <1>1 DEF Begin, fifo
<1>2. CASE Cancel(w)
    BY <1>2 DEF Cancel
<1>3. CASE Open(w)
    BY <1>3 DEF Open, fifo
<1>4. CASE Arm(w)
    BY <1>4 DEF Arm, fifo
<1>5. CASE Armed(w)
    BY <1>5 DEF Armed, fifo
<1>6. CASE FillOpen(w)
    BY <1>6 DEF FillOpen, fifo
<1>7. CASE \E new \in Unborn : Fill(w, new)
    BY <1>7 DEF Fill, fifo
<1>8. CASE Publish(w) \/ Clear(w)
    BY <1>8 DEF Publish, Clear, Reserve
<1>9. CASE Scan(w)
    BY <1>9 DEF Scan, fifo, wlocal
<1> QED BY <1>1, <1>2, <1>3, <1>4, <1>5, <1>6, <1>7, <1>8, <1>9
           DEF WriterStep, Write

\* Every step keeps what a reader is about to clone published, unlinked or
\* retired after the reader's epoch.
LEMMA HeldInvKept ==
    ASSUME ReaderTypes, ReaderInv, WriterTypes, WriterInv, FifoInv, ScanInv, GraceInv, HeldInv,
           [Next]_vars
    PROVE  HeldInv'
\* A reader's step: what it loads is published now.
<1>HeldByReader.
    ASSUME ReaderTypes, WriterTypes, HeldInv, NEW r \in Readers, ReaderStep(r)
    PROVE  HeldInv'
  <2> USE <1>HeldByReader
  <2>1. Local(r) /\ UNCHANGED <<ptr, epoch, queue, wpc, expect>>
      BY ReaderLocal, ReaderFrame
  <2>2. ASSUME NEW s \in Readers, rpc'[s] = rpc[s], held'[s] = held[s], seen'[s] = seen[s]
        PROVE  /\ rpc'[s] = "clone" => held'[s] \in Objects /\ Safe(s)'
               /\ rpc'[s] = "after" /\ seen'[s] = epoch' => held'[s] = ptr'
      BY SMTT(30), Z3T(30), <2>1, <2>2 DEF HeldInv, Safe
  <2>3. /\ rpc'[r] = "clone" => held'[r] \in Objects /\ Safe(r)'
        /\ rpc'[r] = "after" /\ seen'[r] = epoch' => held'[r] = ptr'
      BY <2>1, <2>2, ReaderHolds DEF Safe
  <2>4. \A s \in Readers : s # r => rpc'[s] = rpc[s] /\ held'[s] = held[s] /\ seen'[s] = seen[s]
      BY <2>1 DEF Local
  <2> QED BY <2>2, <2>3, <2>4 DEF HeldInv
\* A writer's step: what it unlinks or retires was loaded in an earlier epoch.
<1>HeldByWriter.
    ASSUME ReaderTypes, ReaderInv, WriterTypes, WriterInv, FifoInv, HeldInv,
           [Next]_vars, NEW w \in Writers, WriterStep(w)
    PROVE  HeldInv'
  <2> USE <1>HeldByWriter
  <2>0. epoch \in Nat /\ (epoch' = epoch \/ epoch' = epoch + 1) /\ UNCHANGED <<rpc, held, seen>>
      BY EpochGrows, WriterFrame DEF WriterTypes
  <2>1. ASSUME NEW r \in Readers, rpc[r] \in {"clone", "after"}
        PROVE  seen[r] \in Nat /\ seen[r] % 2 = 0 /\ seen[r] <= epoch
      BY <2>1 DEF ReaderInv, DateInv, Dated, Marked
  <2>2. CASE /\ UNCHANGED <<ptr, queue>>
             /\ \A v \in Writers : wpc[v] \in Unlinked => wpc'[v] \in Unlinked /\ expect'[v] = expect[v]
    <3>1. ASSUME NEW r \in Readers, rpc[r] = "clone" PROVE Safe(r)'
      <4>1. seen[r] \in Nat /\ Safe(r)
          BY <2>1, <3>1 DEF HeldInv
      <4>2. seen[r] < epoch => seen[r] < epoch'
          BY SMTT(30), Z3T(30), <2>0, <4>1
      <4>3. CASE held[r] = ptr
          BY <2>0, <2>2, <4>3 DEF Safe
      <4>4. CASE \E v \in Writers : wpc[v] \in Unlinked /\ expect[v] = held[r] /\ seen[r] < epoch
          BY <2>0, <2>2, <4>2, <4>4 DEF Safe
      <4>5. CASE \E i \in 1 .. Len(queue) : queue[i][1] = held[r] /\ seen[r] < queue[i][2]
          BY <2>0, <2>2, <4>5 DEF Safe
      <4> QED BY <4>1, <4>3, <4>4, <4>5 DEF Safe
    <3>2. ASSUME NEW r \in Readers, rpc[r] = "after", seen[r] = epoch' PROVE held[r] = ptr
      <4>1. seen[r] \in Nat /\ seen[r] <= epoch
          BY <2>1, <3>2
      <4>2. epoch' = epoch
          BY SMTT(30), Z3T(30), <2>0, <3>2, <4>1
      <4> QED BY <3>2, <4>2 DEF HeldInv
    <3> QED BY <2>0, <2>2, <3>1, <3>2 DEF HeldInv
  <2>3. CASE Swap(w) \/ FillStore(w)
    <3>1. /\ wpc[w] \in {"swap", "store"} /\ UNCHANGED <<queue, epoch, expect>>
          /\ wpc' = [wpc EXCEPT ![w] = IF wpc[w] = "swap" THEN "open" ELSE "filled"]
      BY <2>3 DEF Swap, FillStore, WGoto, fifo
    <3>2. epoch % 2 = 1
      BY <3>1 DEF WriterInv, Closed
    <3>3. ASSUME NEW r \in Readers, rpc[r] \in {"clone", "after"} PROVE seen[r] < epoch
      BY SMTT(30), Z3T(30), <2>0, <2>1, <3>2, <3>3
    <3>4. \A v \in Writers : v # w => wpc[v] \notin Unlinked
      <4>1. \A v \in Writers : v # w => wpc[v] \notin Locked
          BY <3>1, AloneInside DEF Locked
      <4> QED BY <4>1 DEF Locked, Unlinked
    <3>5. wpc[w] \notin Unlinked
      BY <3>1 DEF Unlinked
    <3>6. ASSUME NEW r \in Readers, rpc[r] = "clone" PROVE Safe(r)'
      <4>1. held[r] \in Objects /\ Safe(r)
          BY <3>6 DEF HeldInv
      <4>2. CASE held[r] = ptr
        <5>1. wpc[w] = "swap" /\ expect[w] = ptr
          BY <3>1, <4>1, <4>2, RcuAssumption DEF WriterInv
        <5>2. wpc'[w] \in Unlinked
          BY <3>1, <5>1 DEF WriterTypes, Unlinked
        <5>3. seen[r] < epoch
          BY <3>3, <3>6
        <5> QED BY <2>0, <3>1, <4>2, <5>1, <5>2, <5>3 DEF Safe
      <4>3. CASE \E i \in 1 .. Len(queue) : queue[i][1] = held[r] /\ seen[r] < queue[i][2]
          BY <2>0, <3>1, <4>3 DEF Safe
      <4> QED BY <3>4, <3>5, <4>1, <4>2, <4>3 DEF Safe
    <3>7. ASSUME NEW r \in Readers, rpc[r] = "after" PROVE seen[r] # epoch
      BY SMTT(30), Z3T(30), <2>0, <2>1, <3>3, <3>7
    <3> QED BY <2>0, <3>1, <3>6, <3>7 DEF HeldInv
  <2>4. CASE Commit(w)
    <3>1. /\ wpc[w] = "commit" /\ UNCHANGED <<ptr, epoch, expect>>
          /\ queue' = Append(queue, <<expect[w], epoch>>)
      BY <2>4 DEF Commit
    <3>2. expect[w] \in Objects /\ queue \in Seq(Objects \X Nat)
      BY <3>1 DEF WriterInv, WriterTypes, FifoInv, Expecting, Reserving
    <3> DEFINE x == <<expect[w], epoch>>
    <3>3. x \in Objects \X Nat /\ x[1] = expect[w] /\ x[2] = epoch
      BY <2>0, <3>2
    <3> HIDE DEF x
    <3>4. /\ Len(queue') = Len(queue) + 1 /\ Len(queue) \in Nat
          /\ queue'[Len(queue) + 1] = x /\ \A i \in 1 .. Len(queue) : queue'[i] = queue[i]
      <4>1. queue' = Append(queue, x)
          BY <3>1 DEF x
      <4> QED BY <3>3, <4>1, Appended
    <3>5. \A v \in Writers : wpc[v] \in Unlinked => v = w
      <4>1. \A v \in Writers : v # w => wpc[v] \notin Locked
          BY <3>1, AloneInside DEF Locked
      <4> QED BY <4>1 DEF Locked, Unlinked
    <3>6. ASSUME NEW r \in Readers, rpc[r] = "clone" PROVE Safe(r)'
      <4>1. Safe(r)
          BY <3>6 DEF HeldInv
      <4>2. CASE held[r] = ptr
          BY <2>0, <3>1, <4>2 DEF Safe
      <4>3. CASE \E v \in Writers : wpc[v] \in Unlinked /\ expect[v] = held[r] /\ seen[r] < epoch
        <5>1. expect[w] = held[r] /\ seen[r] < epoch
          BY <3>5, <4>3
        <5>2. Len(queue) + 1 \in 1 .. Len(queue') /\ queue'[Len(queue) + 1] = x
          BY SMTT(30), Z3T(30), <3>4
        <5> QED BY <2>0, <3>3, <5>1, <5>2 DEF Safe
      <4>4. CASE \E i \in 1 .. Len(queue) : queue[i][1] = held[r] /\ seen[r] < queue[i][2]
        <5>1. PICK i \in 1 .. Len(queue) : queue[i][1] = held[r] /\ seen[r] < queue[i][2]
          BY <4>4
        <5>2. i \in 1 .. Len(queue') /\ queue'[i] = queue[i]
          BY SMTT(30), Z3T(30), <3>4
        <5> QED BY <2>0, <5>1, <5>2 DEF Safe
      <4> QED BY <4>1, <4>2, <4>3, <4>4 DEF Safe
    <3> QED BY <2>0, <3>1, <3>6 DEF HeldInv
  <2> QED BY <2>2, <2>3, <2>4, WriterSlot
\* The drainer pops an entry only when no reader is about to clone its object.
<1>HeldByDrainer.
    ASSUME ReaderTypes, FifoInv, ScanInv, GraceInv, HeldInv, Reclaim
    PROVE  HeldInv'
  <2> USE <1>HeldByDrainer
  <2>0. UNCHANGED <<rpc, held, seen, ptr, epoch, wpc, expect>>
      BY DrainFrame
  <2>1. CASE UNCHANGED queue
      BY <2>0, <2>1 DEF HeldInv, Safe
  <2>2. CASE DrainPop /\ ~UNCHANGED queue
    <3>1. dpc = "grace" /\ verdict[Drainer] = "yes" /\ queue' = Tail(queue) /\ queue # <<>>
      BY <2>2, Contexts DEF DrainPop, GraceInv, ScanInv
    <3>2. left[Drainer] = {}
      BY <3>1, Contexts DEF ScanInv
    <3>3. /\ Len(queue') = Len(queue) - 1 /\ Len(queue) \in Nat /\ Head(queue) = queue[1]
          /\ \A i \in 1 .. Len(queue') : queue'[i] = queue[i + 1]
      BY SMTT(30), Z3T(30), <3>1, TailFacts, FrontNat DEF FifoInv
    <3>4. ASSUME NEW r \in Readers, rpc[r] = "clone" PROVE Safe(r)'
      <4>1. held[r] # queue[1][1]
          BY <3>1, <3>2, <3>3, <3>4 DEF GraceInv
      <4>2. Safe(r)
          BY <3>4 DEF HeldInv
      <4>3. CASE held[r] = ptr \/ \E v \in Writers : /\ wpc[v] \in Unlinked /\ expect[v] = held[r]
                                                    /\ seen[r] < epoch
          BY <2>0, <4>3 DEF Safe
      <4>4. CASE \E i \in 1 .. Len(queue) : queue[i][1] = held[r] /\ seen[r] < queue[i][2]
        <5>1. PICK i \in 1 .. Len(queue) : queue[i][1] = held[r] /\ seen[r] < queue[i][2]
          BY <4>4
        <5>2. i # 1
          BY <4>1, <5>1
        <5>3. i - 1 \in 1 .. Len(queue') /\ queue'[i - 1] = queue[i]
          BY SMTT(30), Z3T(30), <3>3, <5>2
        <5> QED BY <2>0, <5>1, <5>3 DEF Safe
      <4> QED BY <4>2, <4>3, <4>4 DEF Safe
    <3> QED BY <2>0, <3>4 DEF HeldInv
  <2>3. UNCHANGED queue \/ DrainPop
      BY
         DEF Reclaim, Drain, DrainFront, DrainFinal, DrainBlocked, DrainRearm,
             DrainRecheck,
             Scan, fifo
  <2> QED BY <2>1, <2>2, <2>3
<1>1. CASE (\E c \in Cpus : CpuStep(c)) \/ UNCHANGED vars
  <2>1. UNCHANGED <<rpc, held, seen, ptr, epoch, queue, wpc, expect>>
    BY <1>1, CpuFrame DEF vars, rlocal, fifo, wlocal
  <2> QED BY <2>1 DEF HeldInv, Safe
<1> QED BY <1>1, Steps, <1>HeldByReader, <1>HeldByWriter, <1>HeldByDrainer

-----------------------------------------------------------------------------
(* The drainer's scan.                                                      *)

\* Every step keeps what the drainer's scan of the front has established.
LEMMA GraceInvKept ==
    ASSUME ReaderTypes, ReaderInv, WriterTypes, WriterInv, FifoInv, ScanInv, PlaceInv, HeldInv,
           GraceInv, [Next]_vars
    PROVE  GraceInv'
\* While a reader is about to clone, its CPU's marker is its epoch plus one.
<1>CloneMarked.
    ASSUME ReaderTypes, ReaderInv, NEW r \in Readers, rpc[r] = "clone"
    PROVE  marker[r[1]] = seen[r] + 1 /\ seen[r] \in Nat
  <2> USE <1>CloneMarked
  <2>1. r[1] \in Cpus /\ (r = Task(r[1]) \/ (r = Irq(r[1]) /\ r[1] \in Interrupts))
      BY ReaderShape
  <2>2. CpuInv(r[1]) /\ seen[r] \in Nat /\ marker[r[1]] \in Int
      BY <2>1 DEF ReaderInv, DateInv, Dated, Marked, ReaderTypes
  <2>3. CASE r = Task(r[1])
      BY <2>2, <2>3 DEF CpuInv, TaskInv, Admitted, Marked
  <2>4. CASE r = Irq(r[1]) /\ r[1] \in Interrupts
    <3>1. IrqInv(r[1]) /\ seen[r] \in Nat /\ marker[r[1]] \in Int
      BY <2>2, <2>4 DEF CpuInv
    <3>2. CASE nested[r]
      BY SMTT(30), Z3T(30), <2>4, <3>1, <3>2 DEF IrqInv
    <3>3. CASE ~nested[r]
      BY <2>4, <3>1, <3>3 DEF IrqInv, Admitted, Marked
    <3> QED BY <3>2, <3>3
  <2> QED BY <2>1, <2>3, <2>4
\* A CPU that passes for the front's epoch has no reader that could still clone
\* the front's object.
<1>PassedCpu.
    ASSUME ReaderTypes, ReaderInv, FifoInv, PlaceInv, HeldInv, queue # <<>>,
           NEW c \in Cpus, marker[c] = 0 \/ marker[c] > Head(queue)[2],
           NEW r \in Readers, r[1] = c, rpc[r] = "clone", held[r] = Head(queue)[1]
    PROVE  FALSE
  <2> USE <1>PassedCpu
  <2>1. /\ Len(queue) > 0 /\ Head(queue) = queue[1] /\ queue \in Seq(Objects \X Nat)
        /\ queue[1] \in Objects \X Nat
      BY FrontNat DEF FifoInv
  <2>2. 1 \in 1 .. Len(queue)
      BY SMTT(30), Z3T(30), <2>1
  <2>3. held[r] # ptr
      BY <2>1, <2>2 DEF PlaceInv
  <2>4. \A v \in Writers : wpc[v] \in Unlinked => expect[v] # held[r]
      BY <2>1, <2>2 DEF PlaceInv
  <2>5. Safe(r)
      BY DEF HeldInv
  <2>6. PICK i \in 1 .. Len(queue) : queue[i][1] = held[r] /\ seen[r] < queue[i][2]
      BY <2>3, <2>4, <2>5 DEF Safe
  <2>7. i = 1
      BY <2>1, <2>2, <2>6 DEF PlaceInv
  <2>8. marker[c] = seen[r] + 1 /\ seen[r] \in Nat
      BY <1>CloneMarked
  <2>9. queue[1][2] \in Nat
      BY <2>1
  <2> QED BY SMTT(30), Z3T(30), <2>1, <2>6, <2>7, <2>8, <2>9
\* The drainer's scan passes a CPU only when no reader there holds the front.
<1>GraceByDrainer.
    ASSUME ReaderTypes, ReaderInv, FifoInv, ScanInv, PlaceInv, HeldInv, GraceInv, Reclaim
    PROVE  GraceInv'
  <2> USE <1>GraceByDrainer
  <2>0. UNCHANGED <<rpc, held, marker>>
      BY DrainFrame
  <2>1. CASE Drain \/ DrainPop \/ DrainFinal \/ DrainBlocked \/ DrainRearm \/ DrainRecheck
      BY <2>1
         DEF GraceInv, Drain, DrainPop, DrainFinal, DrainBlocked, DrainRearm,
             DrainRecheck, DGoto
  <2>2. CASE DrainFront
    <3>1. CASE dpc' = "final"
      BY <3>1 DEF GraceInv
    <3>2. CASE /\ queue # <<>> /\ StartScan(Drainer, Head(queue)[2]) /\ queue' = queue
      <4>1. left'[Drainer] = Cpus /\ goal'[Drainer] = Head(queue)[2]
          BY <3>2, Contexts DEF StartScan, ScanInv
      <4>2. \A r \in Readers : r[1] \in left'[Drainer]
          BY <4>1, ReaderShape
      <4> QED BY <3>2, <4>1, <4>2 DEF GraceInv
    <3> QED BY <2>2, <3>1, <3>2 DEF DrainFront, DGoto
  <2>3. CASE Scan(Drainer)
    <3>0. UNCHANGED <<queue, dpc, marker>>
      BY <2>3 DEF Scan, fifo, dlocal, reader
    <3>1. CASE ScanRegistration(Drainer)
      BY <2>0, <3>0, <3>1 DEF ScanRegistration, GraceInv
    <3>2. CASE ScanMarker(Drainer)
      <4> SUFFICES ASSUME dpc = "grace" PROVE GraceInv'
          BY <3>0 DEF GraceInv
      <4>1. PICK c \in Cpus :
              /\ Lowest(c, left[Drainer])
              /\ LET ok == CpuGrace(sample[Drainer], marker[c], goal[Drainer])
                     rest == IF ok THEN left[Drainer] \ {c} ELSE {} IN
                 /\ left' = [left EXCEPT ![Drainer] = rest]
                 /\ verdict' = [verdict EXCEPT ![Drainer] =
                                   IF ~ok THEN "no" ELSE IF rest = {} THEN "yes" ELSE @]
          BY <3>2 DEF ScanMarker
      <4>2. queue # <<>> /\ goal[Drainer] = Head(queue)[2] /\ goal' = goal
          BY <3>2 DEF GraceInv, ScanMarker
      <4>3. CASE ~CpuGrace(sample[Drainer], marker[c], goal[Drainer])
        <5>1. verdict'[Drainer] = "no"
          BY <4>1, <4>3, Contexts DEF ScanInv
        <5> QED BY <3>0, <4>2, <5>1 DEF GraceInv
      <4>4. CASE CpuGrace(sample[Drainer], marker[c], goal[Drainer])
        <5>1. left'[Drainer] = left[Drainer] \ {c}
          BY <4>1, <4>4, Contexts DEF ScanInv
        <5>2. marker[c] = 0 \/ marker[c] > Head(queue)[2]
          BY <4>2, <4>4 DEF CpuGrace
        <5>3. verdict[Drainer] # "no"
          BY <4>1, Contexts DEF ScanInv, Lowest
        <5>4. ASSUME NEW r \in Readers, rpc[r] = "clone", r[1] \notin left'[Drainer]
              PROVE  held[r] # Head(queue)[1]
          <6>1. CASE r[1] = c
              BY <4>2, <5>2, <5>4, <6>1, <1>PassedCpu
          <6>2. CASE r[1] # c
              BY <5>1, <5>3, <5>4, <6>2 DEF GraceInv
          <6> QED BY <6>1, <6>2
        <5> QED BY <2>0, <3>0, <4>2, <5>4 DEF GraceInv
      <4> QED BY <4>3, <4>4
    <3> QED BY <2>3, <3>1, <3>2 DEF Scan
  <2> QED BY <2>1, <2>2, <2>3 DEF Reclaim
<1>1. ASSUME NEW r \in Readers, ReaderStep(r) PROVE GraceInv'
  <2>1. UNCHANGED <<ptr, queue, dpc>> /\ Local(r)
    BY <1>1, ReaderFrame, ReaderLocal
  <2>2. /\ left'[Drainer] = left[Drainer] /\ goal'[Drainer] = goal[Drainer]
        /\ verdict'[Drainer] = verdict[Drainer]
    BY <1>1, ReaderScans, ScanStepKeeps, Contexts
  <2>3. queue # <<>> => ptr # Head(queue)[1]
    <3>1. queue \in Seq(Objects \X Nat) /\ \A i \in 1 .. Len(queue) : queue[i][1] # ptr
        BY DEF PlaceInv, FifoInv
    <3>2. queue # <<>> => 1 \in 1 .. Len(queue) /\ Head(queue) = queue[1]
        BY SMTT(30), Z3T(30), <3>1, FrontNat
    <3> QED BY <3>1, <3>2
  <2>4. \A s \in Readers : rpc'[s] = "clone" =>
            held'[s] = ptr \/ (rpc[s] = "clone" /\ held'[s] = held[s])
    BY <1>1, <2>1, ReaderHolds DEF Local
  <2> QED BY <2>1, <2>2, <2>3, <2>4 DEF GraceInv
<1>2. ASSUME NEW w \in Writers, WriterStep(w) PROVE GraceInv'
  <2>1. UNCHANGED <<rpc, held, dpc>>
    BY <1>2, WriterFrame
  <2>2. /\ left'[Drainer] = left[Drainer] /\ goal'[Drainer] = goal[Drainer]
        /\ verdict'[Drainer] = verdict[Drainer]
    BY <1>2, WriterScans, ScanStepKeeps, Contexts
  <2>3. queue # <<>> => queue' # <<>> /\ Head(queue') = Head(queue)
    <3>1. CASE UNCHANGED queue
        BY <3>1
    <3>2. CASE Commit(w)
      <4>1. /\ wpc[w] = "commit" /\ queue' = Append(queue, <<expect[w], epoch>>)
        BY <3>2 DEF Commit
      <4>2. <<expect[w], epoch>> \in Objects \X Nat
        BY <4>1 DEF WriterInv, WriterTypes, Expecting, Reserving
      <4> QED BY <4>1, <4>2, Appended
    <3>3. CASE Swap(w) \/ FillStore(w)
        BY <3>3 DEF Swap, FillStore, fifo
    <3> QED BY <1>2, <3>1, <3>2, <3>3, WriterSlot
  <2> QED BY <2>1, <2>2, <2>3 DEF GraceInv
<1>3. CASE (\E c \in Cpus : CpuStep(c)) \/ UNCHANGED vars
  <2>1. UNCHANGED <<rpc, held, queue, dpc, left, goal, verdict>>
    BY <1>3, CpuFrame DEF vars, rlocal, fifo, dlocal, scan
  <2> QED BY <2>1 DEF GraceInv
<1> QED BY <1>1, <1>2, <1>3, Steps, <1>GraceByDrainer

\* A writer's step changes its own variables only.
LEMMA WriterLocal ==
    ASSUME WriterTypes, NEW w \in Writers, WriterStep(w), NEW v \in Writers, v # w
    PROVE  wpc'[v] = wpc[v] /\ expect'[v] = expect[v] /\ fresh'[v] = fresh[v]
<1> USE DEF WriterTypes, WGoto
<1>1. CASE Begin(w) \/ Cancel(w)
    BY <1>1 DEF Begin, Cancel
<1>2. CASE Swap(w) \/ Open(w) \/ Commit(w)
    BY <1>2 DEF Swap, Open, Commit
<1>3. CASE Arm(w) \/ Armed(w)
    BY <1>3 DEF Arm, Armed
<1>4. CASE Scan(w)
    BY <1>4 DEF Scan, wlocal
<1>5. CASE FillStore(w) \/ FillOpen(w)
    BY <1>5 DEF FillStore, FillOpen
<1>6. CASE \E new \in Unborn : Fill(w, new)
    BY <1>6 DEF Fill
<1>7. CASE Publish(w) \/ Clear(w)
  <2>1. PICK new : Reserve(w, new)
    BY <1>7 DEF Publish, Clear
  <2>2. /\ wpc' = [wpc EXCEPT ![w] = "reserved"] /\ expect' = [expect EXCEPT ![w] = ptr]
        /\ fresh' = [fresh EXCEPT ![w] = new]
    BY <2>1 DEF Reserve
  <2> QED BY <2>2
<1> QED BY <1>1, <1>2, <1>3, <1>4, <1>5, <1>6, <1>7 DEF WriterStep, Write

\* A snapshot is taken of what was published, and objects stay created.
LEMMA SnapshotKept ==
    ASSUME ReaderTypes, WriterTypes, WriterInv, PlaceInv, HeldInv, SnapshotInv, [Next]_vars
    PROVE  SnapshotInv'
<1>1. ASSUME NEW r \in Readers, rpc[r] = "clone" PROVE held[r] \in born
  <2>1. held[r] \in Objects /\ held[r] # Null /\ Safe(r)
    BY <1>1, RcuAssumption DEF HeldInv
  <2> QED BY <2>1 DEF Safe, WriterInv, PlaceInv, Unlinked, Expecting, Reserving
<1>2. ASSUME NEW r \in Readers, ReaderStep(r) PROVE SnapshotInv'
  <2>1. Local(r) /\ UNCHANGED born
    BY <1>2, ReaderLocal, ReaderFrame
  <2>2. rpc'[r] \in {"exit", "depart"} => held'[r] \in born \cup {Null}
    <3> USE DEF ReaderTypes, RGoto, At
    <3>1. CASE Load(r) \/ IsEmpty(r) \/ EmptyBefore(r) \/ EmptyPeek(r) \/ EmptyAfter(r)
        BY <3>1 DEF Load, IsEmpty, EmptyBefore, EmptyPeek, EmptyAfter
    <3>2. CASE Admit(r)
        BY SMTT(30), Z3T(30), <3>2 DEF Admit
    <3>3. CASE LoadEpoch(r) \/ StoreMarker(r) \/ Verify(r) \/ Undo(r) \/ Unadmit(r)
        BY <3>3 DEF LoadEpoch, StoreMarker, Verify, Undo, Unadmit
    <3>4. CASE LoadPointer(r)
        BY <3>4 DEF LoadPointer
    <3>5. CASE Clone(r)
        BY <1>1, <3>5 DEF Clone
    <3>6. CASE Exit(r)
        BY <3>6 DEF Exit, SnapshotInv
    <3>7. CASE Depart(r) \/ Note(r) \/ NoteGrace(r)
        BY <3>7 DEF Depart, Note, NoteGrace, Finished
    <3>8. CASE Scan(r)
        BY <3>8 DEF Scan, rlocal, SnapshotInv
    <3> QED BY <1>2, <3>1, <3>2, <3>3, <3>4, <3>5, <3>6, <3>7, <3>8
               DEF ReaderStep, Read
  <2> QED BY <2>1, <2>2 DEF Local, SnapshotInv
<1>3. ASSUME NEW w \in Writers, WriterStep(w) PROVE SnapshotInv'
  <2>1. UNCHANGED <<rpc, held>>
    BY <1>3, WriterFrame
  <2>2. born \subseteq born'
    <3>1. CASE Write(w)
        BY <3>1
           DEF Write, Begin, Cancel, Swap, Open, Commit, Arm, Armed, FillStore, FillOpen,
                    Scan, wlocal
    <3>2. CASE Publish(w) \/ Clear(w) \/ \E new \in Unborn : Fill(w, new)
        BY <3>2 DEF Publish, Clear, Reserve, Fill
    <3> QED BY <1>3, <3>1, <3>2 DEF WriterStep
  <2> QED BY <2>1, <2>2 DEF SnapshotInv
<1>4. CASE Reclaim \/ (\E c \in Cpus : CpuStep(c)) \/ UNCHANGED vars
  <2>1. UNCHANGED <<rpc, held, born>>
    BY <1>4, DrainFrame, CpuFrame DEF vars, rlocal, wlocal
  <2> QED BY <2>1 DEF SnapshotInv
<1> QED BY <1>2, <1>3, <1>4, Steps

-----------------------------------------------------------------------------
(* Wakes.                                                                   *)

\* Every step keeps a queued edge from being without a wake.
LEMMA EdgeInvKept ==
    ASSUME ReaderTypes, WriterTypes, ScanInv, FifoInv, EdgeInv, [Next]_vars PROVE EdgeInv'
<1> USE DEF EdgeInv
<1>1. ASSUME NEW a \in Scanners, ScanStep(a), moves = 0
      PROVE  \A b \in Scanners : sample'[b] # "offline"
  <2>1. \A b \in Scanners \ {a} : sample'[b] = sample[b]
    BY <1>1, ScanStepKeeps
  <2>2. sample'[a] # "offline"
    <3>1. CASE UNCHANGED scan
        BY <1>1, <3>1 DEF scan
    <3>2. CASE (\E e \in Nat : StartScan(a, e)) \/ EndScan(a) \/ ScanMarker(a)
        BY <1>1, <3>2 DEF StartScan, EndScan, ScanMarker, ScanInv
    <3>3. CASE ScanRegistration(a)
        BY <1>1, <3>3 DEF ScanRegistration, ScanInv
    <3> QED BY <1>1, <3>1, <3>2, <3>3 DEF ScanStep
  <2> QED BY <1>1, <2>1, <2>2
<1>2. ASSUME NEW r \in Readers, ReaderStep(r) PROVE EdgeInv'
  <2>1. UNCHANGED <<online, moves>>
    BY <1>2, ReaderFrame
  <2>2. moves = 0 => \A b \in Scanners : sample'[b] # "offline"
    BY <1>1, <1>2, ReaderScans, Contexts
  <2>3. UNCHANGED <<queued, kick>> \/ (queued' = TRUE /\ kick' = TRUE)
    <3>1. CASE Load(r) \/ IsEmpty(r) \/ EmptyBefore(r) \/ EmptyPeek(r) \/ EmptyAfter(r)
        BY <3>1 DEF Load, IsEmpty, EmptyBefore, EmptyPeek, EmptyAfter, shared
    <3>2. CASE Admit(r) \/ LoadEpoch(r) \/ StoreMarker(r) \/ Verify(r) \/ Undo(r) \/ Unadmit(r)
        BY <3>2 DEF Admit, LoadEpoch, StoreMarker, Verify, Undo, Unadmit, shared
    <3>3. CASE LoadPointer(r) \/ Clone(r) \/ Exit(r) \/ Depart(r) \/ Note(r)
        BY <3>3 DEF LoadPointer, Clone, Exit, Depart, Note, shared
    <3>4. CASE NoteGrace(r)
        BY <3>4 DEF NoteGrace
    <3>5. CASE Scan(r)
        BY <3>5 DEF Scan
    <3> QED BY <1>2, <3>1, <3>2, <3>3, <3>4, <3>5 DEF ReaderStep, Read
  <2>4. CASE UNCHANGED <<queued, kick>>
    BY <2>1, <2>2, <2>4
  <2>5. CASE queued' = TRUE /\ kick' = TRUE
    BY <2>1, <2>2, <2>5
  <2> QED BY <2>3, <2>4, <2>5
<1>3. ASSUME NEW w \in Writers, WriterStep(w) PROVE EdgeInv'
  <2>1. UNCHANGED <<online, moves, queued>>
    BY <1>3, WriterFrame
  <2>2. moves = 0 => \A b \in Scanners : sample'[b] # "offline"
    BY <1>1, <1>3, WriterScans, Contexts
  <2>3. kick' \in BOOLEAN /\ (kick => kick')
    <3>1. CASE Begin(w) \/ Cancel(w) \/ Swap(w) \/ Open(w) \/ Commit(w) \/ Arm(w)
        BY <3>1 DEF Begin, Cancel, Swap, Open, Commit, Arm
    <3>2. CASE Armed(w)
        BY <3>2 DEF Armed
    <3>3. CASE FillStore(w) \/ FillOpen(w) \/ Scan(w)
        BY <3>3 DEF FillStore, FillOpen, Scan
    <3>4. CASE Publish(w) \/ Clear(w) \/ \E new \in Unborn : Fill(w, new)
        BY <3>4 DEF Publish, Clear, Reserve, Fill
    <3> QED BY <1>3, <3>1, <3>2, <3>3, <3>4 DEF WriterStep, Write
  <2> QED BY <2>1, <2>2, <2>3
<1>4. ASSUME Reclaim PROVE EdgeInv'
  <2>1. UNCHANGED <<online, moves>>
    BY <1>4, DrainFrame
  <2>2. moves = 0 => \A b \in Scanners : sample'[b] # "offline"
    BY <1>1, <1>4, DrainScans, Contexts
  <2>3. \/ UNCHANGED <<queued, kick>>
        \/ queued' = TRUE /\ kick' = TRUE
        \/ queued' = FALSE /\ kick' \in BOOLEAN
        \/ UNCHANGED queued /\ kick' = TRUE
    <3>1. CASE Drain \/ DrainFront \/ DrainPop \/ DrainFinal
        BY <3>1 DEF Drain, DrainFront, DrainPop, DrainFinal
    <3>2. CASE DrainBlocked \/ DrainRearm \/ DrainRecheck
        BY <3>2 DEF DrainBlocked, DrainRearm, DrainRecheck
    <3>3. CASE Scan(Drainer)
        BY <3>3 DEF Scan
    <3> QED BY <1>4, <3>1, <3>2, <3>3 DEF Reclaim
  <2>4. CASE UNCHANGED <<queued, kick>>
    BY <2>1, <2>2, <2>4
  <2>5. CASE queued' = FALSE /\ kick' \in BOOLEAN
    BY <2>1, <2>2, <2>5
  <2>6. CASE (queued' = TRUE \/ UNCHANGED queued) /\ kick' = TRUE
    BY <2>1, <2>2, <2>6
  <2> QED BY <2>3, <2>4, <2>5, <2>6
<1>5. ASSUME NEW c \in Cpus, CpuStep(c) PROVE EdgeInv'
  <2>1. UNCHANGED <<sample, queued, kick>>
    BY <1>5, CpuFrame DEF scan
  <2>2. CASE RegisterCpu(c)
    BY SMTT(30), Z3T(30), <2>1, <2>2 DEF RegisterCpu, shared, ReaderTypes
  <2>3. CASE UnregisterCpu(c)
    BY SMTT(30), Z3T(30), <2>1, <2>3 DEF UnregisterCpu
  <2> QED BY <1>5, <2>2, <2>3 DEF CpuStep
<1>6. CASE UNCHANGED vars
    BY <1>6 DEF vars, reader, scan
<1> QED BY <1>2, <1>3, <1>4, <1>5, <1>6, Steps

\* Every step keeps a FIFO that is not empty watched.
LEMMA WakeInvKept ==
    ASSUME ReaderTypes, WriterTypes, ScanInv, ReaderInv, WriterInv, FifoInv, GraceInv,
           EdgeInv, WakeInv, [Next]_vars
    PROVE  WakeInv'
\* A CPU that is admitted has an outermost reader, who will pass
\* note_reader_quiescent.
<1>Outermost.
    ASSUME ReaderTypes, ReaderInv, NEW c \in Cpus, depth[c] # 0
    PROVE  \E r \in Readers : rpc[r] \in Admitted /\ ~nested[r]
  <2> USE <1>Outermost
  <2>1. CpuInv(c) /\ Task(c) \in Readers /\ (c \in Interrupts => Irq(c) \in Readers)
      BY CpuReaders DEF ReaderInv
  <2>2. CASE rpc[Task(c)] \in Admitted
      BY <2>1, <2>2 DEF CpuInv, TaskInv
  <2>3. CASE rpc[Task(c)] \notin Admitted
    <3>1. c \in Interrupts /\ rpc[Irq(c)] \in Admitted
      BY SMTT(30), Z3T(30), <2>1, <2>3 DEF CpuInv, DepthInv, Counts
    <3>2. ~nested[Irq(c)]
      BY <2>1, <2>3, <3>1 DEF CpuInv, IrqInv, Pinned, Admitted
    <3> QED BY <2>1, <3>1, <3>2
  <2> QED BY <2>2, <2>3
\* A scan loses hope only to a reader that is there when it looks.
<1>ScanHope.
    ASSUME ReaderTypes, ScanInv, ReaderInv, EdgeInv, moves = 0, NEW a \in Scanners,
           ScanRegistration(a) \/ ScanMarker(a), Hopeful(a)
    PROVE  Hopeful(a)' \/ \E r \in Readers : rpc[r] \in Admitted /\ ~nested[r]
  <2> USE <1>ScanHope
  <2>0. /\ verdict[a] \in {"none", "yes", "no"} /\ verdict[a] # "no"
        /\ sample[a] \in {"none", "quiet"}
      BY DEF ScanInv, EdgeInv, Hopeful
  <2>1. CASE ScanRegistration(a)
    <3>1. PICK c \in Cpus :
            sample' = [sample EXCEPT ![a] = IF depth[c] # 0 THEN "admitted"
                                            ELSE IF online[c] THEN "quiet" ELSE "offline"]
      BY <2>1 DEF ScanRegistration
    <3>2. verdict' = verdict
      BY <2>1 DEF ScanRegistration
    <3>3. CASE depth[c] # 0
      BY <3>3, <1>Outermost
    <3>4. CASE depth[c] = 0
      <4>1. sample'[a] # "admitted"
          BY <3>1, <3>4 DEF ScanInv
      <4> QED BY <2>0, <3>2, <4>1 DEF Hopeful
    <3> QED BY <3>3, <3>4
  <2>2. CASE ScanMarker(a)
    <3>0. sample[a] = "quiet" /\ sample'[a] = "none"
      BY <2>0, <2>2 DEF ScanMarker, ScanInv
    <3>1. PICK c \in Cpus : \E rest :
            verdict' = [verdict EXCEPT ![a] = IF ~CpuGrace(sample[a], marker[c], goal[a]) THEN "no"
                                              ELSE IF rest = {} THEN "yes" ELSE @]
      BY <2>2 DEF ScanMarker
    <3>2. CASE marker[c] # 0
      <4>1. depth[c] # 0
          BY <3>2 DEF ReaderInv, CpuInv, DepthInv
      <4> QED BY <4>1, <1>Outermost
    <3>3. CASE marker[c] = 0
      <4>1. CpuGrace(sample[a], marker[c], goal[a])
          BY <3>0, <3>3 DEF CpuGrace
      <4>2. verdict'[a] # "no"
          BY <2>0, <3>1, <4>1 DEF ScanInv
      <4> QED BY <3>0, <4>2 DEF Hopeful
    <3> QED BY <3>2, <3>3
  <2> QED BY <2>1, <2>2
\* A new scan of a retired front is hopeful.
<1>NewScanHopeful.
    ASSUME ScanInv, NEW a \in Scanners, NEW e, StartScan(a, e)
    PROVE  Hopeful(a)'
    BY <1>NewScanHopeful DEF ScanInv, StartScan, Hopeful
\* The reader that watched the FIFO watches it after its step, has woken the
\* reclaimer, or left another reader to watch.
<1>ReaderKeepsWatch.
    ASSUME ReaderTypes, WriterTypes, ScanInv, ReaderInv, FifoInv, EdgeInv,
           queue # <<>>, moves = 0, NEW r \in Readers, ReaderStep(r), ReaderWatches(r)
    PROVE  kick' \/ \E s \in Readers : ReaderWatches(s)'
  <2> USE <1>ReaderKeepsWatch
  <2>0. r \in Scanners /\ r[1] \in Cpus /\ Local(r)
      BY Contexts, ReaderShape, ReaderLocal
  <2>1. \/ rpc[r] \in Admitted \cup {"admit", "note"} /\ ~nested[r]
        \/ rpc[r] = "grace" /\ Hopeful(r)
      BY DEF ReaderWatches
  <2> USE DEF ReaderTypes, RGoto, At
  <2>2. ASSUME rpc'[r] \in Admitted \cup {"admit", "note"}, nested'[r] = FALSE
        PROVE  \E s \in Readers : ReaderWatches(s)'
      BY <2>2 DEF ReaderWatches
  <2>3. CASE Load(r) \/ IsEmpty(r) \/ EmptyBefore(r) \/ EmptyPeek(r) \/ EmptyAfter(r)
      BY <2>1, <2>3 DEF Load, IsEmpty, EmptyBefore, EmptyPeek, EmptyAfter, Admitted
  <2>4. CASE Admit(r)
    <3>1. online[r[1]] /\ ~nested[r] /\ rpc[r] = "admit" /\ Runs(r)
      BY <2>0, <2>1, <2>4 DEF EdgeInv, Admit, Admitted
    <3>2. CASE depth[r[1]] = 0
      <4>1. rpc'[r] = "epoch" /\ nested'[r] = FALSE
          BY <2>4, <3>1, <3>2 DEF Admit
      <4> QED BY <2>2, <4>1 DEF Admitted
    <3>3. CASE depth[r[1]] # 0
      <4>1. PICK s \in Readers : rpc[s] \in Admitted /\ ~nested[s]
          BY <2>0, <3>3, <1>Outermost
      <4>2. s # r
          BY <3>1, <4>1 DEF Admitted
      <4>3. rpc'[s] = rpc[s] /\ nested'[s] = nested[s]
          BY <2>0, <4>2 DEF Local
      <4> QED BY <4>1, <4>3 DEF ReaderWatches
    <3> QED BY <3>2, <3>3
  <2>5. CASE LoadEpoch(r) \/ StoreMarker(r) \/ Verify(r) \/ Undo(r) \/ Unadmit(r)
    <3>1. ~nested[r] /\ nested' = nested /\ rpc'[r] \in Admitted \cup {"admit"}
      BY <2>1, <2>5 DEF LoadEpoch, StoreMarker, Verify, Undo, Unadmit, Admitted
    <3> QED BY <2>2, <3>1
  <2>6. CASE LoadPointer(r) \/ Clone(r) \/ Exit(r)
    <3>1. ~nested[r] /\ nested' = nested /\ rpc'[r] \in Admitted
      BY <2>1, <2>6 DEF LoadPointer, Clone, Exit, Admitted
    <3> QED BY <2>2, <3>1
  <2>7. CASE Depart(r)
    <3>1. ~nested[r]
      BY <2>1, <2>7 DEF Depart, Admitted
    <3>2. rpc'[r] = "note" /\ nested'[r] = FALSE
      BY <2>7, <3>1 DEF Depart
    <3> QED BY <2>2, <3>2
  <2>8. CASE Note(r)
    <3>0. front # 0
      BY SMTT(30), Z3T(30), FrontNat
    <3>1. pending
      BY DEF FifoInv
    <3>2. rpc'[r] = "grace" /\ StartScan(r, front)
      BY <2>8, <3>0, <3>1 DEF Note
    <3>3. Hopeful(r)'
      BY <2>0, <3>2, <1>NewScanHopeful
    <3> QED BY <3>2, <3>3 DEF ReaderWatches
  <2>9. CASE NoteGrace(r)
    <3>1. rpc[r] = "grace" /\ verdict[r] # "none"
      BY <2>9 DEF NoteGrace
    <3>2. verdict[r] = "yes"
      BY <2>0, <2>1, <3>1 DEF Hopeful, ScanInv, Admitted
    <3>3. CASE ~queued
      BY <2>9, <3>2, <3>3 DEF NoteGrace
    <3>4. CASE queued
      <4>1. kick /\ kick' = kick
          BY <2>9, <3>4 DEF NoteGrace, EdgeInv
      <4> QED BY <4>1
    <3> QED BY <3>3, <3>4
  <2>10. CASE Scan(r)
    <3>0. rpc' = rpc /\ nested' = nested /\ (ScanRegistration(r) \/ ScanMarker(r))
      BY <2>10 DEF Scan, rlocal
    <3>1. CASE rpc[r] \in Admitted \cup {"admit", "note"} /\ ~nested[r]
      BY <2>2, <3>0, <3>1
    <3>2. CASE rpc[r] = "grace" /\ Hopeful(r)
      <4>1. Hopeful(r)' \/ \E s \in Readers : rpc[s] \in Admitted /\ ~nested[s]
          BY <2>0, <3>0, <3>2, <1>ScanHope
      <4> QED BY <3>0, <3>2, <4>1 DEF ReaderWatches
    <3> QED BY <2>1, <3>1, <3>2
  <2> QED BY <2>3, <2>4, <2>5, <2>6, <2>7, <2>8, <2>9, <2>10 DEF ReaderStep, Read
\* A step of a reader leaves the watch of everybody else.
<1>WatchedByReader.
    ASSUME ReaderTypes, WriterTypes, ScanInv, ReaderInv, FifoInv, EdgeInv, WakeInv,
           NEW r \in Readers, ReaderStep(r)
    PROVE  WakeInv'
  <2> USE <1>WatchedByReader
  <2>1. UNCHANGED <<queue, moves, dpc, wpc>> /\ Local(r)
      BY ReaderFrame, ReaderLocal
  <2>2. \A b \in Scanners \ {r} : sample'[b] = sample[b] /\ verdict'[b] = verdict[b]
      BY ReaderScans, ScanStepKeeps, Contexts
  <2>3. kick => kick'
    <3>1. CASE Load(r) \/ IsEmpty(r) \/ EmptyBefore(r) \/ EmptyPeek(r) \/ EmptyAfter(r)
      BY <3>1 DEF Load, IsEmpty, EmptyBefore, EmptyPeek, EmptyAfter, shared
    <3>2. CASE Admit(r) \/ LoadEpoch(r) \/ StoreMarker(r) \/ Verify(r) \/ Undo(r) \/ Unadmit(r)
      BY <3>2 DEF Admit, LoadEpoch, StoreMarker, Verify, Undo, Unadmit, shared
    <3>3. CASE LoadPointer(r) \/ Clone(r) \/ Exit(r) \/ Depart(r) \/ Note(r)
      BY <3>3 DEF LoadPointer, Clone, Exit, Depart, Note, shared
    <3>4. CASE NoteGrace(r)
      BY <3>4 DEF NoteGrace
    <3>5. CASE Scan(r)
      BY <3>5 DEF Scan
    <3> QED BY <3>1, <3>2, <3>3, <3>4, <3>5 DEF ReaderStep, Read
  <2>4. SUFFICES ASSUME queue # <<>>, moves = 0 PROVE Attended'
      BY <2>1 DEF WakeInv
  <2>5. CASE kick
      BY <2>3, <2>5 DEF Attended
  <2>6. CASE DrainerWatches
      BY <2>1, <2>2, <2>6, Contexts DEF Attended, DrainerWatches, Hopeful
  <2>7. ASSUME NEW w \in Writers, WriterWatches(w) PROVE Attended'
    <3>1. WriterWatches(w)'
      BY <2>1, <2>2, <2>7, Contexts DEF WriterWatches, Hopeful
    <3> QED BY <3>1 DEF Attended
  <2>8. ASSUME NEW s \in Readers, ReaderWatches(s) PROVE Attended'
    <3>1. CASE s = r
      BY <2>4, <2>8, <3>1, <1>ReaderKeepsWatch DEF Attended
    <3>2. CASE s # r
      <4>1. ReaderWatches(s)'
          BY <2>1, <2>2, <2>8, <3>2, Contexts DEF ReaderWatches, Hopeful, Local
      <4> QED BY <4>1 DEF Attended
    <3> QED BY <3>1, <3>2
  <2> QED BY <2>4, <2>5, <2>6, <2>7, <2>8 DEF WakeInv, Attended
\* A writer that has retired an object watches until it has armed the reclaimer.
<1>WatchedByWriter.
    ASSUME ReaderTypes, WriterTypes, ScanInv, ReaderInv, FifoInv, EdgeInv, WakeInv, WriterInv,
           NEW w \in Writers, WriterStep(w)
    PROVE  WakeInv'
  <2> USE <1>WatchedByWriter
  <2>1. UNCHANGED <<moves, dpc, rpc, nested>>
      BY WriterFrame
  <2>2. \A b \in Scanners \ {w} : sample'[b] = sample[b] /\ verdict'[b] = verdict[b]
      BY WriterScans, ScanStepKeeps, Contexts
  <2>c. CASE Commit(w)
    <3>1. WriterWatches(w)'
      BY <2>c DEF Commit, WGoto, WriterTypes, WriterWatches
    <3> QED BY <3>1 DEF WakeInv, Attended
  <2>3. CASE ~Commit(w)
    <3>1. UNCHANGED queue /\ (kick => kick')
      <4>0. CASE UNCHANGED <<queue, kick>>
          BY <4>0
      <4>1. CASE Begin(w) \/ Cancel(w) \/ Swap(w) \/ Open(w) \/ Arm(w)
        <5>1. UNCHANGED <<queue, kick>>
          BY <4>1 DEF Begin, Cancel, Swap, Open, Arm, fifo
        <5> QED BY <4>0, <5>1
      <4>2. CASE Armed(w)
          BY <4>2 DEF Armed, fifo
      <4>3. CASE FillStore(w) \/ FillOpen(w) \/ Scan(w)
          BY SMTT(30), Z3T(30), <4>3 DEF FillStore, FillOpen, Scan, fifo
      <4>4. CASE Publish(w) \/ Clear(w) \/ \E new \in Unborn : Fill(w, new)
        <5>1. UNCHANGED <<queue, kick>>
          BY <4>4 DEF Publish, Clear, Reserve, Fill, fifo
        <5> QED BY <4>0, <5>1
      <4> QED BY <2>3, <4>1, <4>2, <4>3, <4>4 DEF WriterStep, Write
    <3>2. SUFFICES ASSUME queue # <<>>, moves = 0 PROVE Attended'
      BY <2>1, <3>1 DEF WakeInv
    <3>3. CASE kick
      BY <3>1, <3>3 DEF Attended
    <3>4. CASE DrainerWatches
      BY <2>1, <2>2, <3>4, Contexts DEF Attended, DrainerWatches, Hopeful
    <3>5. ASSUME NEW r \in Readers, ReaderWatches(r) PROVE Attended'
      <4>1. ReaderWatches(r)'
          BY <2>1, <2>2, <3>5, Contexts DEF ReaderWatches, Hopeful
      <4> QED BY <4>1 DEF Attended
    <3>6. ASSUME NEW v \in Writers, WriterWatches(v), v # w PROVE Attended'
      <4>1. WriterWatches(v)'
          BY <2>2, <3>6, WriterLocal, Contexts DEF WriterWatches, Hopeful
      <4> QED BY <4>1 DEF Attended
    <3>7. ASSUME WriterWatches(w) PROVE Attended'
      <4>0. (wpc[w] = "arm" \/ (wpc[w] = "grace" /\ Hopeful(w))) /\ w \in Scanners
          BY <3>7, Contexts DEF WriterWatches
      <4>1. CASE Arm(w)
        <5>1. wpc'[w] = "grace" /\ StartScan(w, Head(queue)[2])
          BY <3>2, <4>1 DEF Arm, WGoto, WriterTypes
        <5>2. Hopeful(w)'
          BY <4>0, <5>1, <1>NewScanHopeful
        <5> QED BY <5>1, <5>2 DEF Attended, WriterWatches
      <4>2. CASE Armed(w)
        <5>1. verdict[w] = "yes" /\ kick' = (kick \/ verdict[w] = "yes")
          BY <4>0, <4>2 DEF Armed, Hopeful, ScanInv
        <5> QED BY <5>1 DEF Attended
      <4>3. CASE Scan(w)
        <5>0. wpc' = wpc /\ (ScanRegistration(w) \/ ScanMarker(w))
          BY <4>3 DEF Scan, wlocal
        <5>1. CASE wpc[w] = "arm"
          BY <5>0, <5>1 DEF Attended, WriterWatches
        <5>2. CASE wpc[w] = "grace" /\ Hopeful(w)
          <6>1. CASE Hopeful(w)'
              BY <5>0, <5>2, <6>1 DEF Attended, WriterWatches
          <6>2. CASE \E r \in Readers : rpc[r] \in Admitted /\ ~nested[r]
              BY <2>1, <6>2 DEF Attended, ReaderWatches
          <6> QED BY <3>2, <4>0, <5>0, <5>2, <6>1, <6>2, <1>ScanHope
        <5> QED BY <4>0, <5>1, <5>2
      <4>4. CASE Begin(w) \/ Cancel(w) \/ Swap(w) \/ Open(w) \/ FillStore(w) \/ FillOpen(w)
          BY <4>0, <4>4 DEF Begin, Cancel, Swap, Open, FillStore, FillOpen
      <4>5. CASE Publish(w) \/ Clear(w) \/ \E new \in Unborn : Fill(w, new)
          BY <4>0, <4>5 DEF Publish, Clear, Reserve, Fill
      <4> QED BY <2>3, <4>1, <4>2, <4>3, <4>4, <4>5 DEF WriterStep, Write
    <3> QED BY <3>2, <3>3, <3>4, <3>5, <3>6, <3>7 DEF WakeInv, Attended
  <2> QED BY <2>c, <2>3
\* drain leaves a FIFO that is not empty to somebody else only after it looked.
<1>WatchedByDrainer.
    ASSUME ReaderTypes, WriterTypes, ScanInv, ReaderInv, FifoInv, EdgeInv, WakeInv, GraceInv, Reclaim
    PROVE  WakeInv'
  <2> USE <1>WatchedByDrainer
  <2>1. UNCHANGED <<moves, rpc, nested, wpc>>
      BY DrainFrame
  <2>2. \A b \in Scanners \ {Drainer} : sample'[b] = sample[b] /\ verdict'[b] = verdict[b]
      BY DrainScans, ScanStepKeeps, Contexts
  <2>3. queue' # <<>> => queue # <<>>
    <3>1. CASE DrainPop
      BY <3>1 DEF DrainPop, GraceInv
    <3>2. CASE Drain \/ DrainFront \/ DrainFinal \/ DrainBlocked \/ DrainRearm \/ DrainRecheck
      BY <3>2
         DEF Drain, DrainFront, DrainFinal, DrainBlocked, DrainRearm, DrainRecheck
    <3>3. CASE Scan(Drainer)
      BY <3>3 DEF Scan, fifo
    <3> QED BY <3>1, <3>2, <3>3 DEF Reclaim
  <2>4. SUFFICES ASSUME queue' # <<>>, queue # <<>>, moves = 0 PROVE Attended'
      BY <2>1, <2>3 DEF WakeInv
  <2>5. Attended
      BY <2>4 DEF WakeInv
  <2>6. ASSUME NEW r \in Readers, ReaderWatches(r) PROVE Attended'
    <3>1. ReaderWatches(r)'
      BY <2>1, <2>2, <2>6, Contexts DEF ReaderWatches, Hopeful
    <3> QED BY <3>1 DEF Attended
  <2>7. ASSUME NEW w \in Writers, WriterWatches(w) PROVE Attended'
    <3>1. WriterWatches(w)'
      BY <2>1, <2>2, <2>7, Contexts DEF WriterWatches, Hopeful
    <3> QED BY <3>1 DEF Attended
  <2>8. Drainer \in Scanners /\ (queue # <<>> => front # 0)
      BY SMTT(30), Z3T(30), Contexts, FrontNat
  <2>9. CASE kick \/ DrainerWatches
    <3>1. CASE Drain \/ DrainFront \/ DrainPop
      BY <3>1 DEF Drain, DrainFront, DrainPop, DGoto, Attended, DrainerWatches
    <3>2. CASE DrainFinal
      BY <2>4, <3>2 DEF DrainFinal, DGoto, Attended, DrainerWatches
    <3>3. CASE DrainBlocked
      BY <3>3 DEF DrainBlocked, DGoto, Attended, DrainerWatches
    <3>4. CASE DrainRearm
      <4>1. dpc' = "recheck" /\ StartScan(Drainer, front)
          BY <2>4, <2>8, <3>4 DEF DrainRearm, DGoto
      <4>2. Hopeful(Drainer)'
          BY <2>8, <4>1, <1>NewScanHopeful
      <4> QED BY <4>1, <4>2 DEF Attended, DrainerWatches
    <3>5. CASE DrainRecheck
      <4>1. dpc = "recheck" /\ verdict[Drainer] # "none"
          BY <3>5 DEF DrainRecheck
      <4>2. kick \/ verdict[Drainer] = "yes"
          BY <2>8, <2>9, <4>1 DEF DrainerWatches, Hopeful, ScanInv
      <4>3. CASE kick
        <5>1. kick' = kick \/ kick' = TRUE
          BY <3>5 DEF DrainRecheck
        <5> QED BY <4>3, <5>1 DEF Attended
      <4>4. CASE verdict[Drainer] = "yes" /\ ~queued
          BY <3>5, <4>4 DEF DrainRecheck, Attended
      <4>5. CASE queued
        <5>1. kick
          BY <4>5 DEF EdgeInv
        <5> QED BY <4>3, <5>1
      <4> QED BY <4>2, <4>3, <4>4, <4>5
    <3>6. CASE Scan(Drainer)
      <4>0. UNCHANGED <<dpc, kick>> /\ (ScanRegistration(Drainer) \/ ScanMarker(Drainer))
          BY <3>6 DEF Scan, dlocal
      <4>1. CASE kick \/ dpc \in {"front", "grace", "final", "blocked", "rearm"}
          BY <4>0, <4>1 DEF Attended, DrainerWatches
      <4>2. CASE dpc = "recheck" /\ Hopeful(Drainer)
        <5>1. CASE Hopeful(Drainer)'
          BY <4>0, <4>2, <5>1 DEF Attended, DrainerWatches
        <5>2. CASE \E r \in Readers : rpc[r] \in Admitted /\ ~nested[r]
          BY <2>1, <5>2 DEF Attended, ReaderWatches
        <5> QED BY <2>4, <2>8, <4>0, <4>2, <5>1, <5>2, <1>ScanHope
      <4> QED BY <2>9, <4>1, <4>2 DEF DrainerWatches
    <3> QED BY <3>1, <3>2, <3>3, <3>4, <3>5, <3>6 DEF Reclaim
  <2> QED BY <2>5, <2>6, <2>7, <2>9 DEF Attended
<1>1. CASE UNCHANGED vars
  <2>1. UNCHANGED <<queue, moves, kick, dpc, rpc, nested, wpc, sample, verdict>>
    BY <1>1 DEF vars, fifo, dlocal, rlocal, wlocal, scan
  <2> QED BY <2>1
             DEF WakeInv, Attended, DrainerWatches, ReaderWatches, WriterWatches, Hopeful
<1>2. ASSUME NEW c \in Cpus, CpuStep(c) PROVE WakeInv'
  <2>1. UNCHANGED <<queue, kick, dpc, rpc, nested, wpc, sample, verdict>>
    BY <1>2, CpuFrame DEF fifo, dlocal, rlocal, wlocal, scan
  <2>2. moves' = 0 => moves = 0
    <3>1. CASE RegisterCpu(c)
        BY <3>1 DEF RegisterCpu, shared
    <3>2. CASE UnregisterCpu(c)
      <4>1. moves' = moves + 1 /\ moves \in Nat
        BY <3>2 DEF UnregisterCpu, EdgeInv
      <4> QED BY SMTT(30), Z3T(30), <4>1
    <3> QED BY <1>2, <3>1, <3>2 DEF CpuStep
  <2> QED BY <2>1, <2>2
             DEF WakeInv, Attended, DrainerWatches, ReaderWatches, WriterWatches, Hopeful
<1> QED BY <1>1, <1>2, Steps, <1>WatchedByReader, <1>WatchedByWriter,
           <1>WatchedByDrainer

=============================================================================
