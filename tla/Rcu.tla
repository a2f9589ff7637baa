-------------------------------- MODULE Rcu --------------------------------
(***************************************************************************)
(* thekernel-axrcu: a bounded epoch domain and one RcuSlot published       *)
(* through it.  Readers of a CPU (its task, and an interrupt on top of it) *)
(* take a snapshot; writers publish, clear and fill the slot; one task     *)
(* drains the FIFO of retired owners.  Every action is one atomic access,  *)
(* or several that no other context can tell from one.  Memory is          *)
(* sequentially consistent: admission and publication are SeqCst; the wake *)
(* hints are acquire/release.  The platform (pinning, masking of           *)
(* interrupts, the reclaimer task that reader_quiescent wakes) is modelled *)
(* from EpochPlatform's contract.                                          *)
(***************************************************************************)
EXTENDS Integers, Sequences, FiniteSets

CONSTANTS Cpus,        \* 0 .. MAX_CPUS - 1, or a subset of it
          Interrupts,  \* CPUs whose interrupt handlers also read
          Writers,     \* contexts that change the slot
          Objects,     \* values to publish; each is published at most once
          Null,        \* the empty slot
          Capacity,    \* CAPACITY of the retire FIFO
          Limit,       \* entries one drain call may drop
          Drainer,     \* the reclaimer task
          MaxEpoch,    \* largest epoch (u64::MAX)
          MaxReads,    \* bound: loads of each reading context
          MaxOffline   \* bound: CPU lifecycle changes

Readers == (Cpus \X {"task"}) \cup (Interrupts \X {"irq"})
Scanners == Readers \cup Writers \cup {Drainer}

ASSUME RcuAssumption ==
    /\ Cpus \subseteq Nat /\ IsFiniteSet(Cpus) /\ Interrupts \subseteq Cpus
    /\ Null \notin Objects /\ IsFiniteSet(Objects) /\ IsFiniteSet(Writers)
    /\ Drainer \notin Readers \cup Writers /\ Readers \cap Writers = {}
    /\ Capacity \in Nat \ {0} /\ Limit \in Nat \ {0}
    /\ {MaxEpoch, MaxReads, MaxOffline} \subseteq Nat

VARIABLES
    online, depth, marker,  \* ReaderState: REGISTERED_BIT, depth, active_epoch
    epoch, ptr,             \* the domain's epoch and the slot's pointer
    queue, reserved,        \* retire FIFO of <<object, epoch>>, reservations
    pending, front,         \* retire_pending, front_retire_epoch
    queued,                 \* reclaim_wake_queued
    kick,                   \* the reclaimer task has been woken
    wlock, qlock,           \* holders of the writer and FIFO locks, as sets
    count,                  \* strong count of each object
    born,                   \* ghost: objects created so far
    rpc, seen, nested, held, again, \* reader: next step, guard, value, retry
    wpc, expect, fresh,     \* writer: next step, expected and new pointer
    dpc, dropped,           \* drainer: next step, entries dropped
    left, goal, sample, verdict, \* grace_complete scans in progress
    reads, moves            \* bounds used

reader == <<online, depth, marker>>
fifo == <<queue, reserved, pending, front>>
rlocal == <<rpc, seen, nested, held, again, reads>>
wlocal == <<wpc, expect, fresh, born>>
dlocal == <<dpc, dropped>>
scan == <<left, goal, sample, verdict>>
vars == <<reader, epoch, ptr, fifo, queued, kick, wlock, qlock, count,
          rlocal, wlocal, dlocal, scan, moves>>

Init ==
    /\ online = [c \in Cpus |-> TRUE] /\ depth = [c \in Cpus |-> 0]
    /\ marker = [c \in Cpus |-> 0] /\ epoch = 0
    /\ ptr \in Objects \cup {Null}
    /\ queue = <<>> /\ reserved = 0 /\ pending = FALSE /\ front = 0
    /\ queued = FALSE /\ kick = FALSE /\ wlock = {} /\ qlock = {}
    /\ count = [o \in Objects |-> IF o = ptr THEN 1 ELSE 0]
    /\ rpc = [r \in Readers |-> "idle"] /\ seen = [r \in Readers |-> 0]
    /\ nested = [r \in Readers |-> FALSE] /\ held = [r \in Readers |-> Null]
    /\ again = [r \in Readers |-> FALSE] /\ reads = [r \in Readers |-> 0]
    /\ wpc = [w \in Writers |-> "idle"] /\ expect = [w \in Writers |-> Null]
    /\ fresh = [w \in Writers |-> Null]
    /\ dpc = "idle" /\ dropped = 0
    /\ left = [a \in Scanners |-> {}] /\ goal = [a \in Scanners |-> 0]
    /\ sample = [a \in Scanners |-> "none"] /\ verdict = [a \in Scanners |-> "none"]
    /\ moves = 0 /\ born = {ptr} \ {Null}

-----------------------------------------------------------------------------
(* grace_complete(e): two loads per CPU, in index order, up to the first    *)
(* CPU that fails.                                                          *)

StartScan(a, e) ==
    /\ left' = [left EXCEPT ![a] = Cpus] /\ goal' = [goal EXCEPT ![a] = e]
    /\ sample' = [sample EXCEPT ![a] = "none"]
    /\ verdict' = [verdict EXCEPT ![a] = "none"]

\* Mutation: a marker is compared with the epoch before the publication.
GraceOffByOne(s, m, e) ==
    CASE s = "admitted" -> m # 0 /\ m >= e - 1
      [] s = "offline" -> m = 0
      [] OTHER -> m = 0 \/ m >= e - 1

\* What one CPU's registration word and marker say about grace for e.
CpuGrace(s, m, e) ==
    CASE s = "admitted" -> m # 0 /\ m > e
      [] s = "offline" -> m = 0
      [] OTHER -> m = 0 \/ m > e

Lowest(c, S) == c \in S /\ \A d \in S : c <= d

ScanRegistration(a) ==
    /\ sample[a] = "none"
    /\ \E c \in Cpus :
       /\ Lowest(c, left[a])
       /\ sample' = [sample EXCEPT ![a] = IF depth[c] # 0 THEN "admitted"
                                          ELSE IF online[c] THEN "quiet" ELSE "offline"]
    /\ UNCHANGED <<left, goal, verdict>>

ScanMarker(a) ==
    /\ sample[a] # "none"
    /\ \E c \in Cpus :
       /\ Lowest(c, left[a])
       /\ LET ok == CpuGrace(sample[a], marker[c], goal[a])
              rest == IF ok THEN left[a] \ {c} ELSE {} IN
          /\ left' = [left EXCEPT ![a] = rest]
          /\ verdict' = [verdict EXCEPT ![a] =
                            IF ~ok THEN "no" ELSE IF rest = {} THEN "yes" ELSE @]
    /\ sample' = [sample EXCEPT ![a] = "none"]
    /\ UNCHANGED goal

Scan(a) ==
    /\ ScanRegistration(a) \/ ScanMarker(a)
    /\ UNCHANGED <<reader, epoch, ptr, fifo, queued, kick, wlock, qlock, count,
                   rlocal, wlocal, dlocal, moves>>

EndScan(a) == /\ verdict' = [verdict EXCEPT ![a] = "none"]
              /\ goal' = [goal EXCEPT ![a] = 0] /\ UNCHANGED <<left, sample>>

Incr(o) == count' = [count EXCEPT ![o] = @ + 1]
Decr(o) == count' = [count EXCEPT ![o] = @ - 1]

-----------------------------------------------------------------------------
(* Readers: try_load_if_present and the guard's drop.                       *)

\* Steps inside with_local_irqs_disabled.
Masked == {"epoch", "mark", "verify", "undo", "unadmit", "depart"}

\* An interrupt suspends the task of its CPU until it returns.
Runs(r) == r[2] = "task" /\ r[1] \in Interrupts => rpc[<<r[1], "irq">>] = "idle"

At(r, l) == rpc[r] = l /\ Runs(r)
RGoto(r, l) == rpc' = [rpc EXCEPT ![r] = l]
shared == <<epoch, ptr, fifo, queued, kick, wlock, qlock, wlocal, dlocal, moves>>

Load(r) ==
    /\ At(r, "idle") /\ reads[r] < MaxReads
    /\ r[2] = "irq" => rpc[<<r[1], "task">>] \notin Masked
    /\ reads' = [reads EXCEPT ![r] = @ + 1] /\ RGoto(r, "admit")
    /\ UNCHANGED <<reader, shared, count, seen, nested, held, again, scan>>

\* The admission word: refused offline, nested inside a reader of this CPU.
Admit(r) ==
    LET c == r[1] IN
    /\ At(r, "admit")
    /\ IF ~online[c]
       THEN /\ RGoto(r, "idle") /\ again' = [again EXCEPT ![r] = FALSE]
            /\ UNCHANGED <<depth, nested, seen>>
       ELSE /\ depth' = [depth EXCEPT ![c] = @ + 1]
            /\ nested' = [nested EXCEPT ![r] = depth[c] # 0]
            /\ seen' = [seen EXCEPT ![r] = IF depth[c] # 0 THEN marker[c] - 1 ELSE 0]
            /\ RGoto(r, IF depth[c] # 0 THEN "load" ELSE "epoch")
            /\ UNCHANGED again
    /\ UNCHANGED <<online, marker, shared, count, held, reads, scan>>

\* An odd epoch rolls the admission back and spins.
LoadEpoch(r) ==
    /\ At(r, "epoch")
    /\ IF epoch % 2 = 1
       THEN /\ depth' = [depth EXCEPT ![r[1]] = @ - 1]
            /\ RGoto(r, "admit") /\ UNCHANGED seen
       ELSE /\ seen' = [seen EXCEPT ![r] = epoch]
            /\ RGoto(r, "mark") /\ UNCHANGED depth
    /\ UNCHANGED <<online, marker, shared, count, nested, held, again, reads, scan>>

StoreMarker(r) ==
    /\ At(r, "mark")
    /\ marker' = [marker EXCEPT ![r[1]] = seen[r] + 1] /\ RGoto(r, "verify")
    /\ UNCHANGED <<online, depth, shared, count, seen, nested, held, again, reads, scan>>

\* The second load of the epoch.
Verify(r) ==
    /\ At(r, "verify") /\ RGoto(r, IF epoch = seen[r] THEN "load" ELSE "undo")
    /\ UNCHANGED <<reader, shared, count, seen, nested, held, again, reads, scan>>

Undo(r) ==
    /\ At(r, "undo")
    /\ marker' = [marker EXCEPT ![r[1]] = 0] /\ RGoto(r, "unadmit")
    /\ UNCHANGED <<online, depth, shared, count, seen, nested, held, again, reads, scan>>

Unadmit(r) ==
    /\ At(r, "unadmit")
    /\ depth' = [depth EXCEPT ![r[1]] = @ - 1] /\ RGoto(r, "admit")
    /\ UNCHANGED <<online, marker, shared, count, seen, nested, held, again, reads, scan>>

LoadPointer(r) ==
    /\ At(r, "load")
    /\ held' = [held EXCEPT ![r] = ptr] /\ again' = [again EXCEPT ![r] = FALSE]
    /\ RGoto(r, IF ptr = Null THEN "exit" ELSE "clone")
    /\ UNCHANGED <<reader, shared, count, seen, nested, reads, scan>>

\* Mutation: a snapshot is returned whatever was published since admission.
StableAlways(r) == TRUE

\* RcuReadGuard::stable.
Stable(r) == nested[r] \/ epoch = seen[r]

\* Arc::increment_strong_count on the raw pointer, then the check; an unstable
\* snapshot is dropped and the load starts again.
Clone(r) ==
    /\ At(r, "clone") /\ RGoto(r, "exit")
    /\ IF Stable(r) THEN Incr(held[r]) /\ UNCHANGED <<held, again>>
       ELSE /\ held' = [held EXCEPT ![r] = Null]
            /\ again' = [again EXCEPT ![r] = TRUE] /\ UNCHANGED count
    /\ UNCHANGED <<reader, shared, seen, nested, reads, scan>>

\* reader_exit: the outermost reader clears the marker, then the depth drops.
Exit(r) ==
    /\ At(r, "exit") /\ RGoto(r, "depart")
    /\ marker' = IF nested[r] THEN marker ELSE [marker EXCEPT ![r[1]] = 0]
    /\ UNCHANGED <<online, depth, shared, count, seen, nested, held, again, reads, scan>>

Finished(r) == IF again[r] THEN "admit" ELSE "idle"

\* The guard is gone; the caller is free to drop the snapshot it owns.
Depart(r) ==
    /\ At(r, "depart") /\ depth' = [depth EXCEPT ![r[1]] = @ - 1]
    /\ RGoto(r, IF nested[r] THEN Finished(r) ELSE "note")
    /\ seen' = [seen EXCEPT ![r] = 0] /\ nested' = [nested EXCEPT ![r] = FALSE]
    /\ held' = [held EXCEPT ![r] = Null]
    /\ IF held[r] = Null THEN UNCHANGED count ELSE Decr(held[r])
    /\ UNCHANGED <<online, marker, shared, again, reads, scan>>

\* note_reader_quiescent.
Note(r) ==
    /\ At(r, "note")
    /\ IF ~pending \/ front = 0 THEN RGoto(r, Finished(r)) /\ UNCHANGED scan
       ELSE RGoto(r, "grace") /\ StartScan(r, front)
    /\ UNCHANGED <<reader, shared, count, seen, nested, held, again, reads>>

\* The false -> true edge of reclaim_wake_queued wakes the reclaimer.
NoteGrace(r) ==
    /\ At(r, "grace") /\ verdict[r] # "none" /\ EndScan(r)
    /\ IF verdict[r] = "yes" /\ ~queued
       THEN queued' = TRUE /\ kick' = TRUE
       ELSE UNCHANGED <<queued, kick>>
    /\ RGoto(r, Finished(r))
    /\ UNCHANGED <<reader, epoch, ptr, fifo, wlock, qlock, count, wlocal,
                   dlocal, moves, seen, nested, held, again, reads>>

\* is_empty: no admission, but the pointer is read inside one even epoch.
IsEmpty(r) ==
    /\ At(r, "idle") /\ reads[r] < MaxReads
    /\ r[2] = "irq" => rpc[<<r[1], "task">>] \notin Masked
    /\ reads' = [reads EXCEPT ![r] = @ + 1] /\ RGoto(r, "before")
    /\ UNCHANGED <<reader, shared, count, seen, nested, held, again, scan>>

EmptyBefore(r) ==
    /\ At(r, "before") /\ epoch % 2 = 0
    /\ seen' = [seen EXCEPT ![r] = epoch] /\ RGoto(r, "peek")
    /\ UNCHANGED <<reader, shared, count, nested, held, again, reads, scan>>

EmptyPeek(r) ==
    /\ At(r, "peek") /\ held' = [held EXCEPT ![r] = ptr] /\ RGoto(r, "after")
    /\ UNCHANGED <<reader, shared, count, seen, nested, again, reads, scan>>

EmptyAfter(r) ==
    /\ At(r, "after") /\ RGoto(r, IF epoch = seen[r] THEN "idle" ELSE "before")
    /\ seen' = [seen EXCEPT ![r] = 0] /\ held' = [held EXCEPT ![r] = Null]
    /\ UNCHANGED <<reader, shared, count, nested, again, reads, scan>>

Read(r) ==
    \/ EmptyBefore(r) \/ EmptyPeek(r) \/ EmptyAfter(r)
    \/ Admit(r) \/ LoadEpoch(r) \/ StoreMarker(r) \/ Verify(r) \/ Undo(r)
    \/ Unadmit(r) \/ LoadPointer(r) \/ Clone(r) \/ Exit(r) \/ Depart(r)
    \/ Note(r) \/ NoteGrace(r) \/ (Runs(r) /\ Scan(r))

-----------------------------------------------------------------------------
(* Writers.                                                                 *)

WGoto(w, l) == wpc' = [wpc EXCEPT ![w] = l]
Unborn == Objects \ born

Room == Len(queue) + reserved < Capacity

\* reserve_retire; the caller owns the object it expects to replace and the
\* replacement (Null for clear).
Reserve(w, new) ==
    /\ wpc[w] = "idle" /\ ptr # Null /\ qlock = {} /\ epoch + 2 <= MaxEpoch
    /\ Room /\ reserved' = reserved + 1
    /\ expect' = [expect EXCEPT ![w] = ptr] /\ fresh' = [fresh EXCEPT ![w] = new]
    /\ count' = [o \in Objects |-> IF o = ptr THEN count[o] + 1
                                   ELSE IF o = new THEN 1 ELSE count[o]]
    /\ born' = born \cup ({new} \ {Null}) /\ WGoto(w, "reserved")
    /\ UNCHANGED <<reader, epoch, ptr, queue, pending, front, queued, kick,
                   wlock, qlock, rlocal, dlocal, scan, moves>>

Publish(w) == \E new \in Unborn : Reserve(w, new)
Clear(w) == Reserve(w, Null)

\* publish or clear takes the writer lock; a slot that changed is stale, and an
\* unchanged one closes the epoch.
Begin(w) ==
    /\ wpc[w] = "reserved" /\ wlock = {} /\ wlock' = {w}
    /\ IF ptr = expect[w] /\ epoch + 2 <= MaxEpoch
       THEN epoch' = epoch + 1 /\ WGoto(w, "swap")
       ELSE WGoto(w, "cancel") /\ UNCHANGED epoch
    /\ UNCHANGED <<reader, ptr, fifo, queued, kick, qlock, count, rlocal,
                   expect, fresh, born, dlocal, scan, moves>>

\* Mutation: a stale publication keeps its reservation.
CancelKeepingSlot(w) ==
    /\ wpc[w] \in {"reserved", "cancel"} /\ qlock = {} /\ wlock' = wlock \ {w}
    /\ count' = [o \in Objects |-> IF o \in {expect[w], fresh[w]} THEN count[o] - 1
                                                                  ELSE count[o]]
    /\ expect' = [expect EXCEPT ![w] = Null] /\ fresh' = [fresh EXCEPT ![w] = Null]
    /\ WGoto(w, "idle")
    /\ UNCHANGED <<reader, born, epoch, ptr, fifo, queued, kick,
                   qlock, rlocal, dlocal, scan, moves>>

\* The reservation is dropped unused, before or inside the writer lock.
Cancel(w) ==
    /\ wpc[w] \in {"reserved", "cancel"} /\ qlock = {}
    /\ reserved' = reserved - 1 /\ wlock' = wlock \ {w}
    /\ count' = [o \in Objects |-> IF o \in {expect[w], fresh[w]} THEN count[o] - 1
                                                                  ELSE count[o]]
    /\ expect' = [expect EXCEPT ![w] = Null] /\ fresh' = [fresh EXCEPT ![w] = Null]
    /\ WGoto(w, "idle")
    /\ UNCHANGED <<reader, born, epoch, ptr, queue, pending, front, queued, kick,
                   qlock, rlocal, dlocal, scan, moves>>

\* The swap; the slot's owner passes to the writer.
Swap(w) ==
    /\ wpc[w] = "swap" /\ ptr' = fresh[w] /\ WGoto(w, "open")
    /\ UNCHANGED <<reader, epoch, fifo, queued, kick, wlock, qlock, count, rlocal,
                   expect, fresh, born, dlocal, scan, moves>>

Open(w) ==
    /\ wpc[w] = "open" /\ epoch' = epoch + 1 /\ WGoto(w, "commit")
    /\ UNCHANGED <<reader, ptr, fifo, queued, kick, wlock, qlock, count, rlocal,
                   expect, fresh, born, dlocal, scan, moves>>

\* A second owner goes to the FIFO; the front hint follows an empty FIFO.
Commit(w) ==
    /\ wpc[w] = "commit" /\ qlock = {} /\ wlock' = {}
    /\ Incr(expect[w]) /\ reserved' = reserved - 1
    /\ queue' = Append(queue, <<expect[w], epoch>>)
    /\ front' = IF queue = <<>> THEN epoch ELSE front
    /\ pending' = TRUE /\ WGoto(w, "arm")
    /\ UNCHANGED <<reader, epoch, ptr, queued, kick, qlock, rlocal,
                   expect, fresh, born, dlocal, scan, moves>>

\* The caller drops the returned Arc and its own, and the adapter arms the
\* reclaimer by has_reclaimable_pending, a scan under the FIFO lock.
Arm(w) ==
    /\ wpc[w] = "arm" /\ qlock = {}
    /\ count' = [count EXCEPT ![expect[w]] = @ - 2]
    /\ expect' = [expect EXCEPT ![w] = Null] /\ fresh' = [fresh EXCEPT ![w] = Null]
    /\ IF queue = <<>> THEN WGoto(w, "idle") /\ UNCHANGED <<scan, qlock>>
       ELSE WGoto(w, "grace") /\ StartScan(w, Head(queue)[2]) /\ qlock' = {w}
    /\ UNCHANGED <<reader, epoch, ptr, fifo, queued, kick, wlock, rlocal,
                   born, dlocal, moves>>

Armed(w) ==
    /\ wpc[w] = "grace" /\ verdict[w] # "none" /\ EndScan(w) /\ qlock' = {}
    /\ kick' = (kick \/ verdict[w] = "yes") /\ WGoto(w, "idle")
    /\ UNCHANGED <<reader, epoch, ptr, fifo, queued, wlock, count, rlocal,
                   expect, fresh, born, dlocal, moves>>

\* publish_if_empty: no retirement.
Fill(w, new) ==
    /\ wpc[w] = "idle" /\ wlock = {} /\ ptr = Null /\ epoch + 2 <= MaxEpoch
    /\ wlock' = {w} /\ epoch' = epoch + 1 /\ fresh' = [fresh EXCEPT ![w] = new]
    /\ count' = [count EXCEPT ![new] = 1] /\ born' = born \cup {new}
    /\ WGoto(w, "store")
    /\ UNCHANGED <<reader, ptr, fifo, queued, kick, qlock, rlocal, expect,
                   dlocal, scan, moves>>

FillStore(w) ==
    /\ wpc[w] = "store" /\ ptr' = fresh[w] /\ WGoto(w, "filled")
    /\ UNCHANGED <<reader, epoch, fifo, queued, kick, wlock, qlock, count, rlocal,
                   expect, fresh, born, dlocal, scan, moves>>

FillOpen(w) ==
    /\ wpc[w] = "filled" /\ epoch' = epoch + 1 /\ wlock' = {}
    /\ fresh' = [fresh EXCEPT ![w] = Null] /\ WGoto(w, "idle")
    /\ UNCHANGED <<reader, born, ptr, fifo, queued, kick, qlock, count, rlocal, expect,
                   dlocal, scan, moves>>

Write(w) ==
    \/ Begin(w) \/ Cancel(w) \/ Swap(w) \/ Open(w) \/ Commit(w)
    \/ Arm(w) \/ Armed(w) \/ FillStore(w) \/ FillOpen(w) \/ Scan(w)

-----------------------------------------------------------------------------
(* drain, by the task that reader_quiescent wakes.                          *)

DGoto(l) == dpc' = l
besides == <<reader, epoch, ptr, reserved, wlock, rlocal, wlocal, moves>>

\* The edge that brought the drainer here is acknowledged first.
Drain ==
    /\ dpc = "idle" /\ kick /\ kick' = FALSE
    /\ queued' = FALSE /\ dropped' = 0 /\ DGoto("front")
    /\ UNCHANGED <<besides, queue, pending, front, qlock, count, scan>>

\* The front is tested under the FIFO lock.
DrainFront ==
    /\ dpc = "front" /\ qlock = {}
    /\ IF queue = <<>> \/ dropped = Limit
       THEN DGoto("final") /\ UNCHANGED <<qlock, scan>>
       ELSE DGoto("grace") /\ qlock' = {Drainer} /\ StartScan(Drainer, Head(queue)[2])
    /\ UNCHANGED <<besides, queue, pending, front, queued, kick, count, dropped>>

FrontEpoch(q) == IF q = <<>> THEN 0 ELSE Head(q)[2]

\* Mutation: the hint is cleared by every pop, not only by the last.
PopClearingFront ==
    /\ dpc = "grace" /\ verdict[Drainer] # "none" /\ EndScan(Drainer) /\ qlock' = {}
    /\ IF verdict[Drainer] = "no"
       THEN DGoto("final") /\ UNCHANGED <<queue, front, count, dropped>>
       ELSE /\ queue' = Tail(queue) /\ front' = 0
            /\ Decr(Head(queue)[1]) /\ dropped' = dropped + 1 /\ DGoto("front")
    /\ UNCHANGED <<besides, pending, queued, kick>>

\* The entry is popped and, outside the lock, its owner dropped.
DrainPop ==
    /\ dpc = "grace" /\ verdict[Drainer] # "none" /\ EndScan(Drainer) /\ qlock' = {}
    /\ IF verdict[Drainer] = "no"
       THEN DGoto("final") /\ UNCHANGED <<queue, front, count, dropped>>
       ELSE /\ queue' = Tail(queue) /\ front' = FrontEpoch(Tail(queue))
            /\ Decr(Head(queue)[1]) /\ dropped' = dropped + 1 /\ DGoto("front")
    /\ UNCHANGED <<besides, pending, queued, kick>>

\* The last section under the FIFO lock: an empty FIFO resets the hints.
DrainFinal ==
    /\ dpc = "final" /\ qlock = {} /\ dropped' = 0
    /\ IF queue = <<>>
       THEN /\ pending' = FALSE /\ front' = 0 /\ queued' = FALSE
            /\ DGoto("idle") /\ UNCHANGED <<scan, qlock>>
       ELSE /\ DGoto("blocked") /\ StartScan(Drainer, Head(queue)[2])
            /\ qlock' = {Drainer} /\ UNCHANGED <<pending, front, queued>>
    /\ UNCHANGED <<besides, queue, kick, count>>

\* A FIFO that is pending and not blocked has its reclaimer run again.
DrainBlocked ==
    /\ dpc = "blocked" /\ verdict[Drainer] # "none" /\ EndScan(Drainer)
    /\ qlock' = {}
    /\ IF verdict[Drainer] = "no" THEN DGoto("rearm") /\ UNCHANGED kick
                                  ELSE DGoto("idle") /\ kick' = TRUE
    /\ UNCHANGED <<besides, queue, pending, front, queued, count, dropped>>

\* A blocked front: re-arm the edge, then test once more.
DrainRearm ==
    /\ dpc = "rearm" /\ queued' = FALSE
    /\ IF front = 0 THEN DGoto("idle") /\ UNCHANGED scan
       ELSE DGoto("recheck") /\ StartScan(Drainer, front)
    /\ UNCHANGED <<besides, queue, pending, front, kick, qlock, count, dropped>>

DrainRecheck ==
    /\ dpc = "recheck" /\ verdict[Drainer] # "none" /\ EndScan(Drainer) /\ DGoto("idle")
    /\ IF verdict[Drainer] = "yes" /\ ~queued THEN queued' = TRUE /\ kick' = TRUE
                                              ELSE UNCHANGED <<queued, kick>>
    /\ UNCHANGED <<besides, queue, pending, front, qlock, count, dropped>>

Reclaim ==
    \/ Drain \/ DrainFront \/ DrainPop \/ DrainFinal \/ DrainBlocked
    \/ DrainRearm \/ DrainRecheck \/ Scan(Drainer)

-----------------------------------------------------------------------------
(* CPU lifecycle.                                                           *)

RegisterCpu(c) ==
    /\ ~online[c] /\ depth[c] = 0 /\ online' = [online EXCEPT ![c] = TRUE]
    /\ UNCHANGED <<depth, marker, shared, count, rlocal, scan>>

\* CpuBusy, without a change, while a reader is admitted.
UnregisterCpu(c) ==
    /\ online[c] /\ depth[c] = 0 /\ moves < MaxOffline
    /\ online' = [online EXCEPT ![c] = FALSE] /\ moves' = moves + 1
    /\ UNCHANGED <<depth, marker, epoch, ptr, fifo, queued, kick, wlock, qlock,
                   wlocal, dlocal, count, rlocal, scan>>

Next ==
    \/ \E r \in Readers : Load(r) \/ IsEmpty(r) \/ Read(r)
    \/ \E w \in Writers : \/ Write(w)
                          \/ Publish(w) \/ Clear(w)
                          \/ \E new \in Unborn : Fill(w, new)
    \/ Reclaim
    \/ \E c \in Cpus : RegisterCpu(c) \/ UnregisterCpu(c)

Safety == Init /\ [][Next]_vars

\* Guards are short and run with preemption off, a writer holds its spin lock
\* across a few stores, interrupts return, and a woken reclaimer runs.
Fairness ==
    /\ \A r \in Readers : WF_vars(Read(r))
    /\ \A w \in Writers : WF_vars(Write(w))
    /\ WF_vars(Reclaim)

Spec == Safety /\ Fairness

-----------------------------------------------------------------------------
(* Properties.                                                              *)

\* Every variable stays in its range; reader depth is at most the task's and one
\* interrupt's.  Reservations and entries never exceed the FIFO, every
\* reservation has an owner who will commit or cancel it, and the entries are in
\* epoch order (reserve, commit).  Outside the FIFO lock the hints that reader
\* exits use describe the FIFO, and an offline CPU has no reader and no marker,
\* so that a scan may pass over it (unregister_cpu).
TypeOK ==
    /\ depth \in [Cpus -> 0 .. 2] /\ marker \in [Cpus -> Nat] /\ epoch \in Nat
    /\ ptr \in Objects \cup {Null} /\ count \in [Objects -> Nat]
    /\ queue \in Seq(Objects \X Nat) /\ reserved \in 0 .. Capacity
    /\ held \in [Readers -> Objects \cup {Null}]
    /\ verdict \in [Scanners -> {"none", "yes", "no"}]
    /\ Len(queue) + reserved <= Capacity
    /\ reserved = Cardinality({w \in Writers : wpc[w] \in
                                  {"reserved", "cancel", "swap", "open", "commit"}})
    /\ \A i, j \in 1 .. Len(queue) : i < j => queue[i][2] < queue[j][2]
    /\ qlock = {} => front = FrontEpoch(queue) /\ (queue # <<>> => pending)
    /\ \A c \in Cpus : ~online[c] => depth[c] = 0 /\ marker[c] = 0

\* A reader never touches the strong count of a freed object: whatever it
\* loaded stays owned by the slot, the writer or the FIFO until it is cloned
\* (read_enter's two loads of the epoch against grace_complete's two loads).
NoUseAfterFree == \A r \in Readers : rpc[r] = "clone" => count[held[r]] > 0

\* An answer is right when it is returned: a snapshot taken by an outermost
\* reader is the object published at that moment, not one replaced meanwhile
\* (guard.stable()), and so is what is_empty says.
AnswersCurrent ==
    [][\A r \in Readers :
           /\ rpc[r] = "clone" /\ rpc'[r] = "exit" /\ ~nested[r] /\ held'[r] # Null
                  => held'[r] = ptr
           /\ rpc[r] = "after" /\ rpc'[r] = "idle" => (held[r] = Null <=> ptr = Null)]_vars

\* The last wake is never lost: a FIFO that nobody is working on and no reader
\* can block any more has woken its reclaimer (note_reader_quiescent,
\* has_reclaimable_pending and the re-arming in drain).  While every CPU stays
\* registered: unregister_cpu wakes nobody.
NoLostReclaim ==
    /\ dpc = "idle" /\ queue # <<>> /\ moves = 0
    /\ \A r \in Readers : rpc[r] = "idle"
    /\ \A w \in Writers : wpc[w] \in {"idle", "reserved"}
    => kick

=============================================================================
