----------------------------- MODULE RcuProofs ------------------------------
(***************************************************************************)
(* The rest of the invariant of Rcu, and its theorems.  The retire FIFO    *)
(* holds as many reservations as writers that have one (FifoInv), and an   *)
(* object's strong count is the number of its owners: the slot, the FIFO,  *)
(* a writer's expected object, its unpublished one, a reader's snapshot    *)
(* (CountInv).  Both are cardinalities of sets that a step changes by one  *)
(* or two known elements; OneMore, OneLess and OneMoved count the change.  *)
(***************************************************************************)
EXTENDS RcuStepProofs, FiniteSetTheorems

-----------------------------------------------------------------------------
(* The retire FIFO.                                                         *)

\* A leaf that names no prover is one for Zenon.
USE ZenonT(60)

\* The writers that hold a reservation can be counted.
LEMMA HoldersFinite == IsFiniteSet(Holders) /\ Cardinality(Holders) \in Nat
    BY RcuAssumption, FS_Subset, FS_CardinalityType DEF Holders

\* Every step keeps the reservations counted, the entries in epoch order and
\* the hints exact.
LEMMA FifoInvKept ==
    ASSUME FifoInv, WriterTypes, WriterInv, GraceInv, [Next]_vars PROVE FifoInv'
\* A step that opens or closes no reservation keeps the books.
<1>SameHolders.
    ASSUME WriterTypes, NEW w \in Writers, NEW l, wpc' = [wpc EXCEPT ![w] = l],
           wpc[w] \in Reserving <=> l \in Reserving
    PROVE  Holders' = Holders
    BY <1>SameHolders DEF Holders, WriterTypes
\* A reservation granted, and one given back.
<1>OneHolder.
    ASSUME WriterTypes, NEW w \in Writers, NEW l, wpc' = [wpc EXCEPT ![w] = l]
    PROVE  /\ wpc[w] \notin Reserving /\ l \in Reserving
                  => Cardinality(Holders') = Cardinality(Holders) + 1
           /\ wpc[w] \in Reserving /\ l \notin Reserving
                  => Cardinality(Holders') = Cardinality(Holders) - 1
  <2> USE <1>OneHolder
  <2>1. ASSUME wpc[w] \notin Reserving, l \in Reserving
        PROVE  Holders' = Holders \cup {w} /\ w \notin Holders
      BY <2>1 DEF Holders, WriterTypes
  <2>2. ASSUME wpc[w] \in Reserving, l \notin Reserving
        PROVE  Holders' = Holders \ {w} /\ w \in Holders
      BY <2>2 DEF Holders, WriterTypes
  <2> QED BY SMTT(30), Z3T(30), <2>1, <2>2, HoldersFinite, FS_AddElement, FS_RemoveElement
\* A step that leaves the entries alone keeps the FIFO in order, as long as it
\* accounts for its reservation and a writer enters its section by a new epoch.
<1>SameEntries.
    ASSUME FifoInv, WriterTypes, UNCHANGED <<queue, pending, front>>,
           epoch' = epoch \/ epoch' = epoch + 1,
           reserved' \in Int, reserved' = Cardinality(Holders'), Len(queue) + reserved' <= Capacity,
           \A v \in Writers : wpc'[v] \in {"swap", "open", "commit"} =>
               wpc[v] \in {"swap", "open", "commit"} \/ epoch' = epoch + 1
    PROVE  FifoInv'
  <2> USE <1>SameEntries
  <2>1. queue \in Seq(Objects \X Nat) /\ epoch \in Nat /\ Len(queue) \in Nat
      BY SMTT(30), Z3T(30) DEF FifoInv, WriterTypes
  <2>2. \A i \in 1 .. Len(queue) : queue[i][2] \in Nat
      BY SMTT(30), Z3T(30), <2>1
  <2>3. \A i \in 1 .. Len(queue) : 0 < queue[i][2] /\ queue[i][2] <= epoch
      BY DEF FifoInv
  <2>4. \A i \in 1 .. Len(queue) : 0 < queue[i][2] /\ queue[i][2] <= epoch'
      BY SMTT(30), Z3T(30), <2>1, <2>2, <2>3
  <2>5. ASSUME NEW v \in Writers, wpc'[v] \in {"swap", "open", "commit"}
        PROVE  0 < epoch' /\ \A i \in 1 .. Len(queue) : queue[i][2] < epoch'
    <3>1. CASE epoch' = epoch + 1
      BY SMTT(30), Z3T(30), <2>1, <2>2, <2>3, <3>1
    <3>2. CASE epoch' = epoch
      <4>1. wpc[v] \in {"swap", "open", "commit"}
          BY SMTT(30), Z3T(30), <2>1, <2>5, <3>2
      <4>2. 0 < epoch /\ \A i \in 1 .. Len(queue) : queue[i][2] < epoch
          BY <4>1 DEF FifoInv
      <4> QED BY <3>2, <4>2
    <3> QED BY <3>1, <3>2
  <2> QED BY <2>1, <2>4, <2>5 DEF FifoInv, FrontEpoch
\* An entry is appended with the current epoch, later than those before it.
<1>CommitFifo.
    ASSUME FifoInv, WriterTypes, WriterInv, NEW w \in Writers, Commit(w)
    PROVE  FifoInv'
  <2> USE <1>CommitFifo
  <2>1. /\ wpc[w] = "commit" /\ wpc' = [wpc EXCEPT ![w] = "arm"] /\ epoch' = epoch
        /\ queue' = Append(queue, <<expect[w], epoch>>) /\ reserved' = reserved - 1
        /\ front' = (IF queue = <<>> THEN epoch ELSE front) /\ pending' = TRUE
      BY DEF Commit, WGoto
  <2>2. expect[w] \in Objects /\ epoch \in Nat /\ queue \in Seq(Objects \X Nat)
      BY <2>1 DEF WriterInv, WriterTypes, FifoInv, Expecting, Reserving
  <2> DEFINE x == <<expect[w], epoch>>
  <2>3. x \in Objects \X Nat /\ x[2] = epoch
      BY <2>2
  <2>4. /\ queue' \in Seq(Objects \X Nat) /\ Len(queue') = Len(queue) + 1 /\ Len(queue) \in Nat
        /\ queue' # <<>> /\ queue'[Len(queue) + 1] = x
        /\ \A i \in 1 .. Len(queue) : queue'[i] = queue[i]
        /\ Head(queue') = IF queue = <<>> THEN x ELSE Head(queue)
    <3> HIDE DEF x
    <3>1. queue' = Append(queue, x)
      BY <2>1 DEF x
    <3> QED BY <2>3, <3>1, Appended
  <2>5. 0 < epoch /\ \A i \in 1 .. Len(queue) : queue[i][2] < epoch
      BY <2>1 DEF FifoInv
  <2>6. \A i \in 1 .. Len(queue') : i \in 1 .. Len(queue) \/ i = Len(queue) + 1
      BY SMTT(30), Z3T(30), <2>4
  <2>7. \A i, j \in 1 .. Len(queue) : i < j => queue[i][2] < queue[j][2]
      BY DEF FifoInv
  <2> HIDE DEF x
  <2>8. ASSUME NEW i \in 1 .. Len(queue'), NEW j \in 1 .. Len(queue'), i < j
        PROVE  queue'[i][2] < queue'[j][2]
    <3>1. i \in 1 .. Len(queue) /\ queue'[i] = queue[i]
      BY SMTT(30), Z3T(30), <2>4, <2>8
    <3>2. CASE j = Len(queue) + 1
      BY <2>3, <2>4, <2>5, <3>1, <3>2
    <3>3. CASE j \in 1 .. Len(queue)
      BY <2>4, <2>7, <2>8, <3>1, <3>3
    <3> QED BY <2>6, <3>2, <3>3
  <2>9. \A i \in 1 .. Len(queue') : 0 < queue'[i][2] /\ queue'[i][2] <= epoch'
    <3>1. \A i \in 1 .. Len(queue) : 0 < queue[i][2] /\ queue[i][2] <= epoch
      BY DEF FifoInv
    <3> QED BY SMTT(30), Z3T(30), <2>1, <2>2, <2>3, <2>4, <2>5, <2>6, <3>1
  <2>10. \A v \in Writers : wpc'[v] \notin {"swap", "open", "commit"}
    <3>1. \A v \in Writers : v # w => wpc[v] \notin Locked
      BY <2>1, AloneInside DEF Locked
    <3> QED BY <2>1, <3>1 DEF WriterTypes, Locked
  <2>11. reserved' = Cardinality(Holders') /\ reserved' \in Int /\ Len(queue') + reserved' <= Capacity
    <3>1. wpc[w] \in Reserving /\ "arm" \notin Reserving
      BY <2>1 DEF Reserving
    <3>2. Cardinality(Holders') = Cardinality(Holders) - 1
      BY <2>1, <3>1, <1>OneHolder
    <3>3. /\ reserved = Cardinality(Holders) /\ reserved \in Int
          /\ Len(queue) + reserved <= Capacity /\ Capacity \in Nat
      BY RcuAssumption DEF FifoInv
    <3> QED BY SMTT(30), Z3T(30), <2>1, <2>4, <3>2, <3>3
  <2>12. front' = FrontEpoch(queue')
      BY <2>1, <2>3, <2>4 DEF FifoInv, FrontEpoch
  <2> QED BY <2>1, <2>4, <2>8, <2>9, <2>10, <2>11, <2>12 DEF FifoInv
\* The front is popped.
<1>PopFifo.
    ASSUME FifoInv, UNCHANGED <<reserved, epoch, wpc, pending>>, queue # <<>>,
           queue' = Tail(queue), front' = FrontEpoch(Tail(queue))
    PROVE  FifoInv'
  <2> USE <1>PopFifo
  <2>1. queue \in Seq(Objects \X Nat)
      BY DEF FifoInv
  <2>2. /\ queue' \in Seq(Objects \X Nat) /\ Len(queue') = Len(queue) - 1 /\ Len(queue) >= 1
        /\ \A i \in 1 .. Len(queue') : i + 1 \in 1 .. Len(queue) /\ queue'[i] = queue[i + 1]
      BY <2>1, TailFacts
  <2>3. Len(queue') \in Nat /\ Len(queue) \in Nat
      BY SMTT(30), Z3T(30), <2>1, <2>2
  <2>4. ASSUME NEW i \in 1 .. Len(queue'), NEW j \in 1 .. Len(queue'), i < j
        PROVE  queue'[i][2] < queue'[j][2]
      BY SMTT(30), Z3T(30), <2>2, <2>3, <2>4 DEF FifoInv
  <2>5. Holders' = Holders
      BY DEF Holders
  <2>6. Len(queue') + reserved' <= Capacity
      BY SMTT(30), Z3T(30), <2>2, <2>3, RcuAssumption DEF FifoInv
  <2> QED BY <2>2, <2>4, <2>5, <2>6 DEF FifoInv
<1>0. epoch \in Nat /\ (epoch' = epoch \/ epoch' = epoch + 1)
    BY EpochGrows DEF WriterTypes
<1>r. reserved \in Int /\ reserved = Cardinality(Holders) /\ Len(queue) + reserved <= Capacity
    BY DEF FifoInv
<1>s. ASSUME UNCHANGED <<queue, pending, front, reserved, wpc>> PROVE FifoInv'
  <2>1. Holders' = Holders
    BY <1>s DEF Holders
  <2> QED BY <1>0, <1>r, <1>s, <2>1, <1>SameEntries
<1>1. ASSUME NEW w \in Writers, WriterStep(w) PROVE FifoInv'
  <2>a. ASSUME NEW l, wpc' = [wpc EXCEPT ![w] = l], wpc[w] \in Reserving <=> l \in Reserving,
               UNCHANGED <<queue, pending, front, reserved>>,
               l \in {"swap", "open", "commit"} =>
                   wpc[w] \in {"swap", "open", "commit"} \/ epoch' = epoch + 1
        PROVE  FifoInv'
    <3>1. Holders' = Holders
        BY <2>a, <1>SameHolders
    <3>2. \A v \in Writers : wpc'[v] \in {"swap", "open", "commit"} =>
               wpc[v] \in {"swap", "open", "commit"} \/ epoch' = epoch + 1
        BY <2>a DEF WriterTypes
    <3> QED BY <1>0, <1>r, <2>a, <3>1, <3>2, <1>SameEntries
  <2>1. CASE Begin(w)
    <3>1. CASE epoch' = epoch + 1 /\ wpc' = [wpc EXCEPT ![w] = "swap"]
        BY <2>1, <2>a, <3>1 DEF Begin, fifo, Reserving
    <3>2. CASE wpc' = [wpc EXCEPT ![w] = "cancel"]
        BY <2>1, <2>a, <3>2 DEF Begin, fifo, Reserving
    <3> QED BY <2>1, <3>1, <3>2 DEF Begin, WGoto
  <2>2. CASE Cancel(w)
    <3>1. /\ wpc[w] \in {"reserved", "cancel"} /\ wpc' = [wpc EXCEPT ![w] = "idle"]
          /\ reserved' = reserved - 1 /\ UNCHANGED <<queue, pending, front, epoch>>
        BY <2>2 DEF Cancel, WGoto
    <3>2. wpc[w] \in Reserving /\ "idle" \notin Reserving
        BY <3>1 DEF Reserving
    <3>3. Cardinality(Holders') = Cardinality(Holders) - 1
        BY <3>1, <3>2, <1>OneHolder
    <3>4. \A v \in Writers : wpc'[v] \in {"swap", "open", "commit"} =>
               wpc[v] \in {"swap", "open", "commit"}
        BY <3>1 DEF WriterTypes
    <3>5. reserved' \in Int /\ reserved' = Cardinality(Holders') /\ Len(queue) + reserved' <= Capacity
      <4>1. queue \in Seq(Objects \X Nat) /\ Len(queue) \in Nat /\ Capacity \in Nat
        BY SMTT(30), Z3T(30), RcuAssumption DEF FifoInv
      <4> QED BY SMTT(30), Z3T(30), <1>r, <3>1, <3>3, <4>1
    <3> QED BY <1>0, <3>1, <3>4, <3>5, <1>SameEntries
  <2>3. CASE Swap(w) \/ Open(w)
    BY <2>3, <2>a DEF Swap, Open, fifo, Reserving, WGoto
  <2>4. CASE Commit(w)
    BY <2>4, <1>CommitFifo
  <2>5. CASE Arm(w) \/ Armed(w)
    <3>1. /\ wpc[w] \in {"arm", "grace"} /\ UNCHANGED <<queue, pending, front, reserved>>
          /\ \E l \in {"idle", "grace"} : wpc' = [wpc EXCEPT ![w] = l]
        BY <2>5 DEF Arm, Armed, fifo, WGoto
    <3> QED BY <2>a, <3>1 DEF Reserving
  <2>6. CASE FillStore(w) \/ FillOpen(w)
    BY <2>6, <2>a DEF FillStore, FillOpen, fifo, Reserving, WGoto
  <2>7. CASE \E new \in Unborn : Fill(w, new)
    BY <2>7, <2>a DEF Fill, fifo, Reserving, WGoto
  <2>8. CASE Publish(w) \/ Clear(w)
    <3>1. /\ wpc[w] = "idle" /\ wpc' = [wpc EXCEPT ![w] = "reserved"] /\ Room
          /\ reserved' = reserved + 1 /\ UNCHANGED <<queue, pending, front, epoch>>
        BY <2>8 DEF Publish, Clear, Reserve, WGoto
    <3>2. wpc[w] \notin Reserving /\ "reserved" \in Reserving
        BY <3>1 DEF Reserving
    <3>3. Cardinality(Holders') = Cardinality(Holders) + 1
        BY <3>1, <3>2, <1>OneHolder
    <3>4. \A v \in Writers : wpc'[v] \in {"swap", "open", "commit"} =>
               wpc[v] \in {"swap", "open", "commit"}
        BY <3>1 DEF WriterTypes
    <3>5. reserved' \in Int /\ reserved' = Cardinality(Holders') /\ Len(queue) + reserved' <= Capacity
      <4>1. queue \in Seq(Objects \X Nat) /\ Len(queue) \in Nat /\ Capacity \in Nat
        BY SMTT(30), Z3T(30), RcuAssumption DEF FifoInv
      <4> QED BY SMTT(30), Z3T(30), <1>r, <3>1, <3>3, <4>1 DEF Room
    <3> QED BY <1>0, <3>1, <3>4, <3>5, <1>SameEntries
  <2>9. CASE Scan(w)
    BY <1>s, <2>9 DEF Scan, fifo, wlocal
  <2> QED BY <1>1, <2>1, <2>2, <2>3, <2>4, <2>5, <2>6, <2>7, <2>8, <2>9
             DEF WriterStep, Write
<1>2. ASSUME NEW r \in Readers, ReaderStep(r) PROVE FifoInv'
    BY <1>2, <1>s, ReaderFrame
<1>3. CASE Reclaim
  <2>0. UNCHANGED <<reserved, epoch, wpc>>
    BY <1>3, DrainFrame
  <2>1. CASE Drain \/ DrainFront \/ DrainBlocked \/ DrainRearm \/ DrainRecheck
    BY <1>s, <2>0, <2>1
       DEF Drain, DrainFront, DrainBlocked, DrainRearm, DrainRecheck
  <2>2. CASE DrainPop
    BY <1>s, <2>0, <2>2, <1>PopFifo DEF DrainPop, GraceInv
  <2>3. CASE DrainFinal
    <3>1. CASE queue = <<>>
      <4>1. front = 0 /\ front' = 0 /\ pending' = FALSE /\ queue' = queue
        BY <2>3, <3>1 DEF DrainFinal, FifoInv, FrontEpoch
      <4>2. Holders' = Holders
        BY <2>0 DEF Holders
      <4> QED BY <2>0, <3>1, <4>1, <4>2 DEF FifoInv
    <3>2. CASE queue # <<>>
        BY <1>s, <2>0, <2>3, <3>2 DEF DrainFinal
    <3> QED BY <3>1, <3>2
  <2>4. CASE Scan(Drainer)
    BY <1>s, <2>4 DEF Scan, fifo, wlocal
  <2> QED BY <1>3, <2>1, <2>2, <2>3, <2>4 DEF Reclaim
<1>4. CASE (\E c \in Cpus : CpuStep(c)) \/ UNCHANGED vars
    BY <1>4, <1>s, CpuFrame DEF vars, fifo, wlocal
<1> QED BY <1>1, <1>2, <1>3, <1>4, Steps

-----------------------------------------------------------------------------
(* Reference counts.                                                        *)

\* The owners of an object can be counted.
LEMMA OwnersFinite ==
    ASSUME NEW o PROVE IsFiniteSet(Owners(o)) /\ Cardinality(Owners(o)) \in Nat
<1>1. IsFiniteSet({"slot", "fifo"} \X {0})
  <2>1. IsFiniteSet({0}) /\ IsFiniteSet({"slot"}) /\ IsFiniteSet({"slot"} \cup {"fifo"})
    BY FS_Singleton, FS_AddElement
  <2>2. {"slot"} \cup {"fifo"} = {"slot", "fifo"}
    OBVIOUS
  <2> QED BY <2>1, <2>2, FS_Product
<1>2. IsFiniteSet({"expect", "second", "fresh"} \X Writers)
  <2>1. /\ IsFiniteSet({"expect"}) /\ IsFiniteSet({"expect"} \cup {"second"})
        /\ IsFiniteSet(({"expect"} \cup {"second"}) \cup {"fresh"})
    BY FS_Singleton, FS_AddElement
  <2>2. ({"expect"} \cup {"second"}) \cup {"fresh"} = {"expect", "second", "fresh"}
    OBVIOUS
  <2> QED BY <2>1, <2>2, FS_Product, RcuAssumption
<1>3. IsFiniteSet({"held"} \X Readers)
  <2>1. IsFiniteSet({"task"}) /\ IsFiniteSet({"irq"}) /\ IsFiniteSet({"held"})
    BY FS_Singleton
  <2>2. IsFiniteSet(Cpus) /\ IsFiniteSet(Interrupts)
    BY RcuAssumption, FS_Subset
  <2>3. IsFiniteSet(Cpus \X {"task"}) /\ IsFiniteSet(Interrupts \X {"irq"})
    BY <2>1, <2>2, FS_Product
  <2>4. IsFiniteSet(Readers)
    BY <2>3, FS_Union DEF Readers
  <2> QED BY <2>1, <2>4, FS_Product
<1>4. IsFiniteSet(Tokens)
    BY <1>1, <1>2, <1>3, FS_Union DEF Tokens
<1>5. Owners(o) \in SUBSET Tokens
    BY DEF Owners
<1> QED BY <1>4, <1>5, FS_Subset, FS_CardinalityType

\* One owner more.
LEMMA OneMore ==
    ASSUME NEW o, NEW t, Owners(o)' = Owners(o) \cup {t}, t \notin Owners(o)
    PROVE  Cardinality(Owners(o)') = Cardinality(Owners(o)) + 1
    BY OwnersFinite, FS_AddElement

\* One owner less.
LEMMA OneLess ==
    ASSUME NEW o, NEW t, Owners(o)' = Owners(o) \ {t}, t \in Owners(o)
    PROVE  Cardinality(Owners(o)') = Cardinality(Owners(o)) - 1
    BY OwnersFinite, FS_RemoveElement

\* One owner in the place of another.
LEMMA OneMoved ==
    ASSUME NEW o, NEW t, NEW u, Owners(o)' = (Owners(o) \ {t}) \cup {u},
           t \in Owners(o), u \notin Owners(o)
    PROVE  Cardinality(Owners(o)') = Cardinality(Owners(o))
<1> DEFINE S == Owners(o) \ {t}
<1>1. IsFiniteSet(S) /\ Cardinality(S) = Cardinality(Owners(o)) - 1
    BY OwnersFinite, FS_RemoveElement
<1>2. Cardinality(S \cup {u}) = Cardinality(S) + 1
    BY <1>1, FS_AddElement
<1> QED BY SMTT(30), Z3T(30), <1>1, <1>2, OwnersFinite

\* The kinds of owner.
LEMMA TokenShape ==
    ASSUME NEW t \in Tokens
    PROVE  /\ t = <<t[1], t[2]>>
           /\ \/ t = <<"slot", 0>> \/ t = <<"fifo", 0>>
              \/ t[1] \in {"expect", "second", "fresh"} /\ t[2] \in Writers
              \/ t[1] = "held" /\ t[2] \in Readers
<1>1. CASE t \in {"slot", "fifo"} \X {0}
    BY SMTT(30), Z3T(30), <1>1
<1>2. CASE t \in {"expect", "second", "fresh"} \X Writers
    BY SMTT(30), Z3T(30), <1>2
<1>3. CASE t \in {"held"} \X Readers
    BY SMTT(30), Z3T(30), <1>3
<1> QED BY <1>1, <1>2, <1>3 DEF Tokens

\* A step's effect on an object's owners, kind by kind.
LEMMA OwnersChange ==
    ASSUME NEW o, NEW Plus \in SUBSET Tokens, NEW Minus,
           ptr' = o <=> (ptr = o /\ <<"slot", 0>> \notin Minus) \/ <<"slot", 0>> \in Plus,
           Queued(o)' <=> (Queued(o) /\ <<"fifo", 0>> \notin Minus) \/ <<"fifo", 0>> \in Plus,
           \A w \in Writers : ExpectedBy(w, o)' <=>
               (ExpectedBy(w, o) /\ <<"expect", w>> \notin Minus) \/ <<"expect", w>> \in Plus,
           \A w \in Writers : SwappedBy(w, o)' <=>
               (SwappedBy(w, o) /\ <<"second", w>> \notin Minus) \/ <<"second", w>> \in Plus,
           \A w \in Writers : PrivateTo(w, o)' <=>
               (PrivateTo(w, o) /\ <<"fresh", w>> \notin Minus) \/ <<"fresh", w>> \in Plus,
           \A r \in Readers : HeldBy(r, o)' <=>
               (HeldBy(r, o) /\ <<"held", r>> \notin Minus) \/ <<"held", r>> \in Plus
    PROVE  Owners(o)' = (Owners(o) \ Minus) \cup Plus
<1>1. ASSUME NEW t \in Tokens
      PROVE  Owns(t, o)' <=> (Owns(t, o) /\ t \notin Minus) \/ t \in Plus
  <2>0. t = <<t[1], t[2]>>
    BY TokenShape
  <2>1. CASE t = <<"slot", 0>>
    BY <2>1 DEF Owns
  <2>2. CASE t = <<"fifo", 0>>
    BY <2>2 DEF Owns
  <2>3. CASE t[1] = "expect" /\ t[2] \in Writers
    BY <2>0, <2>3 DEF Owns
  <2>4. CASE t[1] = "second" /\ t[2] \in Writers
    BY <2>0, <2>4 DEF Owns
  <2>5. CASE t[1] = "fresh" /\ t[2] \in Writers
    BY <2>0, <2>5 DEF Owns
  <2>6. CASE t[1] = "held" /\ t[2] \in Readers
    BY <2>0, <2>6 DEF Owns
  <2> QED BY <2>1, <2>2, <2>3, <2>4, <2>5, <2>6, TokenShape
<1> QED BY <1>1 DEF Owners

\* A step that moves no owner of an object leaves its owners.
LEMMA SameOwners ==
    ASSUME NEW o, ptr' = o <=> ptr = o, Queued(o)' <=> Queued(o),
           \A w \in Writers : /\ ExpectedBy(w, o)' <=> ExpectedBy(w, o)
                              /\ SwappedBy(w, o)' <=> SwappedBy(w, o)
                              /\ PrivateTo(w, o)' <=> PrivateTo(w, o),
           \A r \in Readers : HeldBy(r, o)' <=> HeldBy(r, o)
    PROVE  Owners(o)' = Owners(o)
<1>1. Owners(o)' = (Owners(o) \ {}) \cup {}
  <2> DEFINE E == {}
  <2>1. E \in SUBSET Tokens /\ \A x : x \notin E
    OBVIOUS
  <2> HIDE DEF E
  <2>2. Owners(o)' = (Owners(o) \ E) \cup E
    BY <2>1, OwnersChange
  <2> QED BY <2>2 DEF E
<1> QED BY <1>1

\* A reader's step changes the owners of an object only by its own snapshot.
LEMMA OwnersByReader ==
    ASSUME ReaderTypes, WriterTypes, NEW r \in Readers, ReaderStep(r), NEW o
    PROVE  /\ (HeldBy(r, o)' <=> HeldBy(r, o)) => Owners(o)' = Owners(o)
           /\ HeldBy(r, o)' /\ ~HeldBy(r, o) =>
                 Cardinality(Owners(o)') = Cardinality(Owners(o)) + 1
           /\ ~HeldBy(r, o)' /\ HeldBy(r, o) =>
                 Cardinality(Owners(o)') = Cardinality(Owners(o)) - 1
<1>0. UNCHANGED <<ptr, queue, wpc, expect, fresh>> /\ Local(r)
    BY ReaderFrame, ReaderLocal
<1>1. (ptr' = o <=> ptr = o) /\ (Queued(o)' <=> Queued(o))
    BY <1>0 DEF Queued
<1>2. \A w \in Writers : /\ ExpectedBy(w, o)' <=> ExpectedBy(w, o)
                         /\ SwappedBy(w, o)' <=> SwappedBy(w, o)
                         /\ PrivateTo(w, o)' <=> PrivateTo(w, o)
    BY <1>0 DEF ExpectedBy, SwappedBy, PrivateTo
<1>3. \A s \in Readers : s # r => (HeldBy(s, o)' <=> HeldBy(s, o))
    BY <1>0 DEF HeldBy, Local
<1>4. CASE HeldBy(r, o)' <=> HeldBy(r, o)
  <2>1. \A s \in Readers : HeldBy(s, o)' <=> HeldBy(s, o)
    BY <1>3, <1>4
  <2>2. Owners(o)' = Owners(o)
    BY <1>1, <1>2, <2>1, SameOwners
  <2> QED BY <1>4, <2>2
<1> DEFINE t == <<"held", r>>  E == {}  T == {t}
<1>5. T \in SUBSET Tokens /\ E \in SUBSET Tokens /\ \A x : x \notin E /\ (x \in T <=> x = t)
    BY SMTT(30), Z3T(30) DEF Tokens
<1>6. /\ <<"slot", 0>> \notin T /\ <<"fifo", 0>> \notin T
      /\ \A w \in Writers : /\ <<"expect", w>> \notin T /\ <<"second", w>> \notin T
                            /\ <<"fresh", w>> \notin T
      /\ \A s \in Readers : <<"held", s>> \in T <=> s = r
    OBVIOUS
<1>7. t \in Owners(o) <=> HeldBy(r, o)
  <2>1. t \in Tokens
    BY DEF Tokens
  <2> QED BY <2>1 DEF Owners, Owns
<1> HIDE DEF E, T
<1>8. CASE HeldBy(r, o)' /\ ~HeldBy(r, o)
  <2>1. \A s \in Readers : HeldBy(s, o)' <=>
            (HeldBy(s, o) /\ <<"held", s>> \notin E) \/ <<"held", s>> \in T
    BY <1>3, <1>5, <1>6, <1>8
  <2>2. Owners(o)' = (Owners(o) \ E) \cup T
    BY <1>1, <1>2, <1>5, <1>6, <2>1, OwnersChange
  <2>3. Owners(o)' = Owners(o) \cup {t}
    BY <2>2 DEF E, T
  <2> HIDE DEF t
  <2>4. Cardinality(Owners(o)') = Cardinality(Owners(o)) + 1
    BY <1>7, <1>8, <2>3, OneMore
  <2> QED BY <1>8, <2>4
<1>9. CASE ~HeldBy(r, o)' /\ HeldBy(r, o)
  <2>1. \A s \in Readers : HeldBy(s, o)' <=>
            (HeldBy(s, o) /\ <<"held", s>> \notin T) \/ <<"held", s>> \in E
    BY <1>3, <1>5, <1>6, <1>9
  <2>2. Owners(o)' = (Owners(o) \ T) \cup E
    BY <1>1, <1>2, <1>5, <1>6, <2>1, OwnersChange
  <2>3. Owners(o)' = Owners(o) \ {t}
    BY <2>2 DEF E, T
  <2> HIDE DEF t
  <2>4. Cardinality(Owners(o)') = Cardinality(Owners(o)) - 1
    BY <1>7, <1>9, <2>3, OneLess
  <2> QED BY <1>9, <2>4
<1> QED BY <1>4, <1>8, <1>9

\* A snapshot is one more owner of its object, until the caller drops it.
LEMMA CountByReader ==
    ASSUME ReaderTypes, WriterTypes, HeldInv, CountInv, NEW r \in Readers, ReaderStep(r)
    PROVE  CountInv'
<1>1. count \in [Objects -> Int] /\ \A o \in Objects : count[o] = Cardinality(Owners(o))
    BY DEF CountInv
<1>2. ASSUME UNCHANGED count, \A o \in Objects : HeldBy(r, o)' <=> HeldBy(r, o) PROVE CountInv'
  <2>1. ASSUME NEW o \in Objects PROVE count'[o] = Cardinality(Owners(o)')
    <3>1. Owners(o)' = Owners(o)
        BY <1>2, OwnersByReader
    <3> QED BY <1>1, <1>2, <3>1
  <2> QED BY <1>1, <1>2, <2>1 DEF CountInv
<1> USE DEF ReaderTypes, RGoto, At
<1>4. CASE Load(r) \/ IsEmpty(r) \/ EmptyBefore(r) \/ EmptyPeek(r) \/ EmptyAfter(r)
    BY <1>2, <1>4 DEF Load, IsEmpty, EmptyBefore, EmptyPeek, EmptyAfter, HeldBy
<1>5. CASE Admit(r)
    BY <1>2, <1>5 DEF Admit, HeldBy
<1>6. CASE LoadEpoch(r) \/ StoreMarker(r) \/ Verify(r) \/ Undo(r) \/ Unadmit(r)
    BY <1>2, <1>6 DEF LoadEpoch, StoreMarker, Verify, Undo, Unadmit, HeldBy
<1>7. CASE LoadPointer(r)
    BY <1>2, <1>7, RcuAssumption DEF LoadPointer, HeldBy
<1>8. CASE Clone(r) /\ ~Stable(r)
    BY <1>2, <1>8, RcuAssumption DEF Clone, HeldBy
<1>9. CASE Exit(r)
    BY <1>2, <1>9 DEF Exit, HeldBy
<1>10. CASE Depart(r) /\ held[r] = Null
  <2>1. rpc'[r] \in {"note", "admit", "idle"} /\ UNCHANGED count
    BY <1>10 DEF Depart, Finished
  <2> QED BY <1>2, <1>10, <2>1, RcuAssumption DEF HeldBy
<1>11. CASE Note(r) \/ NoteGrace(r)
  <2>1. /\ rpc[r] \in {"note", "grace"} /\ rpc'[r] \in {"grace", "admit", "idle"}
        /\ UNCHANGED count
    BY <1>11 DEF Note, NoteGrace, Finished
  <2> QED BY <1>2, <2>1 DEF HeldBy
<1>12. CASE Scan(r)
    BY <1>2, <1>12 DEF Scan, rlocal, HeldBy
<1>13. CASE Clone(r) /\ Stable(r)
  <2>1. /\ rpc[r] = "clone" /\ rpc'[r] = "exit" /\ held' = held
        /\ count' = [count EXCEPT ![held[r]] = @ + 1]
    BY <1>13 DEF Clone, Incr
  <2>2. PICK h \in Objects : held[r] = h
    BY <2>1 DEF HeldInv
  <2>3. ASSUME NEW o \in Objects PROVE count'[o] = Cardinality(Owners(o)')
    <3>1. CASE o = h
      <4>1. HeldBy(r, o)' /\ ~HeldBy(r, o)
        BY <2>1, <2>2, <3>1 DEF HeldBy
      <4>2. Cardinality(Owners(o)') = Cardinality(Owners(o)) + 1
        BY <4>1, OwnersByReader
      <4> QED BY <1>1, <2>1, <2>2, <3>1, <4>2
    <3>2. CASE o # h
      <4>1. HeldBy(r, o)' <=> HeldBy(r, o)
        BY <2>1, <2>2, <3>2 DEF HeldBy
      <4>2. Owners(o)' = Owners(o)
        BY <4>1, OwnersByReader
      <4> QED BY <1>1, <2>1, <2>2, <3>2, <4>2
    <3> QED BY <3>1, <3>2
  <2>4. count' \in [Objects -> Int]
    BY SMTT(30), Z3T(30), <1>1, <2>1, <2>2
  <2> QED BY <2>3, <2>4 DEF CountInv
<1>14. CASE Depart(r) /\ held[r] # Null
  <2>1. /\ rpc[r] = "depart" /\ rpc'[r] \in {"note", "admit", "idle"}
        /\ count' = [count EXCEPT ![held[r]] = @ - 1]
    BY <1>14 DEF Depart, Decr, Finished
  <2>2. PICK h \in Objects : held[r] = h
    BY <1>14
  <2>3. ASSUME NEW o \in Objects PROVE count'[o] = Cardinality(Owners(o)')
    <3>1. CASE o = h
      <4>1. ~HeldBy(r, o)' /\ HeldBy(r, o)
        BY <2>1, <2>2, <3>1 DEF HeldBy
      <4>2. Cardinality(Owners(o)') = Cardinality(Owners(o)) - 1
        BY <4>1, OwnersByReader
      <4> QED BY <1>1, <2>1, <2>2, <3>1, <4>2
    <3>2. CASE o # h
      <4>1. HeldBy(r, o)' <=> HeldBy(r, o)
        BY <2>1, <2>2, <3>2 DEF HeldBy
      <4>2. Owners(o)' = Owners(o)
        BY <4>1, OwnersByReader
      <4> QED BY <1>1, <2>1, <2>2, <3>2, <4>2
    <3> QED BY <3>1, <3>2
  <2>4. count' \in [Objects -> Int]
    BY SMTT(30), Z3T(30), <1>1, <2>1, <2>2
  <2> QED BY <2>3, <2>4 DEF CountInv
<1> QED BY <1>4, <1>5, <1>6, <1>7, <1>8, <1>9, <1>10, <1>11, <1>12, <1>13, <1>14
        DEF ReaderStep, Read

\* The owners a writer's step can change: the slot, the FIFO and its own.
Mine(w) == {<<"slot", 0>>, <<"fifo", 0>>, <<"expect", w>>, <<"second", w>>, <<"fresh", w>>}

\* What each of them says.
LEMMA MineOwns ==
    ASSUME NEW w \in Writers, NEW o
    PROVE  /\ Mine(w) \subseteq Tokens
           /\ Owns(<<"slot", 0>>, o) <=> ptr = o
           /\ Owns(<<"fifo", 0>>, o) <=> Queued(o)
           /\ Owns(<<"expect", w>>, o) <=> ExpectedBy(w, o)
           /\ Owns(<<"second", w>>, o) <=> SwappedBy(w, o)
           /\ Owns(<<"fresh", w>>, o) <=> PrivateTo(w, o)
           /\ Owns(<<"slot", 0>>, o)' <=> ptr' = o
           /\ Owns(<<"fifo", 0>>, o)' <=> Queued(o)'
           /\ Owns(<<"expect", w>>, o)' <=> ExpectedBy(w, o)'
           /\ Owns(<<"second", w>>, o)' <=> SwappedBy(w, o)'
           /\ Owns(<<"fresh", w>>, o)' <=> PrivateTo(w, o)'
<1>1. Mine(w) \subseteq Tokens
    BY SMTT(30), Z3T(30) DEF Mine, Tokens
<1> QED BY <1>1 DEF Owns

\* A writer's step leaves the owners that are not its own.
LEMMA OwnersByWriter ==
    ASSUME WriterTypes, NEW w \in Writers, WriterStep(w), NEW o, NEW t \in Tokens, t \notin Mine(w)
    PROVE  Owns(t, o)' <=> Owns(t, o)
<1>0. UNCHANGED <<rpc, held>>
    BY WriterFrame
<1>1. t = <<t[1], t[2]>>
    BY TokenShape
<1>2. CASE t = <<"slot", 0>> \/ t = <<"fifo", 0>>
    BY <1>2 DEF Mine
<1>3. CASE t[1] \in {"expect", "second", "fresh"} /\ t[2] \in Writers
  <2>1. t[2] # w
    BY <1>1, <1>3 DEF Mine
  <2>2. PICK v \in Writers : t[2] = v /\ v # w
    BY <1>3, <2>1
  <2>3. wpc'[v] = wpc[v] /\ expect'[v] = expect[v] /\ fresh'[v] = fresh[v]
    BY <2>2, WriterLocal
  <2> QED BY <1>3, <2>2, <2>3 DEF Owns, ExpectedBy, SwappedBy, PrivateTo
<1>4. CASE t[1] = "held" /\ t[2] \in Readers
    BY <1>0, <1>4 DEF Owns, HeldBy
<1> QED BY <1>2, <1>3, <1>4, TokenShape

\* A writer's step that moves none of its owners of an object keeps their number.
LEMMA WriterKeepsOwners ==
    ASSUME WriterTypes, NEW w \in Writers, WriterStep(w), NEW o,
           \A u \in Mine(w) : Owns(u, o)' <=> Owns(u, o)
    PROVE  Cardinality(Owners(o)') = Cardinality(Owners(o))
<1>1. \A u \in Tokens : Owns(u, o)' <=> Owns(u, o)
    BY OwnersByWriter
<1>2. Owners(o)' = Owners(o)
    BY <1>1 DEF Owners
<1> QED BY <1>2

\* One that takes an owner adds one.
LEMMA WriterGainsOwner ==
    ASSUME WriterTypes, NEW w \in Writers, WriterStep(w), NEW o, NEW t \in Mine(w),
           Owns(t, o)', ~Owns(t, o), \A u \in Mine(w) \ {t} : Owns(u, o)' <=> Owns(u, o)
    PROVE  Cardinality(Owners(o)') = Cardinality(Owners(o)) + 1
<1>1. \A u \in Tokens \ {t} : Owns(u, o)' <=> Owns(u, o)
    BY OwnersByWriter
<1>2. t \in Tokens
    BY MineOwns
<1>3. Owners(o)' = Owners(o) \cup {t} /\ t \notin Owners(o)
    BY <1>1, <1>2 DEF Owners
<1> QED BY <1>3, OneMore

\* One that drops an owner takes one away.
LEMMA WriterDropsOwner ==
    ASSUME WriterTypes, NEW w \in Writers, WriterStep(w), NEW o, NEW t \in Mine(w),
           ~Owns(t, o)', Owns(t, o), \A u \in Mine(w) \ {t} : Owns(u, o)' <=> Owns(u, o)
    PROVE  Cardinality(Owners(o)') = Cardinality(Owners(o)) - 1
<1>1. \A u \in Tokens \ {t} : Owns(u, o)' <=> Owns(u, o)
    BY OwnersByWriter
<1>2. t \in Tokens
    BY MineOwns
<1>3. Owners(o)' = Owners(o) \ {t} /\ t \in Owners(o)
    BY <1>1, <1>2 DEF Owners
<1> QED BY <1>3, OneLess

\* One that passes an owner on keeps the number.
LEMMA WriterMovesOwner ==
    ASSUME WriterTypes, NEW w \in Writers, WriterStep(w), NEW o,
           NEW t \in Mine(w), NEW s \in Mine(w), s # t,
           ~Owns(t, o)', Owns(t, o), Owns(s, o)', ~Owns(s, o),
           \A u \in Mine(w) \ {t, s} : Owns(u, o)' <=> Owns(u, o)
    PROVE  Cardinality(Owners(o)') = Cardinality(Owners(o))
<1>1. \A u \in Tokens \ {t, s} : Owns(u, o)' <=> Owns(u, o)
    BY OwnersByWriter
<1>2. t \in Tokens /\ s \in Tokens
    BY MineOwns
<1>3. Owners(o)' = (Owners(o) \ {t}) \cup {s} /\ t \in Owners(o) /\ s \notin Owners(o)
    BY <1>1, <1>2 DEF Owners
<1> QED BY <1>3, OneMoved

\* One that drops two takes two away.
LEMMA WriterDropsBoth ==
    ASSUME WriterTypes, NEW w \in Writers, WriterStep(w), NEW o,
           NEW t \in Mine(w), NEW s \in Mine(w), s # t,
           ~Owns(t, o)', Owns(t, o), ~Owns(s, o)', Owns(s, o),
           \A u \in Mine(w) \ {t, s} : Owns(u, o)' <=> Owns(u, o)
    PROVE  Cardinality(Owners(o)') = Cardinality(Owners(o)) - 2
<1>1. \A u \in Tokens \ {t, s} : Owns(u, o)' <=> Owns(u, o)
    BY OwnersByWriter
<1>2. t \in Tokens /\ s \in Tokens
    BY MineOwns
<1>3. Owners(o)' = (Owners(o) \ {t}) \ {s} /\ t \in Owners(o) /\ s \in Owners(o)
    BY <1>1, <1>2 DEF Owners
<1> DEFINE S == Owners(o) \ {t}
<1>4. IsFiniteSet(S) /\ Cardinality(S) = Cardinality(Owners(o)) - 1 /\ s \in S
    BY <1>3, OwnersFinite, FS_RemoveElement
<1>5. Cardinality(S \ {s}) = Cardinality(S) - 1
    BY <1>4, FS_RemoveElement
<1> QED BY SMTT(30), Z3T(30), <1>3, <1>4, <1>5, OwnersFinite

\* Steps of a writer that hand over no owner.
LEMMA CountKeptByWriter ==
    ASSUME WriterTypes, CountInv, NEW w \in Writers,
           Begin(w) \/ Open(w) \/ Armed(w) \/ Scan(w) \/ FillOpen(w)
    PROVE  CountInv'
<1>0. WriterStep(w)
    BY DEF WriterStep, Write
<1>1. /\ UNCHANGED <<count, ptr, queue>> /\ expect'[w] = expect[w]
      /\ wpc'[w] \in Expecting <=> wpc[w] \in Expecting
      /\ wpc'[w] \in Unlinked \cup {"arm"} <=> wpc[w] \in Unlinked \cup {"arm"}
      /\ wpc'[w] \in Private <=> wpc[w] \in Private
      /\ wpc[w] \in Private => fresh'[w] = fresh[w]
  <2> USE DEF WriterTypes, WGoto, fifo, Expecting, Reserving, Unlinked, Private
  <2>1. CASE Begin(w)
    BY <2>1 DEF Begin
  <2>2. CASE Open(w)
    BY <2>2 DEF Open
  <2>3. CASE Armed(w)
    BY <2>3 DEF Armed
  <2>4. CASE Scan(w)
    BY <2>4 DEF Scan, wlocal
  <2>5. CASE FillOpen(w)
    BY <2>5 DEF FillOpen
  <2> QED BY <2>1, <2>2, <2>3, <2>4, <2>5
<1>2. ASSUME NEW o \in Objects PROVE Cardinality(Owners(o)') = Cardinality(Owners(o))
  <2>1. /\ (ptr' = o <=> ptr = o) /\ (Queued(o)' <=> Queued(o))
        /\ ExpectedBy(w, o)' <=> ExpectedBy(w, o)
        /\ SwappedBy(w, o)' <=> SwappedBy(w, o)
        /\ PrivateTo(w, o)' <=> PrivateTo(w, o)
    BY <1>1 DEF Queued, ExpectedBy, SwappedBy, PrivateTo
  <2>2. \A u \in Mine(w) : Owns(u, o)' <=> Owns(u, o)
    BY <2>1, MineOwns DEF Mine
  <2> QED BY <1>0, <2>2, WriterKeepsOwners
<1> QED BY <1>1, <1>2 DEF CountInv

\* The swap: the slot's owner of the old object passes to the writer, and the
\* writer's owner of the new object to the slot.
LEMMA CountBySwap ==
    ASSUME WriterTypes, WriterInv, PlaceInv, CountInv, NEW w \in Writers, Swap(w) \/ FillStore(w)
    PROVE  CountInv'
<1>0. WriterStep(w)
    BY DEF WriterStep, Write
<1>1. /\ UNCHANGED <<count, queue, expect, fresh>> /\ ptr' = fresh[w]
      /\ \/ wpc[w] = "swap" /\ wpc'[w] = "open" /\ expect[w] = ptr
         \/ wpc[w] = "store" /\ wpc'[w] = "filled" /\ ptr = Null
  <2>1. CASE Swap(w)
    BY <2>1 DEF Swap, WriterTypes, WriterInv, WGoto, fifo
  <2>2. CASE FillStore(w)
    BY <2>2 DEF FillStore, WriterTypes, WriterInv, WGoto, fifo
  <2> QED BY <2>1, <2>2
<1>2. fresh[w] # Null => fresh[w] # ptr
    BY <1>1 DEF PlaceInv, Private
<1>3. ASSUME NEW o \in Objects PROVE Cardinality(Owners(o)') = Cardinality(Owners(o))
  <2>0. o # Null
    BY RcuAssumption
  <2>1. /\ (Queued(o)' <=> Queued(o)) /\ (ExpectedBy(w, o)' <=> ExpectedBy(w, o))
        /\ ~PrivateTo(w, o)' /\ (PrivateTo(w, o) <=> fresh[w] = o)
        /\ ~SwappedBy(w, o) /\ (SwappedBy(w, o)' <=> wpc[w] = "swap" /\ expect[w] = o)
    BY <1>1
       DEF Queued, ExpectedBy, SwappedBy, PrivateTo, Private, Expecting, Reserving,
           Unlinked
  <2>2. CASE o = fresh[w]
    <3>1. /\ ~Owns(<<"fresh", w>>, o)' /\ Owns(<<"fresh", w>>, o)
          /\ Owns(<<"slot", 0>>, o)' /\ ~Owns(<<"slot", 0>>, o)
          /\ \A u \in Mine(w) \ {<<"fresh", w>>, <<"slot", 0>>} : Owns(u, o)' <=> Owns(u, o)
        BY <1>1, <1>2, <2>0, <2>1, <2>2, MineOwns DEF Mine
    <3>2. <<"fresh", w>> \in Mine(w) /\ <<"slot", 0>> \in Mine(w) /\ <<"fresh", w>> # <<"slot", 0>>
        BY DEF Mine
    <3> QED BY <1>0, <3>1, <3>2, WriterMovesOwner
  <2>3. CASE o = ptr
    <3>0. wpc[w] = "swap" /\ expect[w] = o
        BY <1>1, <2>0, <2>3
    <3>1. /\ ~Owns(<<"slot", 0>>, o)' /\ Owns(<<"slot", 0>>, o)
          /\ Owns(<<"second", w>>, o)' /\ ~Owns(<<"second", w>>, o)
          /\ \A u \in Mine(w) \ {<<"slot", 0>>, <<"second", w>>} : Owns(u, o)' <=> Owns(u, o)
        BY <1>1, <1>2, <2>0, <2>1, <2>3, <3>0, MineOwns DEF Mine
    <3>2. <<"second", w>> \in Mine(w) /\ <<"slot", 0>> \in Mine(w) /\ <<"second", w>> # <<"slot", 0>>
        BY DEF Mine
    <3> QED BY <1>0, <3>1, <3>2, WriterMovesOwner
  <2>4. CASE o # fresh[w] /\ o # ptr
    <3>1. \A u \in Mine(w) : Owns(u, o)' <=> Owns(u, o)
        BY <1>1, <2>1, <2>4, MineOwns DEF Mine
    <3> QED BY <1>0, <3>1, WriterKeepsOwners
  <2> QED BY <2>2, <2>3, <2>4
<1> QED BY <1>1, <1>3 DEF CountInv

\* The retirement: the FIFO becomes an owner.
LEMMA CountByCommit ==
    ASSUME WriterTypes, WriterInv, FifoInv, PlaceInv, CountInv, NEW w \in Writers, Commit(w)
    PROVE  CountInv'
<1>0. WriterStep(w)
    BY DEF WriterStep, Write
<1>1. /\ wpc[w] = "commit" /\ wpc'[w] = "arm" /\ UNCHANGED <<ptr, expect, fresh>>
      /\ queue' = Append(queue, <<expect[w], epoch>>) /\ count' = [count EXCEPT ![expect[w]] = @ + 1]
    BY DEF Commit, WriterTypes, WGoto, Incr
<1>2. PICK x \in Objects : expect[w] = x
    BY <1>1 DEF WriterInv, WriterTypes, Expecting, Reserving
<1>3. \A i \in 1 .. Len(queue) : queue[i][1] # x
    BY <1>1, <1>2 DEF PlaceInv, Unlinked
<1>4. /\ Len(queue') = Len(queue) + 1 /\ Len(queue) \in Nat
      /\ \A i \in 1 .. Len(queue) : queue'[i] = queue[i]
      /\ queue'[Len(queue) + 1] = <<x, epoch>>
  <2>1. <<x, epoch>> \in Objects \X Nat
    BY DEF WriterTypes
  <2>2. queue \in Seq(Objects \X Nat)
    BY DEF FifoInv
  <2> QED BY <1>1, <1>2, <2>1, <2>2, Appended
<1>5. ASSUME NEW o PROVE Queued(o)' <=> Queued(o) \/ o = x
  <2>1. ASSUME NEW i \in 1 .. Len(queue'), queue'[i][1] = o PROVE Queued(o) \/ o = x
    <3>1. CASE i = Len(queue) + 1
        BY SMTT(30), Z3T(30), <1>4, <2>1, <3>1
    <3>2. CASE i # Len(queue) + 1
      <4>1. i \in 1 .. Len(queue)
        BY SMTT(30), Z3T(30), <1>4, <3>2
      <4> QED BY <1>4, <2>1, <4>1 DEF Queued
    <3> QED BY <3>1, <3>2
  <2>2. ASSUME NEW i \in 1 .. Len(queue), queue[i][1] = o PROVE Queued(o)'
    <3>1. i \in 1 .. Len(queue') /\ queue'[i][1] = o
        BY SMTT(30), Z3T(30), <1>4, <2>2
    <3> QED BY <3>1 DEF Queued
  <2>3. ASSUME o = x PROVE Queued(o)'
    <3>1. Len(queue) + 1 \in 1 .. Len(queue') /\ queue'[Len(queue) + 1][1] = o
        BY SMTT(30), Z3T(30), <1>4, <2>3
    <3> QED BY <3>1 DEF Queued
  <2> QED BY <2>1, <2>2, <2>3 DEF Queued
<1>6. ASSUME NEW o \in Objects PROVE count'[o] = Cardinality(Owners(o)')
  <2>1. /\ (ptr' = o <=> ptr = o) /\ (ExpectedBy(w, o)' <=> ExpectedBy(w, o))
        /\ (SwappedBy(w, o)' <=> SwappedBy(w, o)) /\ (PrivateTo(w, o)' <=> PrivateTo(w, o))
    BY <1>1
       DEF ExpectedBy, SwappedBy, PrivateTo, Private, Expecting, Reserving, Unlinked
  <2>2. CASE o = x
    <3>1. Queued(o)' /\ ~Queued(o)
        BY <1>3, <1>5, <2>2 DEF Queued
    <3>2. /\ Owns(<<"fifo", 0>>, o)' /\ ~Owns(<<"fifo", 0>>, o)
          /\ \A u \in Mine(w) \ {<<"fifo", 0>>} : Owns(u, o)' <=> Owns(u, o)
        BY <2>1, <3>1, MineOwns DEF Mine
    <3>3. <<"fifo", 0>> \in Mine(w)
        BY DEF Mine
    <3>4. Cardinality(Owners(o)') = Cardinality(Owners(o)) + 1
        BY <1>0, <3>2, <3>3, WriterGainsOwner
    <3> QED BY <1>1, <1>2, <2>2, <3>4 DEF CountInv
  <2>3. CASE o # x
    <3>1. Queued(o)' <=> Queued(o)
        BY <1>5, <2>3
    <3>2. \A u \in Mine(w) : Owns(u, o)' <=> Owns(u, o)
        BY <2>1, <3>1, MineOwns DEF Mine
    <3>3. Cardinality(Owners(o)') = Cardinality(Owners(o))
        BY <1>0, <3>2, WriterKeepsOwners
    <3> QED BY <1>1, <1>2, <2>3, <3>3 DEF CountInv
  <2> QED BY <2>2, <2>3
<1>7. count' \in [Objects -> Int]
    BY SMTT(30), Z3T(30), <1>1, <1>2 DEF CountInv
<1> QED BY <1>6, <1>7 DEF CountInv

\* The caller drops its own owner of the old object and the one publish returned.
LEMMA CountByArm ==
    ASSUME WriterTypes, WriterInv, CountInv, NEW w \in Writers, Arm(w)
    PROVE  CountInv'
<1>0. WriterStep(w)
    BY DEF WriterStep, Write
<1>1. /\ wpc[w] = "arm" /\ wpc'[w] \in {"idle", "grace"} /\ UNCHANGED <<ptr, queue>>
      /\ count' = [count EXCEPT ![expect[w]] = @ - 2]
    BY DEF Arm, WriterTypes, WGoto, fifo
<1>2. PICK x \in Objects : expect[w] = x
    BY <1>1 DEF WriterInv, WriterTypes, Expecting, Reserving
<1>3. ASSUME NEW o \in Objects PROVE count'[o] = Cardinality(Owners(o)')
  <2>1. /\ (ptr' = o <=> ptr = o) /\ (Queued(o)' <=> Queued(o))
        /\ ~ExpectedBy(w, o)' /\ (ExpectedBy(w, o) <=> o = x)
        /\ ~SwappedBy(w, o)' /\ (SwappedBy(w, o) <=> o = x)
        /\ ~PrivateTo(w, o)' /\ ~PrivateTo(w, o)
    BY <1>1, <1>2
       DEF Queued, ExpectedBy, SwappedBy, PrivateTo, Private, Expecting, Reserving,
           Unlinked
  <2>2. CASE o = x
    <3>1. /\ ~Owns(<<"expect", w>>, o)' /\ Owns(<<"expect", w>>, o)
          /\ ~Owns(<<"second", w>>, o)' /\ Owns(<<"second", w>>, o)
          /\ \A u \in Mine(w) \ {<<"expect", w>>, <<"second", w>>} : Owns(u, o)' <=> Owns(u, o)
        BY <2>1, <2>2, MineOwns DEF Mine
    <3>2. <<"expect", w>> \in Mine(w) /\ <<"second", w>> \in Mine(w) /\ <<"expect", w>> # <<"second", w>>
        BY DEF Mine
    <3>3. Cardinality(Owners(o)') = Cardinality(Owners(o)) - 2
        BY <1>0, <3>1, <3>2, WriterDropsBoth
    <3> QED BY <1>1, <1>2, <2>2, <3>3 DEF CountInv
  <2>3. CASE o # x
    <3>2. \A u \in Mine(w) : Owns(u, o)' <=> Owns(u, o)
        BY <2>1, <2>3, MineOwns DEF Mine
    <3>3. Cardinality(Owners(o)') = Cardinality(Owners(o))
        BY <1>0, <3>2, WriterKeepsOwners
    <3> QED BY <1>1, <1>2, <2>3, <3>3 DEF CountInv
  <2> QED BY <2>2, <2>3
<1>4. count' \in [Objects -> Int]
    BY SMTT(30), Z3T(30), <1>1, <1>2 DEF CountInv
<1> QED BY <1>3, <1>4 DEF CountInv

\* A cancelled reservation drops the caller's owners of both objects.
LEMMA CountByCancel ==
    ASSUME WriterTypes, WriterInv, PlaceInv, CountInv, NEW w \in Writers, Cancel(w)
    PROVE  CountInv'
<1>0. WriterStep(w)
    BY DEF WriterStep, Write
<1>1. /\ wpc[w] \in {"reserved", "cancel"} /\ wpc'[w] = "idle" /\ UNCHANGED <<ptr, queue>>
      /\ count' = [o \in Objects |-> IF o \in {expect[w], fresh[w]} THEN count[o] - 1
                                                                    ELSE count[o]]
    BY DEF Cancel, WriterTypes, WGoto
<1>2. expect[w] \in Objects /\ (fresh[w] # Null => expect[w] # fresh[w])
    BY <1>1 DEF WriterInv, PlaceInv, WriterTypes, Expecting, Reserving, Private
<1>3. ASSUME NEW o \in Objects PROVE count'[o] = Cardinality(Owners(o)')
  <2>0. o # Null /\ count[o] = Cardinality(Owners(o))
    BY RcuAssumption DEF CountInv
  <2>1. /\ (ptr' = o <=> ptr = o) /\ (Queued(o)' <=> Queued(o))
        /\ ~ExpectedBy(w, o)' /\ (ExpectedBy(w, o) <=> o = expect[w])
        /\ ~SwappedBy(w, o)' /\ ~SwappedBy(w, o)
        /\ ~PrivateTo(w, o)' /\ (PrivateTo(w, o) <=> o = fresh[w])
    BY <1>1
       DEF Queued, ExpectedBy, SwappedBy, PrivateTo, Private, Expecting, Reserving,
           Unlinked
  <2>2. CASE o = expect[w]
    <3>1. /\ ~Owns(<<"expect", w>>, o)' /\ Owns(<<"expect", w>>, o)
          /\ \A u \in Mine(w) \ {<<"expect", w>>} : Owns(u, o)' <=> Owns(u, o)
        BY <1>2, <2>0, <2>1, <2>2, MineOwns DEF Mine
    <3>2. <<"expect", w>> \in Mine(w)
        BY DEF Mine
    <3>3. Cardinality(Owners(o)') = Cardinality(Owners(o)) - 1
        BY <1>0, <3>1, <3>2, WriterDropsOwner
    <3> QED BY <1>1, <2>0, <2>2, <3>3
  <2>3. CASE o = fresh[w] /\ o # expect[w]
    <3>1. /\ ~Owns(<<"fresh", w>>, o)' /\ Owns(<<"fresh", w>>, o)
          /\ \A u \in Mine(w) \ {<<"fresh", w>>} : Owns(u, o)' <=> Owns(u, o)
        BY <2>1, <2>3, MineOwns DEF Mine
    <3>2. <<"fresh", w>> \in Mine(w)
        BY DEF Mine
    <3>3. Cardinality(Owners(o)') = Cardinality(Owners(o)) - 1
        BY <1>0, <3>1, <3>2, WriterDropsOwner
    <3> QED BY <1>1, <2>0, <2>3, <3>3
  <2>4. CASE o # fresh[w] /\ o # expect[w]
    <3>1. \A u \in Mine(w) : Owns(u, o)' <=> Owns(u, o)
        BY <2>1, <2>4, MineOwns DEF Mine
    <3>2. Cardinality(Owners(o)') = Cardinality(Owners(o))
        BY <1>0, <3>1, WriterKeepsOwners
    <3> QED BY <1>1, <2>0, <2>4, <3>2
  <2> QED BY <2>2, <2>3, <2>4
<1>4. count' \in [Objects -> Int]
    BY SMTT(30), Z3T(30), <1>1 DEF CountInv
<1> QED BY <1>3, <1>4 DEF CountInv

\* Nobody owns an object before it is created.
LEMMA UnbornUnowned ==
    ASSUME PlaceInv, WriterTypes, WriterInv, SnapshotInv, NEW w \in Writers, NEW new \in Unborn
    PROVE  Owners(new) = {} /\ Cardinality(Owners(new)) = 0
<1>0. new \notin born /\ new \in Objects
    BY DEF Unborn
<1>1. /\ new # ptr /\ new # Null
      /\ \A i \in 1 .. Len(queue) : queue[i][1] # new
      /\ \A v \in Writers : wpc[v] \in Expecting => expect[v] # new
      /\ \A v \in Writers : wpc[v] \in Private => fresh[v] # new
    BY NewPlace
<1>2. \A r \in Readers : ~HeldBy(r, new)
    BY <1>0, <1>1 DEF SnapshotInv, HeldBy
<1>3. ~Queued(new)
    BY <1>1 DEF Queued
<1>4. \A v \in Writers : ~ExpectedBy(v, new) /\ ~SwappedBy(v, new) /\ ~PrivateTo(v, new)
    BY <1>1 DEF ExpectedBy, SwappedBy, PrivateTo, Expecting, Reserving, Unlinked
<1>5. ASSUME NEW t \in Tokens PROVE ~Owns(t, new)
  <2>1. CASE t = <<"slot", 0>>
    BY <1>1, <2>1 DEF Owns
  <2>2. CASE t = <<"fifo", 0>>
    BY <1>3, <2>2 DEF Owns
  <2>3. CASE t[1] \in {"expect", "second", "fresh"} /\ t[2] \in Writers
    BY <1>4, <2>3 DEF Owns
  <2>4. CASE t[1] = "held" /\ t[2] \in Readers
    BY <1>2, <2>4 DEF Owns
  <2> QED BY <2>1, <2>2, <2>3, <2>4, TokenShape
<1>6. Owners(new) = {}
    BY <1>5 DEF Owners
<1> QED BY <1>6, FS_EmptySet

\* A reservation owns the object it expects and the one it created.
LEMMA CountByReserve ==
    ASSUME WriterTypes, WriterInv, PlaceInv, SnapshotInv, CountInv, NEW w \in Writers,
           NEW new \in Unborn \cup {Null}, Reserve(w, new), WriterStep(w)
    PROVE  CountInv'
<1>1. /\ wpc[w] = "idle" /\ wpc'[w] = "reserved" /\ UNCHANGED <<ptr, queue>>
      /\ ptr \in Objects /\ expect'[w] = ptr /\ fresh'[w] = new
      /\ count' = [o \in Objects |-> IF o = ptr THEN count[o] + 1
                                     ELSE IF o = new THEN 1 ELSE count[o]]
    BY DEF Reserve, WriterTypes, WGoto
<1>2. ASSUME NEW o \in Objects PROVE count'[o] = Cardinality(Owners(o)')
  <2>0. o # Null /\ count[o] = Cardinality(Owners(o))
    BY RcuAssumption DEF CountInv
  <2>1. /\ (ptr' = o <=> ptr = o) /\ (Queued(o)' <=> Queued(o))
        /\ ~ExpectedBy(w, o) /\ (ExpectedBy(w, o)' <=> o = ptr)
        /\ ~SwappedBy(w, o)' /\ ~SwappedBy(w, o)
        /\ ~PrivateTo(w, o) /\ (PrivateTo(w, o)' <=> o = new)
    BY <1>1
       DEF Queued, ExpectedBy, SwappedBy, PrivateTo, Private, Expecting, Reserving,
           Unlinked
  <2>2. CASE o = ptr
    <3>0. o # new
        BY <2>0, <2>2, NewPlace
    <3>1. /\ Owns(<<"expect", w>>, o)' /\ ~Owns(<<"expect", w>>, o)
          /\ \A u \in Mine(w) \ {<<"expect", w>>} : Owns(u, o)' <=> Owns(u, o)
        BY <2>1, <2>2, <3>0, MineOwns DEF Mine
    <3>2. <<"expect", w>> \in Mine(w)
        BY DEF Mine
    <3>3. Cardinality(Owners(o)') = Cardinality(Owners(o)) + 1
        BY <3>1, <3>2, WriterGainsOwner
    <3> QED BY <1>1, <2>0, <2>2, <3>3
  <2>3. CASE o = new /\ o # ptr
    <3>1. /\ Owns(<<"fresh", w>>, o)' /\ ~Owns(<<"fresh", w>>, o)
          /\ \A u \in Mine(w) \ {<<"fresh", w>>} : Owns(u, o)' <=> Owns(u, o)
        BY <2>1, <2>3, MineOwns DEF Mine
    <3>2. <<"fresh", w>> \in Mine(w)
        BY DEF Mine
    <3>3. Cardinality(Owners(o)') = Cardinality(Owners(o)) + 1
        BY <3>1, <3>2, WriterGainsOwner
    <3>4. Cardinality(Owners(o)) = 0
        BY <2>0, <2>3, UnbornUnowned
    <3>5. count'[o] = 1
        BY <1>1, <2>3
    <3> QED BY SMTT(30), Z3T(30), <3>3, <3>4, <3>5
  <2>4. CASE o # new /\ o # ptr
    <3>1. \A u \in Mine(w) : Owns(u, o)' <=> Owns(u, o)
        BY <2>1, <2>4, MineOwns DEF Mine
    <3>2. Cardinality(Owners(o)') = Cardinality(Owners(o))
        BY <3>1, WriterKeepsOwners
    <3> QED BY <1>1, <2>0, <2>4, <3>2
  <2> QED BY <2>2, <2>3, <2>4
<1>3. count' \in [Objects -> Int]
    BY SMTT(30), Z3T(30), <1>1 DEF CountInv
<1> QED BY <1>2, <1>3 DEF CountInv

\* publish_if_empty owns the object it created until it is stored.
LEMMA CountByFill ==
    ASSUME WriterTypes, WriterInv, PlaceInv, SnapshotInv, CountInv, NEW w \in Writers,
           NEW new \in Unborn, Fill(w, new)
    PROVE  CountInv'
<1>0. WriterStep(w)
    BY DEF WriterStep
<1>1. /\ wpc[w] = "idle" /\ wpc'[w] = "store" /\ UNCHANGED <<ptr, queue, expect>>
      /\ fresh'[w] = new /\ count' = [count EXCEPT ![new] = 1] /\ new \in Objects
    BY DEF Fill, WriterTypes, WGoto, Unborn, fifo
<1>2. ASSUME NEW o \in Objects PROVE count'[o] = Cardinality(Owners(o)')
  <2>1. /\ (ptr' = o <=> ptr = o) /\ (Queued(o)' <=> Queued(o))
        /\ ~ExpectedBy(w, o) /\ ~ExpectedBy(w, o)' /\ ~SwappedBy(w, o)' /\ ~SwappedBy(w, o)
        /\ ~PrivateTo(w, o) /\ (PrivateTo(w, o)' <=> o = new)
    BY <1>1
       DEF Queued, ExpectedBy, SwappedBy, PrivateTo, Private, Expecting, Reserving,
           Unlinked
  <2>3. CASE o = new
    <3>1. /\ Owns(<<"fresh", w>>, o)' /\ ~Owns(<<"fresh", w>>, o)
          /\ \A u \in Mine(w) \ {<<"fresh", w>>} : Owns(u, o)' <=> Owns(u, o)
        BY <2>1, <2>3, MineOwns DEF Mine
    <3>2. <<"fresh", w>> \in Mine(w)
        BY DEF Mine
    <3>3. Cardinality(Owners(o)') = Cardinality(Owners(o)) + 1
        BY <1>0, <3>1, <3>2, WriterGainsOwner
    <3>4. Cardinality(Owners(o)) = 0
        BY <2>3, UnbornUnowned
    <3> QED BY SMTT(30), Z3T(30), <1>1, <2>3, <3>3, <3>4 DEF CountInv
  <2>4. CASE o # new
    <3>1. \A u \in Mine(w) : Owns(u, o)' <=> Owns(u, o)
        BY <2>1, <2>4, MineOwns DEF Mine
    <3>2. Cardinality(Owners(o)') = Cardinality(Owners(o))
        BY <1>0, <3>1, WriterKeepsOwners
    <3> QED BY <1>1, <2>4, <3>2 DEF CountInv
  <2> QED BY <2>3, <2>4
<1>3. count' \in [Objects -> Int]
    BY SMTT(30), Z3T(30), <1>1 DEF CountInv
<1> QED BY <1>2, <1>3 DEF CountInv

\* The drainer only ever takes the FIFO's owner away.
LEMMA OwnersByDrainer ==
    ASSUME Reclaim, NEW o
    PROVE  /\ (Queued(o)' <=> Queued(o)) => Cardinality(Owners(o)') = Cardinality(Owners(o))
           /\ Queued(o) /\ ~Queued(o)' => Cardinality(Owners(o)') = Cardinality(Owners(o)) - 1
<1> DEFINE t == <<"fifo", 0>>
<1>0. UNCHANGED <<ptr, wpc, expect, fresh, rpc, held>>
    BY DrainFrame
<1>1. ASSUME NEW u \in Tokens, u # t PROVE Owns(u, o)' <=> Owns(u, o)
  <2>1. CASE u = <<"slot", 0>>
    BY <1>0, <2>1 DEF Owns
  <2>2. CASE u[1] \in {"expect", "second", "fresh"} /\ u[2] \in Writers
    BY <1>0, <2>2 DEF Owns, ExpectedBy, SwappedBy, PrivateTo
  <2>3. CASE u[1] = "held" /\ u[2] \in Readers
    BY <1>0, <2>3 DEF Owns, HeldBy
  <2> QED BY <1>1, <2>1, <2>2, <2>3, TokenShape
<1>2. /\ t \in Tokens /\ (Owns(t, o) <=> Queued(o)) /\ (Owns(t, o)' <=> Queued(o)')
    BY DEF Owns, Tokens
<1> HIDE DEF t
<1>3. CASE Queued(o)' <=> Queued(o)
  <2>1. Owners(o)' = Owners(o)
    BY <1>1, <1>2, <1>3 DEF Owners
  <2> QED BY <1>3, <2>1
<1>4. CASE Queued(o) /\ ~Queued(o)'
  <2>1. Owners(o)' = Owners(o) \ {t} /\ t \in Owners(o)
    BY <1>1, <1>2, <1>4 DEF Owners
  <2>2. Cardinality(Owners(o)') = Cardinality(Owners(o)) - 1
    BY <2>1, OneLess
  <2> QED BY <1>4, <2>2
<1> QED BY <1>3, <1>4

\* A pop drops the FIFO's owner of the front entry, the only entry of its object.
LEMMA CountByDrainer ==
    ASSUME FifoInv, PlaceInv, GraceInv, CountInv, Reclaim
    PROVE  CountInv'
<1>1. ASSUME UNCHANGED <<queue, count>> PROVE CountInv'
  <2>1. ASSUME NEW o \in Objects PROVE Cardinality(Owners(o)') = Cardinality(Owners(o))
    <3>1. Queued(o)' <=> Queued(o)
        BY <1>1 DEF Queued
    <3> QED BY <3>1, OwnersByDrainer
  <2> QED BY <1>1, <2>1 DEF CountInv
<1>2. CASE Drain \/ DrainFront \/ DrainFinal
    BY <1>1, <1>2 DEF Drain, DrainFront, DrainFinal
<1>3. CASE DrainBlocked \/ DrainRearm \/ DrainRecheck
    BY <1>1, <1>3 DEF DrainBlocked, DrainRearm, DrainRecheck
<1>4. CASE Scan(Drainer)
    BY <1>1, <1>4 DEF Scan, fifo
<1>5. CASE DrainPop /\ verdict[Drainer] = "no"
    BY <1>1, <1>5 DEF DrainPop
<1>6. CASE DrainPop /\ verdict[Drainer] # "no"
  <2>1. /\ queue' = Tail(queue) /\ queue # <<>> /\ count' = [count EXCEPT ![Head(queue)[1]] = @ - 1]
    BY <1>6 DEF DrainPop, Decr, GraceInv
  <2>2. /\ Len(queue) > 0 /\ Head(queue) = queue[1] /\ queue[1] \in Objects \X Nat
        /\ queue \in Seq(Objects \X Nat)
    BY <2>1, FrontNat DEF FifoInv
  <2>3. /\ Len(queue') = Len(queue) - 1 /\ Len(queue) \in Nat
        /\ \A i \in 1 .. Len(queue') : i + 1 \in 1 .. Len(queue) /\ queue'[i] = queue[i + 1]
    BY SMTT(30), Z3T(30), <2>1, <2>2, TailFacts
  <2>4. \A i, j \in 1 .. Len(queue) : queue[i][1] = queue[j][1] => i = j
    BY DEF PlaceInv
  <2>5. PICK x \in Objects : queue[1][1] = x
    BY <2>2
  <2>6. ASSUME NEW o PROVE Queued(o)' <=> Queued(o) /\ o # x
    <3>1. ASSUME NEW i \in 1 .. Len(queue'), queue'[i][1] = o PROVE Queued(o) /\ o # x
      <4>1. i + 1 \in 1 .. Len(queue) /\ queue[i + 1][1] = o /\ i + 1 # 1
        BY SMTT(30), Z3T(30), <2>3, <3>1
      <4>2. 1 \in 1 .. Len(queue)
        BY SMTT(30), Z3T(30), <2>2, <2>3
      <4> QED BY <2>4, <2>5, <4>1, <4>2 DEF Queued
    <3>2. ASSUME NEW i \in 1 .. Len(queue), queue[i][1] = o, o # x PROVE Queued(o)'
      <4>1. i # 1
        BY <2>5, <3>2
      <4>2. i - 1 \in 1 .. Len(queue') /\ (i - 1) + 1 = i
        BY SMTT(30), Z3T(30), <2>3, <4>1
      <4>3. queue'[i - 1] = queue[i]
        BY <2>3, <4>2
      <4> QED BY <3>2, <4>2, <4>3 DEF Queued
    <3> QED BY <3>1, <3>2 DEF Queued
  <2>7. Queued(x)
    BY SMTT(30), Z3T(30), <2>2, <2>3, <2>5 DEF Queued
  <2>8. ASSUME NEW o \in Objects PROVE count'[o] = Cardinality(Owners(o)')
    <3>1. CASE o = x
      <4>1. Cardinality(Owners(o)') = Cardinality(Owners(o)) - 1
        BY <2>6, <2>7, <3>1, OwnersByDrainer
      <4> QED BY <2>1, <2>2, <2>5, <3>1, <4>1 DEF CountInv
    <3>2. CASE o # x
      <4>1. Cardinality(Owners(o)') = Cardinality(Owners(o))
        BY <2>6, <3>2, OwnersByDrainer
      <4> QED BY <2>1, <2>2, <2>5, <3>2, <4>1 DEF CountInv
    <3> QED BY <3>1, <3>2
  <2>9. count' \in [Objects -> Int]
    BY SMTT(30), Z3T(30), <2>1, <2>2, <2>5 DEF CountInv
  <2> QED BY <2>8, <2>9 DEF CountInv
<1> QED BY <1>2, <1>3, <1>4, <1>5, <1>6 DEF Reclaim

\* Every step keeps the strong count of an object equal to its owners.
LEMMA CountInvKept ==
    ASSUME ReaderTypes, WriterTypes, WriterInv, FifoInv, PlaceInv, HeldInv, GraceInv,
           SnapshotInv, CountInv, [Next]_vars
    PROVE  CountInv'
<1>1. ASSUME NEW r \in Readers, ReaderStep(r) PROVE CountInv'
    BY <1>1, CountByReader
<1>2. ASSUME NEW w \in Writers, WriterStep(w) PROVE CountInv'
  <2>1. CASE Begin(w) \/ Open(w) \/ Armed(w) \/ Scan(w) \/ FillOpen(w)
    BY <2>1, CountKeptByWriter
  <2>2. CASE Swap(w) \/ FillStore(w)
    BY <2>2, CountBySwap
  <2>3. CASE Commit(w)
    BY <2>3, CountByCommit
  <2>4. CASE Arm(w)
    BY <2>4, CountByArm
  <2>5. CASE Cancel(w)
    BY <2>5, CountByCancel
  <2>6. CASE Publish(w) \/ Clear(w)
    <3>1. PICK new \in Unborn \cup {Null} : Reserve(w, new)
        BY <2>6 DEF Publish, Clear
    <3> QED BY <1>2, <3>1, CountByReserve
  <2>7. CASE \E new \in Unborn : Fill(w, new)
    BY <2>7, CountByFill
  <2> QED BY <1>2, <2>1, <2>2, <2>3, <2>4, <2>5, <2>6, <2>7 DEF WriterStep, Write
<1>3. CASE (\E c \in Cpus : CpuStep(c)) \/ UNCHANGED vars
  <2>1. UNCHANGED <<count, ptr, queue, wpc, expect, fresh, rpc, held>>
    BY <1>3, CpuFrame DEF vars, rlocal, fifo, wlocal
  <2>2. ASSUME NEW o PROVE Owners(o)' = Owners(o)
    <3>1. \A w \in Writers : /\ ExpectedBy(w, o)' <=> ExpectedBy(w, o)
                             /\ SwappedBy(w, o)' <=> SwappedBy(w, o)
                             /\ PrivateTo(w, o)' <=> PrivateTo(w, o)
        BY <2>1 DEF ExpectedBy, SwappedBy, PrivateTo
    <3>2. (Queued(o)' <=> Queued(o)) /\ \A r \in Readers : HeldBy(r, o)' <=> HeldBy(r, o)
        BY <2>1 DEF Queued, HeldBy
    <3> QED BY <2>1, <3>1, <3>2, SameOwners
  <2> QED BY <2>1, <2>2 DEF CountInv
<1> QED BY <1>1, <1>2, <1>3, Steps, CountByDrainer

-----------------------------------------------------------------------------
(* The inductive invariant.                                                 *)

\* A new domain satisfies the invariant.
LEMMA InitInv == ASSUME Init PROVE Inv
<1> USE DEF Init
<1>1. ReaderTypes
    BY SMTT(30), Z3T(30) DEF ReaderTypes, ReaderPcs
<1>2. WriterTypes
    BY DEF WriterTypes, WriterPcs
<1>3. ScanInv
    BY DEF ScanInv
<1>4. ReaderInv
  <2>1. ASSUME NEW c \in Cpus PROVE CpuInv(c)
    BY SMTT(30), Z3T(30), CpuReaders
       DEF CpuInv, TaskInv, IrqInv, DepthInv, Counts, Admitted
  <2> QED BY <2>1 DEF ReaderInv, DateInv, Dated, Marked
<1>5. WriterInv
    BY SMTT(30), Z3T(30) DEF WriterInv, Locked, Closed, Expecting, Reserving, Private
<1>6. FifoInv
  <2>1. Holders = {}
    BY DEF Holders, Reserving
  <2>2. Cardinality(Holders) = 0
    BY <2>1, FS_EmptySet
  <2>3. Len(queue) = 0 /\ queue \in Seq(Objects \X Nat) /\ front = FrontEpoch(queue)
    BY SMTT(30), Z3T(30) DEF FrontEpoch
  <2>4. \A w \in Writers : wpc[w] \notin {"swap", "open", "commit"}
    OBVIOUS
  <2> QED BY SMTT(30), Z3T(30), <2>2, <2>3, <2>4, RcuAssumption DEF FifoInv
<1>7. PlaceInv
    BY SMTT(30), Z3T(30) DEF PlaceInv, Unlinked, Private
<1>8. HeldInv /\ GraceInv /\ SnapshotInv
    BY DEF HeldInv, GraceInv, SnapshotInv
<1>9. CountInv
  <2>1. ASSUME NEW o \in Objects PROVE count[o] = Cardinality(Owners(o))
    <3>0. o # Null /\ ~Queued(o)
        BY SMTT(30), Z3T(30), RcuAssumption DEF Queued
    <3>1. \A w \in Writers : ~ExpectedBy(w, o) /\ ~SwappedBy(w, o) /\ ~PrivateTo(w, o)
        BY
           DEF ExpectedBy, SwappedBy, PrivateTo, Expecting, Reserving, Unlinked, Private
    <3>2. \A r \in Readers : ~HeldBy(r, o)
        BY DEF HeldBy
    <3>3. ASSUME NEW t \in Tokens PROVE Owns(t, o) <=> t = <<"slot", 0>> /\ o = ptr
      <4>1. CASE t = <<"slot", 0>>
        BY <4>1 DEF Owns
      <4>2. CASE t = <<"fifo", 0>>
        BY <3>0, <4>2 DEF Owns
      <4>3. CASE t[1] \in {"expect", "second", "fresh"} /\ t[2] \in Writers
        BY SMTT(30), Z3T(30), <3>1, <4>3 DEF Owns
      <4>4. CASE t[1] = "held" /\ t[2] \in Readers
        BY SMTT(30), Z3T(30), <3>2, <4>4 DEF Owns
      <4> QED BY <4>1, <4>2, <4>3, <4>4, TokenShape
    <3>4. <<"slot", 0>> \in Tokens
        BY DEF Tokens
    <3>5. CASE o = ptr
      <4>1. Owners(o) = {<<"slot", 0>>}
        BY <3>3, <3>4, <3>5 DEF Owners
      <4> QED BY <3>5, <4>1, FS_Singleton
    <3>6. CASE o # ptr
      <4>1. Owners(o) = {}
        BY <3>3, <3>6 DEF Owners
      <4> QED BY <3>6, <4>1, FS_EmptySet
    <3> QED BY <3>5, <3>6
  <2>2. count \in [Objects -> Int]
    BY SMTT(30), Z3T(30)
  <2> QED BY <2>1, <2>2 DEF CountInv
<1>10. EdgeInv /\ WakeInv
    BY DEF EdgeInv, WakeInv
<1> QED BY <1>1, <1>2, <1>3, <1>4, <1>5, <1>6, <1>7, <1>8, <1>9, <1>10 DEF Inv

\* Every step preserves it.
LEMMA NextInv == ASSUME Inv, [Next]_vars PROVE Inv'
<1>0. /\ ReaderTypes /\ WriterTypes /\ ScanInv /\ ReaderInv /\ WriterInv /\ FifoInv
      /\ PlaceInv /\ HeldInv /\ GraceInv /\ SnapshotInv /\ CountInv /\ EdgeInv /\ WakeInv
    BY DEF Inv
<1>1. ReaderTypes' /\ ReaderInv'
    BY <1>0, ReaderInvKept
<1>2. WriterTypes' /\ WriterInv'
  <2>1. ASSUME NEW w \in Writers, WriterStep(w) PROVE WriterTypes' /\ WriterInv'
    BY <1>0, <2>1, WriterTypesKept, WriterInvKept
  <2>2. ASSUME UNCHANGED <<epoch, ptr, wlock, wpc, expect, fresh, born>>
        PROVE  WriterTypes' /\ WriterInv'
    BY <1>0, <2>2 DEF WriterTypes, WriterInv
  <2>3. CASE \E r \in Readers : ReaderStep(r)
    BY <2>2, <2>3, ReaderFrame
  <2>4. CASE Reclaim
    BY <2>2, <2>4, DrainFrame
  <2>5. CASE (\E c \in Cpus : CpuStep(c)) \/ UNCHANGED vars
    BY <2>2, <2>5, CpuFrame DEF vars, wlocal
  <2> QED BY <2>1, <2>3, <2>4, <2>5, Steps
<1>3. ScanInv' /\ FifoInv'
    BY <1>0, ScanInvKept, FifoInvKept
<1>4. PlaceInv' /\ HeldInv' /\ GraceInv'
    BY <1>0, PlaceInvKept, HeldInvKept, GraceInvKept
<1>5. SnapshotInv' /\ CountInv'
    BY <1>0, SnapshotKept, CountInvKept
<1>6. EdgeInv' /\ WakeInv'
    BY <1>0, EdgeInvKept, WakeInvKept
<1> QED BY <1>1, <1>2, <1>3, <1>4, <1>5, <1>6 DEF Inv

\* The inductive invariant holds in every state of the domain.
THEOREM Invariance == Safety => []Inv
<1>1. Init => Inv
    BY InitInv
<1>2. Inv /\ [Next]_vars => Inv'
    BY NextInv
<1> QED BY <1>1, <1>2, PTL DEF Safety

-----------------------------------------------------------------------------
(* What a reader's CPU state and the owners say.                            *)

\* The reader words of a CPU stay in range, and an offline CPU's are zero.
LEMMA CpuRange ==
    ASSUME ReaderTypes, ReaderInv, NEW c \in Cpus
    PROVE  depth[c] \in 0 .. 2 /\ marker[c] \in Nat /\ (~online[c] => depth[c] = 0 /\ marker[c] = 0)
<1>1. CpuInv(c) /\ Task(c) \in Readers /\ (c \in Interrupts => Irq(c) \in Readers)
    BY CpuReaders DEF ReaderInv
<1>2. depth[c] \in 0 .. 2
    BY SMTT(30), Z3T(30), <1>1 DEF CpuInv, DepthInv, Counts
<1>3. \A r \in Readers : rpc[r] \in Marked => seen[r] \in Nat
    BY DEF ReaderInv, DateInv, Dated
<1>4. marker[c] \in Nat
  <2>1. CASE depth[c] = 0
    BY SMTT(30), Z3T(30), <1>1, <2>1 DEF CpuInv, DepthInv
  <2>2. CASE rpc[Task(c)] \in Admitted
    BY SMTT(30), Z3T(30), <1>1, <1>3, <2>2 DEF CpuInv, TaskInv
  <2>3. CASE c \in Interrupts /\ rpc[Irq(c)] \in Admitted /\ rpc[Task(c)] \notin Admitted
    <3>1. ~nested[Irq(c)]
        BY <1>1, <2>3 DEF CpuInv, IrqInv, Pinned, Admitted
    <3> QED BY SMTT(30), Z3T(30), <1>1, <1>3, <2>3, <3>1 DEF CpuInv, IrqInv
  <2> QED BY SMTT(30), Z3T(30), <1>1, <2>1, <2>2, <2>3 DEF CpuInv, DepthInv, Counts
<1>5. ~online[c] => depth[c] = 0 /\ marker[c] = 0
    BY <1>1 DEF CpuInv, DepthInv
<1> QED BY <1>2, <1>4, <1>5

\* Reservations fit the FIFO and are owned, the retired entries are in epoch
\* order, the wake hints describe the FIFO, and an offline CPU has no reader, for
\* any number of CPUs, writers, objects and FIFO slots (reserve, commit,
\* unregister_cpu).
THEOREM Types == Safety => []TypeOK
<1>1. Inv => TypeOK
  <2> SUFFICES ASSUME Inv PROVE TypeOK
    OBVIOUS
  <2>0. /\ ReaderTypes /\ WriterTypes /\ ScanInv /\ ReaderInv /\ FifoInv /\ CountInv
    BY DEF Inv
  <2>1. depth \in [Cpus -> 0 .. 2] /\ marker \in [Cpus -> Nat]
    BY <2>0, CpuRange DEF ReaderTypes
  <2>2. \A c \in Cpus : ~online[c] => depth[c] = 0 /\ marker[c] = 0
    BY <2>0, CpuRange
  <2>3. count \in [Objects -> Nat]
    BY <2>0, OwnersFinite DEF CountInv
  <2>4. /\ queue \in Seq(Objects \X Nat) /\ Len(queue) + reserved <= Capacity
        /\ \A i, j \in 1 .. Len(queue) : i < j => queue[i][2] < queue[j][2]
        /\ front = FrontEpoch(queue) /\ (queue # <<>> => pending)
    BY <2>0 DEF FifoInv
  <2>5. reserved = Cardinality({w \in Writers : wpc[w] \in
                                  {"reserved", "cancel", "swap", "open", "commit"}})
    BY <2>0 DEF FifoInv, Holders, Reserving
  <2>6. reserved \in 0 .. Capacity
    <3>1. reserved \in Nat /\ Len(queue) \in Nat
        BY SMTT(30), Z3T(30), <2>0, <2>4, HoldersFinite DEF FifoInv
    <3> QED BY SMTT(30), Z3T(30), <2>4, <3>1, RcuAssumption
  <2>7. /\ epoch \in Nat /\ ptr \in Objects \cup {Null} /\ held \in [Readers -> Objects \cup {Null}]
        /\ verdict \in [Scanners -> {"none", "yes", "no"}]
    BY <2>0 DEF WriterTypes, ReaderTypes, ScanInv
  <2> QED BY <2>1, <2>2, <2>3, <2>4, <2>5, <2>6, <2>7 DEF TypeOK
<1> QED BY <1>1, Invariance, PTL

\* A reader never touches the strong count of a freed object: what it loaded is
\* owned by the slot, the writer or the FIFO until it is cloned.
THEOREM ReadersSafe == Safety => []NoUseAfterFree
<1>1. Inv => NoUseAfterFree
  <2> SUFFICES ASSUME Inv, NEW r \in Readers, rpc[r] = "clone" PROVE count[held[r]] > 0
    BY DEF NoUseAfterFree
  <2>1. held[r] \in Objects /\ Safe(r) /\ CountInv
    BY DEF Inv, HeldInv
  <2>2. PICK o \in Objects : held[r] = o
    BY <2>1
  <2>3. \E t \in Tokens : Owns(t, o)
    <3>1. CASE ptr = o
      <4>1. <<"slot", 0>> \in Tokens /\ Owns(<<"slot", 0>>, o)
        BY <3>1 DEF Tokens, Owns
      <4> QED BY <4>1
    <3>2. CASE Queued(o)
      <4>1. <<"fifo", 0>> \in Tokens /\ Owns(<<"fifo", 0>>, o)
        BY <3>2 DEF Tokens, Owns
      <4> QED BY <4>1
    <3>3. ASSUME NEW w \in Writers, wpc[w] \in Unlinked, expect[w] = o
          PROVE  \E t \in Tokens : Owns(t, o)
      <4>1. <<"expect", w>> \in Tokens /\ Owns(<<"expect", w>>, o)
        BY <3>3 DEF Tokens, Owns, ExpectedBy, Expecting, Reserving, Unlinked
      <4> QED BY <4>1
    <3> QED BY <2>1, <2>2, <3>1, <3>2, <3>3 DEF Safe, Queued
  <2>4. Owners(o) # {}
    BY <2>3 DEF Owners
  <2>5. Cardinality(Owners(o)) \in Nat /\ Cardinality(Owners(o)) # 0
    BY <2>4, OwnersFinite, FS_EmptySet
  <2> QED BY SMTT(30), Z3T(30), <2>1, <2>2, <2>5 DEF CountInv
<1> QED BY <1>1, Invariance, PTL

\* A snapshot that an outermost reader returns is the object published at that
\* moment, and is_empty answers for that moment (guard.stable(), is_empty).
THEOREM AnswersRight == Safety => AnswersCurrent
<1> DEFINE Right(r) ==
           /\ rpc[r] = "clone" /\ rpc'[r] = "exit" /\ ~nested[r] /\ held'[r] # Null
                  => held'[r] = ptr
           /\ rpc[r] = "after" /\ rpc'[r] = "idle" => (held[r] = Null <=> ptr = Null)
<1>1. Inv /\ [Next]_vars => \A r \in Readers : Right(r)
  <2> SUFFICES ASSUME Inv, [Next]_vars, NEW r \in Readers PROVE Right(r)
    OBVIOUS
  <2>0. ReaderTypes /\ WriterTypes /\ FifoInv /\ HeldInv
    BY DEF Inv
  <2>1. CASE rpc'[r] = rpc[r]
    BY <2>1
  <2>2. ASSUME NEW s \in Readers, ReaderStep(s), s # r PROVE rpc'[r] = rpc[r]
    BY <2>0, <2>2, ReaderLocal DEF Local
  <2>3. CASE ReaderStep(r)
    <3>1. CASE rpc[r] = "clone" /\ rpc'[r] # rpc[r] /\ ~nested[r]
      <4>1. Clone(r)
        BY <2>3, <3>1
           DEF ReaderStep, Read, Load, IsEmpty, EmptyBefore, EmptyPeek, EmptyAfter,
               Admit, LoadEpoch, StoreMarker, Verify, Undo, Unadmit, LoadPointer, Exit,
               Depart,
               Note, NoteGrace, Scan, rlocal, At
      <4>2. CASE epoch = seen[r]
        <5>1. held'[r] = held[r]
            BY <4>1, <4>2 DEF Clone, Stable
        <5>2. Safe(r) /\ epoch \in Nat /\ \A i \in 1 .. Len(queue) : queue[i][2] <= epoch
            BY <2>0, <3>1 DEF HeldInv, WriterTypes, FifoInv
        <5>3. ASSUME NEW i \in 1 .. Len(queue) PROVE ~(seen[r] < queue[i][2])
          <6>1. queue \in Seq(Objects \X Nat)
            BY <2>0 DEF FifoInv
          <6>2. queue[i] \in Objects \X Nat
            BY SMTT(30), Z3T(30), <6>1
          <6>3. queue[i][2] \in Nat
            BY <6>2
          <6> QED BY SMTT(30), Z3T(30), <4>2, <5>2, <6>3
        <5>4. ~(seen[r] < epoch)
            BY SMTT(30), Z3T(30), <4>2, <5>2
        <5>5. held[r] = ptr
            BY <5>2, <5>3, <5>4 DEF Safe
        <5> QED BY <3>1, <5>1, <5>5
      <4>3. CASE epoch # seen[r]
        <5>1. held'[r] = Null
            BY <2>0, <3>1, <4>1, <4>3 DEF Clone, Stable, ReaderTypes
        <5> QED BY <3>1, <5>1
      <4> QED BY <4>2, <4>3
    <3>2. CASE rpc[r] = "after" /\ rpc'[r] = "idle"
      <4>1. EmptyAfter(r)
        BY <2>3, <3>2
           DEF ReaderStep, Read, Load, IsEmpty, EmptyBefore, EmptyPeek, Clone,
               Admit, LoadEpoch, StoreMarker, Verify, Undo, Unadmit, LoadPointer, Exit,
               Depart,
               Note, NoteGrace, Scan, rlocal, At
      <4>2. epoch = seen[r]
        BY <2>0, <3>2, <4>1 DEF EmptyAfter, RGoto, ReaderTypes
      <4>3. held[r] = ptr
        BY <2>0, <3>2, <4>2 DEF HeldInv
      <4> QED BY <3>2, <4>3
    <3> QED BY <2>1, <3>1, <3>2
  <2>4. CASE (\E w \in Writers : WriterStep(w)) \/ Reclaim
    BY <2>1, <2>4, WriterFrame, DrainFrame
  <2>5. CASE (\E c \in Cpus : CpuStep(c)) \/ UNCHANGED vars
    BY <2>1, <2>5, CpuFrame DEF vars, rlocal
  <2> QED BY <2>1, <2>2, <2>3, <2>4, <2>5, Steps
<1>2. Inv /\ [Next]_vars => [\A r \in Readers : Right(r)]_vars
    BY <1>1
<1> QED BY <1>2, Invariance, PTL DEF AnswersCurrent, Safety

\* The last wake is never lost: while every CPU stays registered, a FIFO that
\* nobody is working on and no reader can block has woken its reclaimer
\* (note_reader_quiescent, has_reclaimable_pending and the re-arming in drain).
THEOREM WakesKept == Safety => []NoLostReclaim
<1>1. Inv => NoLostReclaim
  <2> SUFFICES ASSUME Inv, dpc = "idle", queue # <<>>, moves = 0,
                      \A r \in Readers : rpc[r] = "idle",
                      \A w \in Writers : wpc[w] \in {"idle", "reserved"}
               PROVE  kick
    BY DEF NoLostReclaim
  <2>1. Attended
    BY DEF Inv, WakeInv
  <2>2. ~DrainerWatches
    BY DEF DrainerWatches
  <2>3. \A r \in Readers : ~ReaderWatches(r)
    BY DEF ReaderWatches, Admitted
  <2>4. \A w \in Writers : ~WriterWatches(w)
    BY DEF WriterWatches
  <2> QED BY <2>1, <2>2, <2>3, <2>4 DEF Attended
<1> QED BY <1>1, Invariance, PTL

=============================================================================
