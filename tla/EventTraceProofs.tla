-------------------------- MODULE EventTraceProofs ---------------------------
(***************************************************************************)
(* The reader of the event ring never sees a torn event, for every depth,  *)
(* every number of sequences and every script.                             *)
(***************************************************************************)
EXTENDS EventTrace, SequenceTheorems, TLAPS

\* What the code's constants are: a ring of at least one slot, sequences that wrap.
Bounds == TRACE_DEPTH \in Nat \ {0} /\ SEQUENCES \in Nat \ {0} /\ Script \in Seq([kind : Kinds, depth : Nat])

Slots == [version : Nat, sequence : Nat, kind : Kinds \cup {"none"}, task : Nat]
Readers == [version : Nat, want : Nat, sequence : Nat, kind : Kinds \cup {"none"}, task : Nat, latest : Nat]
Loading == {"sequence", "kind", "task", "again"}
Storing == {"sequence", "kind", "task", "seal"}

\* The words of a slot and of a reader are what their types say.
Typed ==
    /\ recorded \in Nat /\ recorded <= Len(Script) /\ sequence \in Nat /\ published \in Nat
    /\ counters \in [Kinds \cup {"outermost", "timer"} -> Nat]
    /\ slot \in [0 .. TRACE_DEPTH - 1 -> Slots] /\ reader \in Readers
    /\ writer \in Storing \cup {"idle", "take", "mark", "publish"}
    /\ reading \in Loading \cup {"idle", "answered", "counters", "counted"}

\* The slot that record is changing.
Changing(i) == i = Mine /\ writer \in Storing

\* The ring: sequence counts the calls of record, a slot's version is odd exactly
\* while it changes, one at rest shows an event or nothing, and one that changes
\* holds what record has stored so far.
Ring ==
    /\ writer # "idle" => recorded > 0
    /\ sequence = (IF writer = "take" THEN recorded - 1 ELSE recorded) % SEQUENCES
    /\ \A i \in 0 .. TRACE_DEPTH - 1 :
         /\ slot[i].version % 2 = 1 <=> Changing(i)
         /\ ~Changing(i) /\ slot[i].sequence # 0 => \E n \in 1 .. recorded : Shows(slot[i], n)
    /\ writer \in {"kind", "task", "seal"} => slot[Mine].sequence = sequence
    /\ writer \in {"task", "seal"} => slot[Mine].kind = Script[recorded].kind
    /\ writer = "seal" => slot[Mine].task = recorded

\* The reader: while the version is the one it read first, what it holds is what
\* the slot holds, for versions only grow.
Held ==
    /\ reading \in Loading =>
         /\ reader.want # 0 /\ reader.version % 2 = 0 /\ reader.version <= slot[Theirs].version
         /\ reader.version = slot[Theirs].version =>
              /\ reading # "sequence" => reader.sequence = slot[Theirs].sequence
              /\ reading \in {"task", "again"} => reader.kind = slot[Theirs].kind
              /\ reading = "again" => reader.task = slot[Theirs].task

\* What is inductive: AnswersAreWhole, and the two sides of the version.
TraceInv == Typed /\ Ring /\ Held /\ AnswersAreWhole

-----------------------------------------------------------------------------
(* Remainders.                                                              *)

\* A leaf that names no prover is one for Zenon.
USE ZenonT(60)

LEMMA Euclid ==
  ASSUME NEW n \in Int, NEW S \in Int, S > 0
  PROVE  n \div S \in Int /\ n = S * (n \div S) + (n % S) /\ n % S \in 0 .. S - 1
  BY Z3T(30)

LEMMA Remainder ==
  ASSUME NEW n \in Int, NEW S \in Int, S > 0, NEW q \in Int, NEW r \in Int, 0 <= r, r < S, n = S * q + r
  PROVE  n % S = r
  BY Z3T(30)

\* Wrapping at every addition is wrapping once (fetch_add of next_sequence).
LEMMA Wrapping ==
  ASSUME NEW n \in Int, NEW S \in Int, S > 0
  PROVE  ((n % S) + 1) % S = (n + 1) % S
<1> DEFINE q == n \div S
           r == n % S
<1>1. q \in Int /\ n = S * q + r /\ r \in 0 .. S - 1 BY Euclid
<1> HIDE DEF q, r
<1>2. CASE r = S - 1
  <2>1. n + 1 = S * (q + 1) + 0 BY <1>1, <1>2, Z3
  <2>2. (n + 1) % S = 0 BY SMTT(30), Z3T(30), <2>1, <1>1, Remainder
  <2>3. r + 1 = S * 1 + 0 BY SMTT(30), Z3T(30), <1>1, <1>2
  <2>4. (r + 1) % S = 0 BY SMTT(30), Z3T(30), <2>3, <1>1, Remainder
  <2> QED BY <2>2, <2>4 DEF r
<1>3. CASE r # S - 1
  <2>1. n + 1 = S * q + (r + 1) /\ r + 1 \in Int /\ 0 <= r + 1 /\ r + 1 < S
    BY <1>1, <1>3, Z3
  <2>2. (n + 1) % S = r + 1 BY SMTT(30), Z3T(30), <2>1, <1>1, Remainder
  <2>3. r + 1 = S * 0 + (r + 1) BY SMTT(30), Z3T(30), <1>1
  <2>4. (r + 1) % S = r + 1 BY SMTT(30), Z3T(30), <2>1, <2>3, <1>1, Remainder
  <2> QED BY <2>2, <2>4 DEF r
<1> QED BY <1>2, <1>3

LEMMA Parity ==
  ASSUME NEW n \in Nat
  PROVE  n % 2 \in {0, 1} /\ (n % 2 = 0 <=> (n + 1) % 2 = 1) /\ (n % 2 = 1 <=> (n + 1) % 2 = 0)
  BY SMT

LEMMA FieldNames ==
  /\ Len(Fields) = 3 /\ Fields[1] = "sequence" /\ Fields[2] = "kind" /\ Fields[3] = "task"
  /\ \A i \in 1 .. Len(Fields) : i \in {1, 2, 3}
<1>1. Len(Fields) = 3 /\ Fields[1] = "sequence" /\ Fields[2] = "kind" /\ Fields[3] = "task" BY DEF Fields
<1> QED BY SMTT(30), Z3T(30), <1>1

\* A sequence number names a slot of the ring.
LEMMA InRing ==
  ASSUME Bounds, NEW q \in Nat PROVE q % TRACE_DEPTH \in 0 .. TRACE_DEPTH - 1
  BY SMTT(30), Z3T(30), Euclid DEF Bounds

-----------------------------------------------------------------------------
(* The CPU.                                                                 *)

\* A step of record changes a slot only under a new version or an odd one.
Grows ==
    \A i \in 0 .. TRACE_DEPTH - 1 :
        \/ slot'[i] = slot[i]
        \/ slot'[i].version > slot[i].version
        \/ slot'[i].version = slot[i].version /\ slot[i].version % 2 = 1

\* Such a step takes nothing from a reader.
LEMMA ReaderUnmoved ==
  ASSUME Bounds, TraceInv, Typed', Grows, recorded' >= recorded, UNCHANGED <<reading, reader>>
  PROVE  Held' /\ AnswersAreWhole'
<1>1. AnswersAreWhole'
  <2> SUFFICES ASSUME reading = "answered"
               PROVE  \E n \in 1 .. recorded' : Shows(reader, n) /\ reader.want = reader.sequence
    BY DEF AnswersAreWhole, Shows, Event
  <2>1. PICK n \in 1 .. recorded : Shows(reader, n) /\ reader.want = reader.sequence
    BY DEF TraceInv, AnswersAreWhole
  <2>2. n \in 1 .. recorded' BY SMTT(30), Z3T(30), <2>1 DEF TraceInv, Typed
  <2> QED BY <2>1, <2>2
<1>2. Held'
  <2> SUFFICES ASSUME reading \in Loading PROVE Held' BY DEF Held
  <2>1. reader.want \in Nat /\ reader.version \in Nat BY DEF TraceInv, Typed, Readers
  <2>2. Theirs \in 0 .. TRACE_DEPTH - 1 BY <2>1, InRing DEF Theirs
  <2>3. Theirs' = Theirs BY DEF Theirs
  <2>4. slot[Theirs].version \in Nat /\ slot'[Theirs].version \in Nat
    BY <2>2 DEF TraceInv, Typed, Slots
  <2>5. reader.version % 2 = 0 /\ reader.version <= slot[Theirs].version BY DEF TraceInv, Held
  <2>6. CASE slot'[Theirs] = slot[Theirs] BY <2>3, <2>6 DEF TraceInv, Held
  <2>7. CASE slot'[Theirs].version > slot[Theirs].version
    BY SMTT(30), Z3T(30), <2>1, <2>3, <2>4, <2>5, <2>7 DEF TraceInv, Held
  <2>8. CASE slot'[Theirs].version = slot[Theirs].version /\ slot[Theirs].version % 2 = 1
    BY SMTT(30), Z3T(30), <2>1, <2>3, <2>4, <2>5, <2>8 DEF TraceInv, Held
  <2> QED BY <2>2, <2>6, <2>7, <2>8 DEF Grows
<1> QED BY <1>1, <1>2

\* A resting slot goes on showing its event while further ones are recorded.
LEMMA StillShows ==
  ASSUME TraceInv, recorded' \in Nat, recorded' >= recorded, NEW i \in 0 .. TRACE_DEPTH - 1,
         ~Changing(i), slot'[i] = slot[i], slot[i].sequence # 0
  PROVE  \E n \in 1 .. recorded' : Shows(slot'[i], n)
<1>1. PICK n \in 1 .. recorded : Shows(slot[i], n) BY DEF TraceInv, Ring
<1> QED BY SMTT(30), Z3T(30), <1>1 DEF TraceInv, Typed

\* Between events: the counters, the next sequence, and its publication.
LEMMA CountKeeps == ASSUME Bounds, TraceInv, Count PROVE TraceInv'
<1>1. recorded \in Nat /\ recorded' = recorded + 1 /\ writer = "idle" /\ writer' = "take"
  BY DEF Count, TraceInv, Typed
<1>2. Typed'
  <2>1. counters' \in [Kinds \cup {"outermost", "timer"} -> Nat]
    BY SMTT(30), Z3T(30) DEF Count, TraceInv, Typed
  <2> QED BY SMTT(30), Z3T(30), <1>1, <2>1 DEF Count, TraceInv, Typed
<1>3. \A i : ~Changing(i) /\ ~(Changing(i))' BY <1>1 DEF Changing, Storing
<1>4. Ring'
  <2>1. sequence' = ((IF writer = "take" THEN recorded - 1 ELSE recorded) % SEQUENCES)'
    BY SMTT(30), Z3T(30), <1>1 DEF Count, TraceInv, Ring
  <2>2. ASSUME NEW i \in 0 .. TRACE_DEPTH - 1, slot'[i].sequence # 0
        PROVE  \E n \in 1 .. recorded' : Shows(slot'[i], n)
    BY SMTT(30), Z3T(30), <1>1, <1>3, <2>2, StillShows DEF Count
  <2>3. \A i \in 0 .. TRACE_DEPTH - 1 : slot'[i].version % 2 # 1
    BY <1>3 DEF Count, TraceInv, Ring
  <2> QED BY SMTT(30), Z3T(30), <1>1, <1>3, <2>1, <2>2, <2>3 DEF Ring, Shows, Event
<1>5. Grows BY DEF Count, Grows
<1> QED BY SMTT(30), Z3T(30), <1>1, <1>2, <1>4, <1>5, ReaderUnmoved DEF Count, TraceInv

LEMMA TakeSequenceKeeps == ASSUME Bounds, TraceInv, TakeSequence PROVE TraceInv'
<1>1. recorded \in Nat /\ recorded > 0 /\ recorded' = recorded /\ writer = "take" /\ writer' \in {"idle", "mark"}
  BY DEF TakeSequence, TraceInv, Typed, Ring
<1>2. sequence' = recorded % SEQUENCES
  <2>1. sequence = (recorded - 1) % SEQUENCES BY <1>1 DEF TraceInv, Ring
  <2>2. (sequence + 1) % SEQUENCES = ((recorded - 1) + 1) % SEQUENCES
    BY SMTT(30), Z3T(30), <1>1, <2>1, Wrapping DEF Bounds
  <2>3. (recorded - 1) + 1 = recorded BY SMTT(30), Z3T(30), <1>1
  <2> QED BY <2>2, <2>3 DEF TakeSequence
<1>3. sequence' \in Nat BY SMTT(30), Z3T(30), <1>1, <1>2, Euclid DEF Bounds
<1>4. Typed' BY <1>1, <1>3 DEF TakeSequence, TraceInv, Typed
<1>5. \A i : ~Changing(i) /\ ~(Changing(i))' BY <1>1 DEF Changing, Storing
<1>6. Ring'
  <2>1. \A i \in 0 .. TRACE_DEPTH - 1 : slot'[i] = slot[i] BY DEF TakeSequence
  <2>2. \A i \in 0 .. TRACE_DEPTH - 1 : slot'[i].version % 2 # 1
    BY <1>5, <2>1 DEF TraceInv, Ring
  <2>3. ASSUME NEW i \in 0 .. TRACE_DEPTH - 1, slot'[i].sequence # 0
        PROVE  \E n \in 1 .. recorded' : Shows(slot'[i], n)
    BY SMTT(30), Z3T(30), <1>1, <1>5, <2>1, <2>3, StillShows
  <2> QED BY <1>1, <1>2, <1>5, <2>2, <2>3 DEF Ring, Shows, Event
<1>7. Grows BY DEF TakeSequence, Grows
<1> QED BY SMTT(30), Z3T(30), <1>1, <1>4, <1>6, <1>7, ReaderUnmoved
           DEF TakeSequence, TraceInv

\* publish and record_timer_event leave the ring alone.
LEMMA PublishKeeps == ASSUME Bounds, TraceInv, Publish \/ RecordTimerEvent PROVE TraceInv'
<1>1. recorded \in Nat /\ recorded' = recorded /\ writer \in {"publish", "idle"} /\ writer' = "idle"
      /\ sequence' = sequence /\ slot' = slot /\ UNCHANGED <<reading, reader>>
  BY DEF Publish, RecordTimerEvent, TraceInv, Typed
<1>2. Typed'
  <2>1. published' \in Nat BY DEF Publish, RecordTimerEvent, TraceInv, Typed
  <2>2. counters' \in [Kinds \cup {"outermost", "timer"} -> Nat]
    BY SMTT(30), Z3T(30) DEF Publish, RecordTimerEvent, TraceInv, Typed
  <2> QED BY <1>1, <2>1, <2>2 DEF TraceInv, Typed
<1>3. \A i : ~Changing(i) /\ ~(Changing(i))' BY <1>1 DEF Changing, Storing
<1>4. Ring'
  <2>1. ASSUME NEW i \in 0 .. TRACE_DEPTH - 1, slot'[i].sequence # 0
        PROVE  \E n \in 1 .. recorded' : Shows(slot'[i], n)
    BY SMTT(30), Z3T(30), <1>1, <1>3, <2>1, StillShows
  <2>2. \A i \in 0 .. TRACE_DEPTH - 1 : slot'[i].version % 2 # 1
    BY <1>1, <1>3 DEF TraceInv, Ring
  <2>3. sequence' = ((IF writer = "take" THEN recorded - 1 ELSE recorded) % SEQUENCES)'
    BY <1>1 DEF TraceInv, Ring
  <2> QED BY <1>1, <1>3, <2>1, <2>2, <2>3 DEF Ring, Shows, Event
<1>5. Grows BY <1>1 DEF Grows
<1> QED BY SMTT(30), Z3T(30), <1>1, <1>2, <1>4, <1>5, ReaderUnmoved DEF TraceInv

\* The slot that record changes is a slot of the ring, and typed.
LEMMA MineIsASlot ==
  ASSUME Bounds, TraceInv
  PROVE  /\ Mine \in 0 .. TRACE_DEPTH - 1 /\ slot[Mine] \in Slots /\ slot[Mine].version \in Nat
         /\ recorded \in Nat
  BY InRing DEF TraceInv, Typed, Mine, Slots

\* The version goes odd before the first store into the slot.
LEMMA MarkKeeps == ASSUME Bounds, TraceInv, Mark PROVE TraceInv'
<1>1. writer = "mark" /\ writer' = "sequence" /\ recorded' = recorded /\ sequence' = sequence
      /\ recorded > 0 /\ Mine' = Mine /\ UNCHANGED <<reading, reader, published, counters>>
  BY DEF Mark, Mine, TraceInv, Ring
<1>2. Mine \in 0 .. TRACE_DEPTH - 1 /\ slot[Mine] \in Slots /\ slot[Mine].version \in Nat /\ recorded \in Nat
  BY MineIsASlot
<1>3. slot \in [0 .. TRACE_DEPTH - 1 -> Slots] BY DEF TraceInv, Typed
<1>4. slot' = [slot EXCEPT ![Mine] = [slot[Mine] EXCEPT !.version = slot[Mine].version + 1]] BY DEF Mark
<1> DEFINE r == [slot[Mine] EXCEPT !.version = slot[Mine].version + 1]
<1>r. r \in Slots /\ r.version = slot[Mine].version + 1
  BY SMTT(30), Z3T(30), <1>2 DEF Slots
<1>w. slot' = [slot EXCEPT ![Mine] = r] BY <1>4
<1> HIDE DEF r
<1>5. (\A i \in 0 .. TRACE_DEPTH - 1 : i # Mine => slot'[i] = slot[i]) /\ slot'[Mine] = r BY <1>2, <1>3, <1>w
<1>6. slot'[Mine].version = slot[Mine].version + 1 BY <1>r, <1>5
<1>7. Typed'
  <2>1. slot' \in [0 .. TRACE_DEPTH - 1 -> Slots] BY <1>2, <1>3, <1>w, <1>r
  <2> QED BY <1>1, <2>1 DEF TraceInv, Typed, Storing
<1>8. \A i : ~Changing(i) BY <1>1 DEF Changing, Storing
<1>9. \A i : (Changing(i))' <=> i = Mine BY <1>1 DEF Changing, Storing
<1>10. Ring'
  <2>1. slot'[Mine].version % 2 = 1
    <3>1. slot[Mine].version % 2 # 1 BY <1>2, <1>8 DEF TraceInv, Ring
    <3> QED BY <1>2, <1>6, <3>1, Parity
  <2>2. \A i \in 0 .. TRACE_DEPTH - 1 : i # Mine => slot'[i].version % 2 # 1
    BY <1>5, <1>8 DEF TraceInv, Ring
  <2>3. ASSUME NEW i \in 0 .. TRACE_DEPTH - 1, i # Mine, slot'[i].sequence # 0
        PROVE  \E n \in 1 .. recorded' : Shows(slot'[i], n)
    BY SMTT(30), Z3T(30), <1>1, <1>2, <1>5, <1>8, <2>3, StillShows
  <2>4. sequence' = ((IF writer = "take" THEN recorded - 1 ELSE recorded) % SEQUENCES)'
    BY <1>1 DEF TraceInv, Ring
  <2> QED BY <1>1, <1>9, <2>1, <2>2, <2>3, <2>4 DEF Ring, Shows, Event
<1>11. Grows BY SMTT(30), Z3T(30), <1>2, <1>5, <1>6 DEF Grows
<1> QED BY SMTT(30), Z3T(30), <1>1, <1>2, <1>7, <1>10, <1>11, ReaderUnmoved DEF TraceInv

\* A store into the slot, under the odd version.
LEMMA StoreFieldKeeps ==
  ASSUME Bounds, TraceInv, NEW i \in 1 .. Len(Fields), StoreField(i)
  PROVE  TraceInv'
<1> DEFINE m == slot[Mine]
<1>1. /\ writer \in Storing /\ writer' \in Storing /\ recorded' = recorded /\ sequence' = sequence
      /\ recorded > 0 /\ Mine' = Mine /\ UNCHANGED <<reading, reader, published, counters>>
  <2>1. /\ writer = Fields[i] /\ writer' = IF i = Len(Fields) THEN "seal" ELSE Fields[i + 1]
        /\ recorded' = recorded /\ sequence' = sequence /\ UNCHANGED <<reading, reader, published, counters>>
    BY DEF StoreField
  <2>2. writer \in {"sequence", "kind", "task"} /\ writer' \in {"kind", "task", "seal"}
    BY SMTT(30), Z3T(30), <2>1, FieldNames
  <2>3. recorded > 0 BY <2>2 DEF TraceInv, Ring
  <2>4. Mine' = Mine BY <2>1 DEF Mine
  <2> QED BY <2>1, <2>2, <2>3, <2>4 DEF Storing
<1>2. Mine \in 0 .. TRACE_DEPTH - 1 /\ m \in Slots /\ m.version \in Nat /\ recorded \in Nat
  BY MineIsASlot
<1>3. slot \in [0 .. TRACE_DEPTH - 1 -> Slots] BY DEF TraceInv, Typed
<1>4. Script[recorded].kind \in Kinds /\ sequence \in Nat
  <2>1. recorded \in 1 .. Len(Script) /\ sequence \in Nat
    BY SMTT(30), Z3T(30), <1>1, <1>2 DEF TraceInv, Typed
  <2> DEFINE E == [kind : Kinds, depth : Nat]
  <2> HIDE DEF E
  <2>2. Script[recorded] \in E BY <2>1, ElementOfSeq DEF Bounds, E
  <2> QED BY <2>1, <2>2 DEF E
<1>5. PICK r \in Slots :
        /\ slot' = [slot EXCEPT ![Mine] = r] /\ r.version = m.version
        /\ \/ writer = "sequence" /\ writer' = "kind" /\ r.sequence = sequence
           \/ /\ writer = "kind" /\ writer' = "task" /\ r.sequence = m.sequence
              /\ r.kind = Script[recorded].kind
           \/ /\ writer = "task" /\ writer' = "seal" /\ r.sequence = m.sequence /\ r.kind = m.kind
              /\ r.task = recorded
  <2> HIDE DEF m
  <2>1. /\ Len(Fields) = 3 /\ Fields[1] = "sequence" /\ Fields[2] = "kind" /\ Fields[3] = "task"
        /\ i \in {1, 2, 3}
    BY FieldNames
  <2>2. writer = Fields[i] /\ writer' = IF i = Len(Fields) THEN "seal" ELSE Fields[i + 1] BY DEF StoreField
  <2>3. CASE i = 1
    <3> DEFINE r == [m EXCEPT !.sequence = sequence]
    <3>1. writer = "sequence" /\ writer' = "kind" BY SMTT(30), Z3T(30), <2>1, <2>3, <2>2
    <3>2. slot' = [slot EXCEPT ![Mine]["sequence"] = sequence]
      BY <2>1, <2>3 DEF StoreField
    <3>3. slot' = [slot EXCEPT ![Mine] = r] BY <3>2 DEF m
    <3>4. r \in Slots /\ r.version = m.version /\ r.sequence = sequence
      BY <1>2, <1>4 DEF Slots
    <3> HIDE DEF r
    <3> QED BY <3>1, <3>3, <3>4
  <2>4. CASE i = 2
    <3> DEFINE r == [m EXCEPT !.kind = Script[recorded].kind]
    <3>1. writer = "kind" /\ writer' = "task" BY SMTT(30), Z3T(30), <2>1, <2>4, <2>2
    <3>2. slot' = [slot EXCEPT ![Mine]["kind"] = Script[recorded].kind]
      BY <2>1, <2>4 DEF StoreField
    <3>3. slot' = [slot EXCEPT ![Mine] = r] BY <3>2 DEF m
    <3>4. r \in Slots /\ r.version = m.version /\ r.sequence = m.sequence /\ r.kind = Script[recorded].kind
      BY <1>2, <1>4 DEF Slots
    <3> HIDE DEF r
    <3> QED BY <3>1, <3>3, <3>4
  <2>5. CASE i = 3
    <3> DEFINE r == [m EXCEPT !.task = recorded]
    <3>1. writer = "task" /\ writer' = "seal" BY <2>1, <2>5, <2>2
    <3>2. slot' = [slot EXCEPT ![Mine]["task"] = recorded] BY <2>1, <2>5 DEF StoreField
    <3>3. slot' = [slot EXCEPT ![Mine] = r] BY <3>2 DEF m
    <3>4. r \in Slots /\ r.version = m.version /\ r.sequence = m.sequence /\ r.kind = m.kind /\ r.task = recorded
      BY <1>2, <1>4 DEF Slots
    <3> HIDE DEF r
    <3> QED BY <3>1, <3>3, <3>4
  <2> QED BY <2>1, <2>3, <2>4, <2>5
<1>6. (\A j \in 0 .. TRACE_DEPTH - 1 : j # Mine => slot'[j] = slot[j]) /\ slot'[Mine] = r
  BY <1>2, <1>3, <1>5
<1>7. slot'[Mine].version = m.version BY <1>5, <1>6
<1>8. Typed'
  <2>1. slot' \in [0 .. TRACE_DEPTH - 1 -> Slots] BY <1>2, <1>3, <1>5
  <2> QED BY <1>1, <2>1 DEF TraceInv, Typed
<1>9. \A j : (Changing(j) <=> j = Mine) /\ ((Changing(j))' <=> j = Mine)
  BY <1>1 DEF Changing
<1>10. m.version % 2 = 1 BY <1>2, <1>9 DEF TraceInv, Ring
<1>11. Ring'
  <2>1. \A j \in 0 .. TRACE_DEPTH - 1 : slot'[j].version % 2 = 1 <=> j = Mine
    BY <1>2, <1>6, <1>7, <1>9, <1>10 DEF TraceInv, Ring
  <2>2. ASSUME NEW j \in 0 .. TRACE_DEPTH - 1, j # Mine, slot'[j].sequence # 0
        PROVE  \E n \in 1 .. recorded' : Shows(slot'[j], n)
    <3>1. slot'[j] = slot[j] /\ ~Changing(j) BY <1>6, <1>9, <2>2
    <3>2. recorded' \in Nat /\ recorded' >= recorded BY SMTT(30), Z3T(30), <1>1, <1>2
    <3> QED BY <2>2, <3>1, <3>2, StillShows
  <2>3. sequence' = ((IF writer = "take" THEN recorded - 1 ELSE recorded) % SEQUENCES)'
    BY <1>1 DEF TraceInv, Ring, Storing
  <2>4. /\ writer' \in {"kind", "task", "seal"} => slot'[Mine].sequence = sequence
        /\ writer' \in {"task", "seal"} => slot'[Mine].kind = Script[recorded].kind
        /\ writer' = "seal" => slot'[Mine].task = recorded
    <3>1. /\ writer \in {"kind", "task"} => m.sequence = sequence
          /\ writer = "task" => m.kind = Script[recorded].kind
      BY DEF TraceInv, Ring
    <3> HIDE DEF m
    <3> QED BY <1>5, <1>6, <3>1
  <2> QED BY <1>1, <1>9, <2>1, <2>2, <2>3, <2>4 DEF Ring, Shows, Event
<1>12. Grows BY <1>2, <1>6, <1>7, <1>10 DEF Grows
<1> QED BY SMTT(30), Z3T(30), <1>1, <1>2, <1>8, <1>11, <1>12, ReaderUnmoved DEF TraceInv

\* The version goes even when the slot shows the event.
LEMMA SealKeeps == ASSUME Bounds, TraceInv, Seal PROVE TraceInv'
<1> DEFINE m == slot[Mine]
<1>1. /\ writer = "seal" /\ writer' = "publish" /\ recorded' = recorded /\ sequence' = sequence
      /\ recorded > 0 /\ Mine' = Mine /\ UNCHANGED <<reading, reader, published, counters>>
  BY DEF Seal, Mine, TraceInv, Ring
<1>2. Mine \in 0 .. TRACE_DEPTH - 1 /\ m \in Slots /\ m.version \in Nat /\ recorded \in Nat
  BY MineIsASlot
<1>3. slot \in [0 .. TRACE_DEPTH - 1 -> Slots] BY DEF TraceInv, Typed
<1>4. slot' = [slot EXCEPT ![Mine] = [m EXCEPT !.version = m.version + 1]] BY DEF Seal
<1> DEFINE r == [m EXCEPT !.version = m.version + 1]
<1>r. r \in Slots /\ r.version = m.version + 1 /\ r.sequence = m.sequence /\ r.kind = m.kind /\ r.task = m.task
  BY SMTT(30), Z3T(30), <1>2 DEF Slots
<1>w. slot' = [slot EXCEPT ![Mine] = r] BY <1>4
<1> HIDE DEF r
<1>5. (\A i \in 0 .. TRACE_DEPTH - 1 : i # Mine => slot'[i] = slot[i]) /\ slot'[Mine] = r BY <1>2, <1>3, <1>w
<1>6. /\ slot'[Mine].version = m.version + 1 /\ slot'[Mine].sequence = m.sequence
      /\ slot'[Mine].kind = m.kind /\ slot'[Mine].task = m.task
  BY <1>r, <1>5
<1>7. Typed'
  <2>1. slot' \in [0 .. TRACE_DEPTH - 1 -> Slots] BY <1>2, <1>3, <1>w, <1>r
  <2> QED BY <1>1, <2>1 DEF TraceInv, Typed
<1>8. \A i : Changing(i) <=> i = Mine BY <1>1 DEF Changing, Storing
<1>9. \A i : ~(Changing(i))' BY <1>1 DEF Changing, Storing
<1>10. m.version % 2 = 1 BY <1>2, <1>8 DEF TraceInv, Ring
<1>11. Ring'
  <2>1. slot'[Mine].version % 2 = 0 BY <1>2, <1>6, <1>10, Parity
  <2>2. \A i \in 0 .. TRACE_DEPTH - 1 : slot'[i].version % 2 # 1
    BY SMTT(30), Z3T(30), <1>5, <1>8, <2>1 DEF TraceInv, Ring
  <2>3. Shows(slot'[Mine], recorded)
    BY <1>1, <1>6 DEF TraceInv, Ring, Shows, Event
  <2>4. ASSUME NEW i \in 0 .. TRACE_DEPTH - 1, slot'[i].sequence # 0
        PROVE  \E n \in 1 .. recorded' : Shows(slot'[i], n)
    <3>1. CASE i = Mine BY SMTT(30), Z3T(30), <1>1, <1>2, <2>3, <3>1
    <3>2. CASE i # Mine
      BY SMTT(30), Z3T(30), <1>1, <1>2, <1>5, <1>8, <2>4, <3>2, StillShows
    <3> QED BY <3>1, <3>2
  <2>5. sequence' = ((IF writer = "take" THEN recorded - 1 ELSE recorded) % SEQUENCES)'
    BY <1>1 DEF TraceInv, Ring
  <2> QED BY <1>1, <1>9, <2>2, <2>4, <2>5 DEF Ring, Shows, Event
<1>12. Grows BY SMTT(30), Z3T(30), <1>2, <1>5, <1>6 DEF Grows
<1> QED BY SMTT(30), Z3T(30), <1>1, <1>2, <1>7, <1>11, <1>12, ReaderUnmoved DEF TraceInv

-----------------------------------------------------------------------------
(* The reader.                                                              *)

\* A load changes nothing the CPU keeps.
LEMMA RingUnmoved == ASSUME TraceInv, UNCHANGED written PROVE Ring'
  BY DEF TraceInv, Ring, written, Changing, Mine, Shows, Event

\* The first load of the version, which the reader refuses when it is odd.
LEMMA ReadVersionKeeps ==
  ASSUME Bounds, TraceInv, NEW q \in 1 .. SEQUENCES - 1, ReadVersion(q) PROVE TraceInv'
<1>1. q \in Nat /\ q # 0 BY SMTT(30), Z3T(30) DEF Bounds
<1> DEFINE v == slot[q % TRACE_DEPTH].version
<1>2. v \in Nat /\ v % 2 = 0
  BY <1>1, InRing DEF TraceInv, Typed, Slots, ReadVersion
<1>3. reader' = [None EXCEPT !.want = q, !.version = v] /\ reading' = "sequence" /\ UNCHANGED written
  BY DEF ReadVersion, Load
<1> HIDE DEF v
<1>4. reader' \in Readers /\ reader'.want = q /\ reader'.version = v
  BY <1>1, <1>2, <1>3 DEF None, Readers
<1>5. Typed' BY <1>3, <1>4 DEF TraceInv, Typed, Loading, written
<1>6. slot'[Theirs'].version = v BY <1>3, <1>4 DEF written, Theirs, v
<1>7. Held' BY SMTT(30), Z3T(30), <1>1, <1>2, <1>3, <1>4, <1>6 DEF Held
<1>8. AnswersAreWhole' BY <1>3 DEF AnswersAreWhole
<1> QED BY <1>3, <1>5, <1>7, <1>8, RingUnmoved DEF TraceInv

\* The loads of the payload.
LEMMA ReadFieldKeeps ==
  ASSUME Bounds, TraceInv, NEW i \in 1 .. Len(Fields), ReadField(i) PROVE TraceInv'
<1> DEFINE t == slot[Theirs]
<1>1. /\ UNCHANGED written /\ reader \in Readers /\ reading = Fields[i]
      /\ reading' = IF i = Len(Fields) THEN "again" ELSE Fields[i + 1]
      /\ reader' = [reader EXCEPT ![Fields[i]] = t[Fields[i]]]
  BY DEF ReadField, Load, TraceInv, Typed
<1>2. Theirs \in 0 .. TRACE_DEPTH - 1 BY <1>1, InRing DEF Theirs, Readers
<1>3. t \in Slots BY <1>2 DEF TraceInv, Typed
<1> HIDE DEF t
<1>4. /\ reader' \in Readers /\ reader'.want = reader.want /\ reader'.version = reader.version
      /\ \/ reading = "sequence" /\ reading' = "kind" /\ reader'.sequence = t.sequence
         \/ /\ reading = "kind" /\ reading' = "task" /\ reader'.sequence = reader.sequence
            /\ reader'.kind = t.kind
         \/ /\ reading = "task" /\ reading' = "again" /\ reader'.sequence = reader.sequence
            /\ reader'.kind = reader.kind /\ reader'.task = t.task
  <2>1. /\ Len(Fields) = 3 /\ Fields[1] = "sequence" /\ Fields[2] = "kind" /\ Fields[3] = "task"
        /\ i \in {1, 2, 3}
    BY FieldNames
  <2>2. CASE i = 1
    <3>1. reading = "sequence" /\ reading' = "kind" BY SMTT(30), Z3T(30), <1>1, <2>1, <2>2
    <3>2. reader' = [reader EXCEPT !.sequence = t.sequence] BY <1>1, <2>1, <2>2
    <3> QED BY <1>1, <1>3, <3>1, <3>2 DEF Readers, Slots
  <2>3. CASE i = 2
    <3>1. reading = "kind" /\ reading' = "task" BY SMTT(30), Z3T(30), <1>1, <2>1, <2>3
    <3>2. reader' = [reader EXCEPT !.kind = t.kind] BY <1>1, <2>1, <2>3
    <3> QED BY <1>1, <1>3, <3>1, <3>2 DEF Readers, Slots
  <2>4. CASE i = 3
    <3>1. reading = "task" /\ reading' = "again" BY <1>1, <2>1, <2>4
    <3>2. reader' = [reader EXCEPT !.task = t.task] BY <1>1, <2>1, <2>4
    <3> QED BY <1>1, <1>3, <3>1, <3>2 DEF Readers, Slots
  <2> QED BY <2>1, <2>2, <2>3, <2>4
<1>5. reading \in Loading /\ reading' \in Loading BY <1>4 DEF Loading
<1>6. Typed' BY <1>1, <1>4, <1>5 DEF TraceInv, Typed, written
<1>7. Theirs' = Theirs /\ slot'[Theirs'] = t BY <1>1, <1>4 DEF Theirs, written, t
<1>8. Held'
  <2>1. /\ reader.want # 0 /\ reader.version % 2 = 0 /\ reader.version <= t.version
        /\ reader.version = t.version =>
             /\ reading # "sequence" => reader.sequence = t.sequence
             /\ reading \in {"task", "again"} => reader.kind = t.kind
    BY <1>5 DEF TraceInv, Held, t
  <2> QED BY <1>4, <1>7, <2>1 DEF Held
<1>9. AnswersAreWhole' BY <1>5 DEF AnswersAreWhole, Loading
<1> QED BY <1>1, <1>6, <1>8, <1>9, RingUnmoved DEF TraceInv

\* The second load of the version: the same even version means that the slot rested.
LEMMA ReadVersionAgainKeeps == ASSUME Bounds, TraceInv, ReadVersionAgain PROVE TraceInv'
<1> DEFINE t == slot[Theirs]
<1>1. UNCHANGED written /\ reading = "again" /\ reader \in Readers /\ reader.want # 0 /\ reader.version % 2 = 0
  BY DEF ReadVersionAgain, Load, TraceInv, Typed, Held, Loading
<1>2. Theirs \in 0 .. TRACE_DEPTH - 1 BY <1>1, InRing DEF Theirs, Readers
<1>3. CASE t.version = reader.version /\ reader.sequence = reader.want
  <2>1. reading' = "answered" /\ reader' = reader BY <1>3 DEF ReadVersionAgain, Load
  <2>2. Typed' BY <1>1, <2>1 DEF TraceInv, Typed, written
  <2>3. reader.sequence = t.sequence /\ reader.kind = t.kind /\ reader.task = t.task
    BY <1>1, <1>3 DEF TraceInv, Held, Loading
  <2>4. ~Changing(Theirs) BY SMTT(30), Z3T(30), <1>1, <1>2, <1>3 DEF TraceInv, Ring
  <2>5. \E n \in 1 .. recorded : Shows(t, n)
    BY <1>1, <1>2, <1>3, <2>3, <2>4 DEF TraceInv, Ring
  <2>6. PICK n \in 1 .. recorded : Shows(t, n) BY <2>5
  <2>7. Shows(reader, n) BY <2>3, <2>6 DEF Shows
  <2>8. AnswersAreWhole'
    BY <1>1, <1>3, <2>1, <2>7 DEF AnswersAreWhole, written, Shows, Event
  <2>9. Held' BY <2>1 DEF Held, Loading
  <2> QED BY <1>1, <2>2, <2>8, <2>9, RingUnmoved DEF TraceInv
<1>4. CASE ~(t.version = reader.version /\ reader.sequence = reader.want)
  <2>1. reading' = "idle" /\ reader' = None BY <1>4 DEF ReadVersionAgain, Load
  <2>2. None \in Readers BY DEF None, Readers
  <2>3. Typed' BY <1>1, <2>1, <2>2 DEF TraceInv, Typed, written
  <2> QED BY <1>1, <2>1, <2>3, RingUnmoved DEF TraceInv, Held, Loading, AnswersAreWhole
<1> QED BY <1>3, <1>4

\* The loads of a snapshot of the counters.
LEMMA SnapshotKeeps ==
  ASSUME TraceInv, LoadLatest \/ (\E k \in Kinds : LoadCounter(k)) PROVE TraceInv'
<1>1. UNCHANGED written /\ reading' \in {"counters", "counted"}
  BY DEF LoadLatest, LoadCounter, Load
<1>2. reader' \in Readers
  <2>1. CASE LoadLatest BY <2>1 DEF LoadLatest, Load, None, Readers, TraceInv, Typed
  <2>2. ASSUME NEW k \in Kinds, LoadCounter(k) PROVE reader' \in Readers
    <3>1. counters[k] \in Nat BY DEF TraceInv, Typed
    <3> QED BY <2>2, <3>1 DEF LoadCounter, Load, Readers, TraceInv, Typed
  <2> QED BY <2>1, <2>2
<1>3. Typed' BY <1>1, <1>2 DEF TraceInv, Typed, written
<1> QED BY <1>1, <1>3, RingUnmoved DEF TraceInv, Held, Loading, AnswersAreWhole

-----------------------------------------------------------------------------
\* An event that a reader gets was recorded whole under the sequence it asked for,
\* for every depth of the ring, every wrap of the sequence and every script of
\* events (EventSlot::publish and snapshot).
THEOREM ReadersSeeWholeEvents == ASSUME Bounds PROVE Spec => []AnswersAreWhole
<1>1. Init => TraceInv
  <2> SUFFICES ASSUME Init PROVE TraceInv OBVIOUS
  <2>1. Typed
    <3>1. None \in Readers BY DEF None, Readers
    <3>2. 0 <= Len(Script) BY SMTT(30), Z3T(30) DEF Bounds
    <3>3. slot \in [0 .. TRACE_DEPTH - 1 -> Slots] BY DEF Init, Slots
    <3>4. counters \in [Kinds \cup {"outermost", "timer"} -> Nat] BY DEF Init
    <3> QED BY <3>1, <3>2, <3>3, <3>4 DEF Init, Typed
  <2>2. 0 % SEQUENCES = 0
    <3>1. SEQUENCES \in Int /\ SEQUENCES > 0 /\ 0 = SEQUENCES * 0 + 0
      BY SMTT(30), Z3T(30) DEF Bounds
    <3> QED BY SMTT(30), Z3T(30), <3>1, Remainder
  <2>3. Ring BY SMTT(30), Z3T(30), <2>2 DEF Init, Ring, Changing, Storing
  <2>4. Held /\ AnswersAreWhole BY DEF Init, Held, Loading, AnswersAreWhole
  <2> QED BY <2>1, <2>3, <2>4 DEF TraceInv
<1>2. TraceInv /\ [Next]_vars => TraceInv'
  <2> SUFFICES ASSUME TraceInv, [Next]_vars PROVE TraceInv' OBVIOUS
  <2>1. CASE UNCHANGED vars
    <3>1. UNCHANGED <<written, reading, reader>> BY <2>1 DEF vars
    <3> QED BY <3>1, RingUnmoved
               DEF written, TraceInv, Typed, Held, Theirs, AnswersAreWhole, Shows, Event
  <2>2. CASE Next
    BY <2>2, CountKeeps, TakeSequenceKeeps, MarkKeeps, StoreFieldKeeps, SealKeeps,
       PublishKeeps,
       ReadVersionKeeps, ReadFieldKeeps, ReadVersionAgainKeeps, SnapshotKeeps DEF Next
  <2> QED BY <2>1, <2>2
<1>3. TraceInv => AnswersAreWhole BY DEF TraceInv
<1> QED BY <1>1, <1>2, <1>3, PTL DEF Spec
=============================================================================
