----------------------------- MODULE EventTrace ------------------------------
(***************************************************************************)
(* thekernel-axtask irq_continuation_diagnostics.rs: the trace of one CPU. *)
(* The CPU records events with interrupts off; anybody reads them without  *)
(* a lock.  Every store and load of a shared word is one step, in program  *)
(* order.  Of the payload, kind and task_id are kept: the other words are  *)
(* written and read like them.                                             *)
(***************************************************************************)
EXTENDS Integers, Sequences, FiniteSets

CONSTANTS TRACE_DEPTH, \* divides SEQUENCES
          SEQUENCES,   \* how many values a sequence number has (2^64 in the code)
          Script,      \* the events the CPU records, [kind, depth]
          MaxTimers    \* bound: timer events

Kinds == {"preempt_disable", "preempt_enable", "preempt_enable_return", "preempt_check",
          "preempt_check_return", "context_switch", "yield_enter", "yield_return",
          "idle_after_yield", "context_switch_return"}
Fields == <<"sequence", "kind", "task">>
None == [version |-> 0, want |-> 0, sequence |-> 0, kind |-> "none", task |-> 0, latest |-> 0]

VARIABLES
    counters,   \* one for each kind, "outermost" and "timer"
    sequence,   \* next_sequence
    published,  \* published_sequence
    slot,       \* the ring of EventSlots
    recorded,   \* calls of record so far; the task of an event is its number
    writer,     \* the CPU's next store in record
    reading,    \* the reader's next load
    reader      \* what it holds

written == <<counters, sequence, published, slot, recorded, writer>>
vars == <<written, reading, reader>>

Init ==
    /\ counters = [k \in Kinds \cup {"outermost", "timer"} |-> 0]
    /\ sequence = 0 /\ published = 0 /\ recorded = 0 /\ writer = "idle"
    /\ slot = [i \in 0 .. TRACE_DEPTH - 1 |-> [version |-> 0, sequence |-> 0, kind |-> "none", task |-> 0]]
    /\ reading = "idle" /\ reader = None

-----------------------------------------------------------------------------
(* record and publish.                                                      *)

\* The counters an event moves: preempt_enable has one for the outermost.
Counted(e) ==
    {e.kind} \cup (IF e.kind = "preempt_enable" /\ e.depth = 1 THEN {"outermost"} ELSE {})

Count ==
    /\ writer = "idle" /\ recorded < Len(Script)
    /\ recorded' = recorded + 1 /\ writer' = "take"
    /\ counters' = [k \in DOMAIN counters |->
                      counters[k] + IF k \in Counted(Script[recorded + 1]) THEN 1 ELSE 0]
    /\ UNCHANGED <<sequence, published, slot, reading, reader>>

\* Sequence 0 stands for no event: the call that draws it leaves no trace.
TakeSequence ==
    /\ writer = "take" /\ sequence' = (sequence + 1) % SEQUENCES
    /\ writer' = IF sequence' = 0 THEN "idle" ELSE "mark"
    /\ UNCHANGED <<counters, published, slot, recorded, reading, reader>>

Mine == sequence % TRACE_DEPTH

\* The version is odd while the payload changes.
Mark ==
    /\ writer = "mark" /\ writer' = "sequence"
    /\ slot' = [slot EXCEPT ![Mine].version = @ + 1]
    /\ UNCHANGED <<counters, sequence, published, recorded, reading, reader>>

StoreField(i) ==
    /\ writer = Fields[i] /\ writer' = IF i = Len(Fields) THEN "seal" ELSE Fields[i + 1]
    /\ slot' = [slot EXCEPT ![Mine][Fields[i]] =
                  CASE i = 1 -> sequence [] i = 2 -> Script[recorded].kind [] i = 3 -> recorded]
    /\ UNCHANGED <<counters, sequence, published, recorded, reading, reader>>

Seal ==
    /\ writer = "seal" /\ writer' = "publish"
    /\ slot' = [slot EXCEPT ![Mine].version = @ + 1]
    /\ UNCHANGED <<counters, sequence, published, recorded, reading, reader>>

Publish ==
    /\ writer = "publish" /\ writer' = "idle" /\ published' = sequence
    /\ UNCHANGED <<counters, sequence, slot, recorded, reading, reader>>

\* record_timer_event has a counter only.
RecordTimerEvent ==
    /\ writer = "idle" /\ counters["timer"] < MaxTimers
    /\ counters' = [counters EXCEPT !["timer"] = @ + 1]
    /\ UNCHANGED <<sequence, published, slot, recorded, writer, reading, reader>>

-----------------------------------------------------------------------------
(* irq_continuation_diagnostic_event(cpu, q), which asks a slot for it.     *)

Ready == reading \in {"idle", "answered", "counted"}
Theirs == reader.want % TRACE_DEPTH
Load(next, r) == reading' = next /\ reader' = r /\ UNCHANGED written

\* Sequence 0 and a slot that is being written are answered with nothing.
ReadVersion(q) ==
    /\ Ready /\ q # 0 /\ slot[q % TRACE_DEPTH].version % 2 = 0
    /\ Load("sequence", [None EXCEPT !.want = q, !.version = slot[q % TRACE_DEPTH].version])

ReadField(i) ==
    /\ reading = Fields[i]
    /\ Load(IF i = Len(Fields) THEN "again" ELSE Fields[i + 1],
            [reader EXCEPT ![Fields[i]] = slot[Theirs][Fields[i]]])

ReadVersionAgain ==
    /\ reading = "again"
    /\ IF slot[Theirs].version = reader.version /\ reader.sequence = reader.want
       THEN Load("answered", reader) ELSE Load("idle", None)

-----------------------------------------------------------------------------
(* irq_continuation_diagnostic_snapshot: the sequence, then the counters.   *)

LoadLatest ==
    /\ Ready /\ Load("counters", [None EXCEPT !.latest = published])

\* One of the counters: each is a load of its own.
LoadCounter(k) ==
    /\ reading = "counters" /\ Load("counted", [reader EXCEPT !.kind = k, !.task = counters[k]])

Next ==
    \/ Count \/ TakeSequence \/ Mark \/ (\E i \in 1 .. Len(Fields) : StoreField(i)) \/ Seal \/ Publish
    \/ RecordTimerEvent
    \/ (\E q \in 1 .. SEQUENCES - 1 : ReadVersion(q)) \/ (\E i \in 1 .. Len(Fields) : ReadField(i))
    \/ ReadVersionAgain \/ LoadLatest \/ (\E k \in Kinds : LoadCounter(k))

Spec == Init /\ [][Next]_vars

-----------------------------------------------------------------------------
\* The n-th event, as the ring should show it.
Event(n) == [sequence |-> n % SEQUENCES, kind |-> Script[n].kind, task |-> n]
Shows(r, n) == r.sequence = Event(n).sequence /\ r.kind = Event(n).kind /\ r.task = Event(n).task

\* An event that a reader gets is one that was recorded under the sequence it asked
\* for, whole, although the CPU overwrites the ring meanwhile (EventSlot::publish
\* and snapshot).
AnswersAreWhole ==
    reading = "answered" => \E n \in 1 .. recorded : Shows(reader, n) /\ reader.want = reader.sequence

\* Answers are whole; the event last published is in its slot until a later event
\* takes it; and a snapshot's counters include every event up to its latest_sequence,
\* which it loads first (event n has sequence n until the sequences wrap).
TraceSound ==
    /\ AnswersAreWhole
    /\ published # 0 =>
         LET s == slot[published % TRACE_DEPTH] IN s.version % 2 = 0 /\ s.sequence = published
                                                   /\ \E n \in 1 .. recorded : Shows(s, n)
    /\ reading = "counted" =>
         reader.task >= Cardinality({n \in 1 .. reader.latest : Script[n].kind = reader.kind})
=============================================================================
