-------------------------------- MODULE Pmu --------------------------------
(***************************************************************************)
(* thekernel-axpmu lib.rs: sessions over the counters of a backend whose   *)
(* calls may fail, and the default-off software diagnostics.  A session    *)
(* borrows the backend, so sessions follow one another; what one of them   *)
(* could not release stays taken.  The diagnostics are lock-free words     *)
(* that recorders and a reader share.  The two share nothing.              *)
(***************************************************************************)
EXTENDS Integers, Sequences

CONSTANTS Counters,      \* the backend's counters
          Events,        \* events a caller may name
          Requestable,   \* those the capabilities offer
          Capacity,      \* N, slots of a session
          Recorders,     \* CPUs that record a flush avoided
          MaxCount,      \* usize::MAX
          MaxRecords,    \* bound: records of each recorder
          MaxResets      \* bound: resets of the diagnostics

VARIABLES
    held,      \* backend: counters configured
    counting,  \* backend: counters that count
    open,      \* a session exists
    slots,     \* session: its counters in request order
    running,   \* session
    refused,   \* counters whose last release the backend refused
    started,   \* the last start or stop of the session succeeded
    enabled, count, saturated,   \* SoftwareDiagnostics
    rpc, records,   \* recorder: next step, records made
    added, read,    \* increments made and increments returned by resets
    resets, half    \* resets made; the reset between its two swaps

backend == <<held, counting>>
session == <<open, slots, running, refused, started>>
diagnostics == <<enabled, count, saturated, rpc, records, added, read, resets, half>>
vars == <<backend, session, diagnostics>>

Init ==
    /\ held = {} /\ counting = {} /\ open = FALSE /\ slots = <<>> /\ running = FALSE
    /\ refused = {} /\ started = FALSE
    /\ enabled = FALSE /\ count = 0 /\ saturated = FALSE
    /\ rpc = [r \in Recorders |-> "idle"] /\ records = [r \in Recorders |-> 0]
    /\ added = 0 /\ read = 0 /\ resets = 0 /\ half = FALSE

Range(s) == {s[i] : i \in 1 .. Len(s)}
Mine == Range(slots)

-----------------------------------------------------------------------------
(* Session.                                                                 *)

Fresh(cs) ==
    /\ \A i \in 1 .. Len(cs) : cs[i] \in Counters \ held
    /\ \A i, j \in 1 .. Len(cs) : i # j => cs[i] # cs[j]

Distinct(es, n) == \A i, j \in 1 .. n : i # j => es[i] # es[j]

\* open, when the backend configures every counter.
Open(es, cs) ==
    /\ ~open /\ Len(es) = Len(cs) /\ Len(es) \in 1 .. Capacity
    /\ Range(es) \subseteq Requestable /\ Distinct(es, Len(es)) /\ Fresh(cs)
    /\ open' = TRUE /\ slots' = cs /\ running' = FALSE /\ started' = FALSE
    /\ held' = held \cup Range(cs)
    /\ UNCHANGED <<counting, refused, diagnostics>>

\* open that fails after the counters cs: the next event is a duplicate, is not
\* offered or finds the backend unwilling.  release_prefix gives cs back, but for
\* those the backend refuses to take.
OpenFails(es, cs, bad) ==
    /\ ~open /\ Len(es) <= Capacity /\ Len(cs) < Len(es)
    /\ Range(SubSeq(es, 1, Len(cs))) \subseteq Requestable /\ Distinct(es, Len(cs)) /\ Fresh(cs)
    /\ bad \subseteq Range(cs)
    /\ held' = held \cup bad /\ refused' = refused \cup bad
    /\ UNCHANGED <<counting, open, slots, running, started, diagnostics>>

\* start: the first n counters start; if that is not all of them the backend
\* refused the next one, and `bad` are those it then refuses to stop again.
Start(n, bad) ==
    /\ open /\ ~running /\ n \in 0 .. Len(slots)
    /\ LET first == {slots[i] : i \in 1 .. n} IN
       /\ bad \subseteq first /\ (n = Len(slots) => bad = {})
       /\ counting' = counting \cup (IF n = Len(slots) THEN first ELSE bad)
       /\ running' = (n = Len(slots) \/ bad # {})
    /\ started' = (n = Len(slots))
    /\ UNCHANGED <<held, open, slots, refused, diagnostics>>

\* Mutation: one counter that stops is enough.
StopLax(bad, lying) ==
    /\ open /\ running /\ bad \subseteq Mine /\ lying \subseteq bad
    /\ counting' = counting \ (Mine \ (bad \ lying))
    /\ running' = (bad = Mine) /\ started' = FALSE
    /\ UNCHANGED <<held, open, slots, refused, diagnostics>>

\* stop, which the backend refuses for `bad`; some of those may have stopped.
Stop(bad, lying) ==
    /\ open /\ running /\ bad \subseteq Mine /\ lying \subseteq bad
    /\ counting' = counting \ (Mine \ (bad \ lying))
    /\ running' = (bad # {}) /\ started' = FALSE
    /\ UNCHANGED <<held, open, slots, refused, diagnostics>>

\* close and the drop that follows it: cleanup releases every counter, and the
\* drop tries the refused ones again unless close succeeded.  A session dropped
\* without close has one attempt.  Of the counters refused in the end, `alive`
\* still count: release stops a counter first, when it gets that far.
Close(bad, again, alive) ==
    /\ open /\ bad \subseteq Mine /\ again \subseteq bad /\ alive \subseteq again
    /\ held' = held \ (Mine \ again) /\ refused' = refused \cup again
    /\ counting' = counting \ (Mine \ alive)
    /\ open' = FALSE /\ slots' = <<>> /\ running' = FALSE /\ started' = FALSE
    /\ UNCHANGED diagnostics

-----------------------------------------------------------------------------
(* SoftwareDiagnostics.                                                     *)

SetEnabled(b) ==
    /\ enabled' = b /\ enabled # b
    /\ UNCHANGED <<backend, session, count, saturated, rpc, records, added, read, resets, half>>

\* record_asid_tlb_flush_avoided: the load, the update, the mark.
LoadEnabled(r) ==
    /\ rpc[r] = "idle" /\ records[r] < MaxRecords
    /\ records' = [records EXCEPT ![r] = @ + 1]
    /\ rpc' = [rpc EXCEPT ![r] = IF enabled THEN "update" ELSE "idle"]
    /\ UNCHANGED <<backend, session, enabled, count, saturated, added, read, resets, half>>

\* try_update_usize retries until its increment or its refusal is current.
Update(r) ==
    /\ rpc[r] = "update"
    /\ IF count < MaxCount
       THEN count' = count + 1 /\ added' = added + 1 /\ rpc' = [rpc EXCEPT ![r] = "idle"]
       ELSE rpc' = [rpc EXCEPT ![r] = "mark"] /\ UNCHANGED <<count, added>>
    /\ UNCHANGED <<backend, session, enabled, saturated, records, read, resets, half>>

MarkSaturated(r) ==
    /\ rpc[r] = "mark" /\ saturated' = TRUE /\ rpc' = [rpc EXCEPT ![r] = "idle"]
    /\ UNCHANGED <<backend, session, enabled, count, records, added, read, resets, half>>

\* snapshot_and_reset: two swaps.
SwapCount ==
    /\ ~half /\ resets < MaxResets /\ half' = TRUE
    /\ read' = read + count /\ count' = 0
    /\ UNCHANGED <<backend, session, enabled, saturated, rpc, records, added, resets>>

SwapSaturated ==
    /\ half /\ half' = FALSE /\ saturated' = FALSE /\ resets' = resets + 1
    /\ UNCHANGED <<backend, session, enabled, count, rpc, records, added, read>>

Requests == UNION {[1 .. n -> Events] : n \in 1 .. Capacity}
Handles == UNION {[1 .. n -> Counters] : n \in 0 .. Capacity}

Sessions ==
    \/ \E es \in Requests, cs \in Handles : Open(es, cs)
    \/ \E es \in Requests, cs \in Handles, bad \in SUBSET Counters : OpenFails(es, cs, bad)
    \/ \E n \in 0 .. Capacity, bad \in SUBSET Counters : Start(n, bad)
    \/ \E bad, lying \in SUBSET Counters : Stop(bad, lying)
    \/ \E bad, again, alive \in SUBSET Counters : Close(bad, again, alive)

Diagnostics ==
    \/ (\E b \in BOOLEAN : SetEnabled(b)) \/ SwapCount \/ SwapSaturated
    \/ (\E r \in Recorders : LoadEnabled(r) \/ Update(r) \/ MarkSaturated(r))

Next == Sessions \/ Diagnostics

Spec == Init /\ [][Next]_vars

-----------------------------------------------------------------------------
\* Whatever the backend refuses, a session that does not run counts nothing, one
\* whose start succeeded counts with every counter (start, stop), no two slots
\* share a counter, and a counter outlives its session or a failed open only if
\* the backend refused its last release (open, release_prefix, cleanup, drop).
\* No increment of the diagnostics is lost or counted twice, and they saturate
\* (record_asid_tlb_flush_avoided, snapshot_and_reset).
PmuSound ==
    /\ open /\ ~running => Mine \cap counting = {}
    /\ started => running /\ Mine \subseteq counting
    /\ counting \subseteq held /\ Mine \subseteq held
    /\ \A i, j \in 1 .. Len(slots) : slots[i] = slots[j] => i = j
    /\ held \subseteq Mine \cup refused
    /\ added = read + count /\ count <= MaxCount
=============================================================================
