------------------------------ MODULE PmuProofs ------------------------------
(***************************************************************************)
(* PmuSound for any backend: any counters, any capacity, any number of     *)
(* recorders, and whichever calls the backend refuses.                     *)
(***************************************************************************)
EXTENDS Pmu, TLAPS

\* A session that is gone has left nothing in the words of the next one, and the
\* accounts of the diagnostics are numbers (open, cleanup, snapshot_and_reset).
Between ==
    /\ open \in BOOLEAN /\ running \in BOOLEAN /\ started \in BOOLEAN
    /\ slots \in Seq(Counters)
    /\ ~open => slots = <<>> /\ ~running /\ ~started
    /\ count \in Nat /\ added \in Nat /\ read \in Nat

\* What is inductive: PmuSound alone forgets that words of a closed session are
\* clear, on which the next open relies.
PmuInv == Between /\ PmuSound

\* Before the first session nothing is held (SoftwareDiagnostics::new).
LEMMA InitHolds == ASSUME MaxCount \in Nat PROVE Init => PmuInv
<1> SUFFICES ASSUME Init PROVE PmuInv OBVIOUS
<1>1. Between
  <2>1. slots \in Seq(Counters) /\ count \in Nat /\ added \in Nat /\ read \in Nat BY DEF Init
  <2> QED BY <2>1, Zenon DEF Init, Between
<1>2. Mine = {} BY DEF Init, Mine, Range
<1>3. PmuSound BY <1>2 DEF Init, PmuSound
<1> QED BY <1>1, <1>3 DEF PmuInv

\* open, whether or not the backend configures every counter.
LEMMA OpenKeeps ==
  ASSUME PmuInv, NEW es, NEW cs \in Seq(Counters), NEW bad, Open(es, cs) \/ OpenFails(es, cs, bad)
  PROVE  PmuInv'
<1>1. CASE Open(es, cs)
  <2>1. Between' BY <1>1 DEF Open, PmuInv, Between, diagnostics
  <2>2. Mine' = Range(cs) /\ Range(cs) \cap held = {}
    BY <1>1 DEF Open, Mine, Range, Fresh
  <2>3. PmuSound'
    BY <1>1, <2>2 DEF Open, PmuInv, PmuSound, Between, Mine, Range, Fresh, diagnostics
  <2> QED BY <2>1, <2>3 DEF PmuInv
<1>2. CASE OpenFails(es, cs, bad)
  BY <1>2 DEF OpenFails, PmuInv, PmuSound, Between, Mine, Range, diagnostics
<1> QED BY <1>1, <1>2

\* start, with its rollback.
LEMMA StartKeeps ==
  ASSUME PmuInv, NEW n, NEW bad, Start(n, bad) PROVE PmuInv'
<1>1. {slots[i] : i \in 1 .. n} \subseteq Mine
  BY DEF Start, Mine, Range, PmuInv, Between
<1>2. n = Len(slots) => {slots[i] : i \in 1 .. n} = Mine
  BY DEF Mine, Range
<1>3. Between' BY DEF Start, PmuInv, Between, diagnostics
<1>4. Mine' = Mine BY DEF Start, Mine, Range
<1>5. /\ counting \subseteq counting' /\ counting' \subseteq counting \cup Mine
      /\ ~running' => counting' = counting
      /\ started' => running' /\ Mine \subseteq counting'
  BY <1>1, <1>2 DEF Start
<1>6. /\ ~running /\ open /\ UNCHANGED <<held, open, slots, refused, count, added, read>>
  BY DEF Start, diagnostics
<1>7. PmuSound' BY <1>4, <1>5, <1>6 DEF PmuInv, PmuSound
<1> QED BY <1>3, <1>7 DEF PmuInv

\* stop, which leaves the session running while a counter counts.
LEMMA StopKeeps ==
  ASSUME PmuInv, NEW bad, NEW lying, Stop(bad, lying) PROVE PmuInv'
<1>1. Mine' = Mine BY DEF Stop, Mine, Range
<1> QED BY <1>1 DEF Stop, PmuInv, PmuSound, Between, diagnostics

\* close, and the drop that tries again.
LEMMA CloseKeeps ==
  ASSUME PmuInv, NEW bad, NEW again, NEW alive, Close(bad, again, alive) PROVE PmuInv'
<1>1. Mine' = {} BY DEF Close, Mine, Range
<1>2. Between'
  <2>1. slots' \in Seq(Counters) BY DEF Close
  <2>2. count' \in Nat /\ added' \in Nat /\ read' \in Nat
    BY DEF Close, PmuInv, Between, diagnostics
  <2> QED BY <2>1, <2>2, Zenon DEF Close, Between
<1>3. PmuSound' BY <1>1 DEF Close, PmuInv, PmuSound, Between, diagnostics
<1> QED BY <1>2, <1>3 DEF PmuInv

\* Recorders and resets touch no word of a session.
LEMMA DiagnosticsKeep ==
  ASSUME MaxCount \in Nat, PmuInv, Diagnostics PROVE PmuInv'
<1>1. UNCHANGED <<backend, session>>
  BY DEF Diagnostics, SetEnabled, SwapCount, SwapSaturated, LoadEnabled, Update, MarkSaturated
<1>2. count' \in Nat /\ added' \in Nat /\ read' \in Nat /\ added' = read' + count' /\ count' <= MaxCount
  BY DEF Diagnostics, SetEnabled, SwapCount, SwapSaturated, LoadEnabled, Update, MarkSaturated,
         PmuInv, PmuSound, Between
<1>3. Mine' = Mine BY <1>1 DEF Mine, Range, session
<1>4. Between' BY <1>1, <1>2 DEF PmuInv, Between, session
<1>5. PmuSound' BY <1>1, <1>2, <1>3 DEF PmuInv, PmuSound, backend, session
<1> QED BY <1>4, <1>5 DEF PmuInv

\* PmuSound holds in every session over every backend: what a refused call leaves
\* behind is known to the session or to the backend's refusal (open, start, stop,
\* close, drop), and no diagnostic increment is lost.
THEOREM SessionsAreSound ==
  ASSUME MaxCount \in Nat PROVE Spec => []PmuSound
<1>1. Init => PmuInv BY InitHolds
<1>2. PmuInv /\ [Next]_vars => PmuInv'
  <2> SUFFICES ASSUME PmuInv, [Next]_vars PROVE PmuInv' OBVIOUS
  <2>1. CASE UNCHANGED vars
    BY <2>1 DEF vars, backend, session, diagnostics, PmuInv, PmuSound, Between, Mine, Range
  <2>2. CASE Sessions
    <3>1. ASSUME NEW es \in Requests, NEW cs \in Handles, NEW bad \in SUBSET Counters,
                 Open(es, cs) \/ OpenFails(es, cs, bad)
          PROVE  PmuInv'
      <4>1. cs \in Seq(Counters) BY DEF Handles
      <4> QED BY <3>1, <4>1, OpenKeeps
    <3> QED BY <2>2, <3>1, StartKeeps, StopKeeps, CloseKeeps DEF Sessions
  <2>3. CASE Diagnostics BY <2>3, DiagnosticsKeep
  <2> QED BY <2>1, <2>2, <2>3 DEF Next
<1>3. PmuInv => PmuSound BY DEF PmuInv
<1> QED BY <1>1, <1>2, <1>3, PTL DEF Spec
=============================================================================
