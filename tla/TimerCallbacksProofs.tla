------------------------ MODULE TimerCallbacksProofs ------------------------
(* Proofs about TimerCallbacks, for every capacity and generation bound.   *)
EXTENDS TimerCallbacks, FiniteSetTheorems, TLAPS

\* What the proof of LeasePins needs of the types.
Types ==
    /\ gen \in [Slots -> Nat] /\ flight \in [Slots -> Nat]
    /\ box \subseteq Slots /\ closing \subseteq Slots
    /\ leases \subseteq Tokens /\ running \subseteq leases
    /\ live \subseteq Tokens

\* Every part of the state the leases and tokens depend on: a slot leased is a
\* slot that owns its closure, in-flight counts and leases agree, a cancelled
\* closure waits for a lease, and the live tokens are those of the slots.
LeaseInv ==
    /\ Types
    /\ LeasePins
    /\ NoOrphanBox
    /\ live = {<<s, gen[s]>> : s \in box \ closing}

\* Two leases of one slot are the same lease, since both carry its generation.
LEMMA OneLease ==
    ASSUME Types, LeasePins, NEW l \in leases, NEW m \in leases, l[1] = m[1]
    PROVE  l = m
    BY DEF Types, LeasePins, Tokens

\* A registration takes a slot no lease refers to.
LEMMA RegisterKeeps ==
    ASSUME LeaseInv, NEW s \in Slots, Register(s) PROVE LeaseInv'
<1> USE DEF LeaseInv
<1>1. s \notin box /\ flight[s] = 0 /\ \A l \in leases : l[1] # s
    BY DEF Register, Free, LeasePins
<1>2. Types'
    BY DEF Types, Register, Tokens
<1>3. LeasePins'
    BY <1>1 DEF LeasePins, Register, Types
<1>4. NoOrphanBox'
    BY <1>1 DEF NoOrphanBox, Register, Types
<1>5. live' = {<<r, gen'[r]>> : r \in box' \ closing'}
    BY <1>1 DEF Register, Types
<1> QED BY <1>2, <1>3, <1>4, <1>5

\* A cancellation destroys only a closure that is not leased.
LEMMA CancelKeeps ==
    ASSUME LeaseInv, NEW s \in Slots, NEW g \in 1 .. MaxGeneration, Cancel(s, g)
    PROVE  LeaseInv'
<1> USE DEF LeaseInv
<1>1. flight[s] = 0 => \A l \in leases : l[1] # s
    BY DEF LeasePins
<1>2. flight[s] # 0 => \E l \in leases : l[1] = s
    BY DEF NoOrphanBox
<1>3. Types'
    BY DEF Types, Cancel, Tokens
<1>4. LeasePins'
    BY <1>1 DEF LeasePins, Cancel, Types
<1>5. NoOrphanBox'
    BY <1>1, <1>2 DEF NoOrphanBox, Cancel, Types
<1>6. live' = {<<r, gen'[r]>> : r \in box' \ closing'}
  <2>1. box' \ closing' = (box \ closing) \ {s} /\ gen' = gen /\ gen[s] = g
    BY DEF Cancel
  <2> QED BY <2>1 DEF Cancel, Types
<1> QED BY <1>3, <1>4, <1>5, <1>6

\* A tick leases each live slot once, none being leased before.
LEMMA BeginKeeps == ASSUME LeaseInv, BeginDispatch PROVE LeaseInv'
<1> USE DEF LeaseInv
<1>1. /\ leases = {} /\ leases' = {<<s, gen[s]>> : s \in box \ closing}
      /\ flight' = [s \in Slots |-> IF s \in box \ closing THEN flight[s] + 1 ELSE flight[s]]
      /\ UNCHANGED <<gen, box, closing, running, live>>
    BY DEF BeginDispatch
<1>2. \A s \in Slots : flight[s] = 0
    BY <1>1 DEF NoOrphanBox
<1>3. box \cap closing = {}
    BY <1>1 DEF NoOrphanBox
<1>4. Types'
    BY <1>1 DEF Types, Tokens
<1>5. LeasePins'
    BY <1>1, <1>2 DEF LeasePins, Types
<1>6. NoOrphanBox'
  <2>1. ASSUME NEW s \in box \ closing PROVE \E l \in leases' : l[1] = s
    <3>1. <<s, gen[s]>> \in leases' /\ <<s, gen[s]>>[1] = s
        BY <1>1
    <3> QED BY <3>1
  <2>2. \A l \in leases' : l[1] \in box \ closing
    BY <1>1
  <2>3. \A s \in Slots : (\E l \in leases' : l[1] = s) <=> s \in box \ closing
    BY <2>1, <2>2
  <2> QED BY <1>1, <1>2, <1>3, <2>3 DEF NoOrphanBox, Types
<1> QED BY <1>1, <1>4, <1>5, <1>6

\* A lease that finishes destroys a cancelled closure with its last lease.
LEMMA FinishKeeps ==
    ASSUME LeaseInv, NEW l \in leases, FinishDispatch(l) PROVE LeaseInv'
<1> USE DEF LeaseInv
<1>1. l[1] \in box /\ l[1] \in Slots /\ gen[l[1]] = l[2] /\ flight[l[1]] = 1
    BY DEF LeasePins, NoOrphanBox, Types
<1>2. \A m \in leases : m[1] = l[1] => m = l
    BY OneLease
<1>3. /\ leases' = leases \ {l} /\ running' = {}
      /\ flight' = [flight EXCEPT ![l[1]] = @ - 1]
      /\ box' = IF l[1] \in closing THEN box \ {l[1]} ELSE box
      /\ UNCHANGED <<gen, closing, live>>
    BY <1>1 DEF FinishDispatch
<1>4. flight' = [flight EXCEPT ![l[1]] = 0]
    BY <1>1, <1>3
<1>5. \A s \in Slots : (\E m \in leases' : m[1] = s)
                       <=> s # l[1] /\ \E m \in leases : m[1] = s
    BY <1>2, <1>3
<1>6. Types'
    BY <1>1, <1>3, <1>4 DEF Types, Tokens
<1>7. LeasePins'
    BY <1>1, <1>2, <1>3, <1>4 DEF LeasePins, Types
<1>8. NoOrphanBox'
    BY <1>1, <1>3, <1>4, <1>5 DEF NoOrphanBox, Types
<1>9. live' = {<<r, gen'[r]>> : r \in box' \ closing'}
  <2>1. box' \ closing' = box \ closing
    BY <1>3
  <2> QED BY <1>3, <2>1
<1> QED BY <1>6, <1>7, <1>8, <1>9

\* The lease invariant holds of every tick, registration and cancellation.
LEMMA LeaseInvHolds == Safety => []LeaseInv
<1>1. Init => LeaseInv
    BY DEF Init, LeaseInv, Types, LeasePins, NoOrphanBox
<1>2. LeaseInv /\ [Next]_vars => LeaseInv'
  <2> SUFFICES ASSUME LeaseInv, [Next]_vars PROVE LeaseInv' OBVIOUS
  <2>1. ASSUME NEW l \in leases, Invoke(l) PROVE LeaseInv'
    BY <2>1 DEF Invoke, registry, LeaseInv, Types, LeasePins, NoOrphanBox, Tokens
  <2>2. CASE UNCHANGED vars
    BY <2>2 DEF vars, registry, LeaseInv, Types, LeasePins, NoOrphanBox, Tokens
  <2> QED BY <2>1, <2>2, RegisterKeeps, CancelKeeps, BeginKeeps, FinishKeeps
          DEF Next, Dispatch
<1> QED BY <1>1, <1>2, PTL DEF Safety

\* The raw pointer in a lease of dispatch is valid until finish_dispatch, for
\* any number of slots and any sequence of registrations and cancellations.
THEOREM LeasesPin == Safety => []LeasePins
<1>1. LeaseInv => LeasePins
    BY DEF LeaseInv
<1> QED BY <1>1, LeaseInvHolds, PTL

\* No cancelled closure stays behind once the ticks that leased it are over,
\* and in-flight counts are exact (finish_dispatch, cancel).
THEOREM NoBoxIsOrphaned == Safety => []NoOrphanBox
<1>1. LeaseInv => NoOrphanBox
    BY DEF LeaseInv
<1> QED BY <1>1, LeaseInvHolds, PTL

\* The length counts the live tokens: one more when register returns a token
\* that was not live, one less when cancel accepts one that was.
LEMMA LengthHolds == Safety => [](IsFiniteSet(live) /\ len = Cardinality(live))
<1> DEFINE Counted == IsFiniteSet(live) /\ len = Cardinality(live)
<1>1. Init => Counted
    BY FS_EmptySet DEF Init
<1>2. LeaseInv /\ Counted /\ [Next]_vars => Counted'
  <2> SUFFICES ASSUME LeaseInv, Counted, [Next]_vars PROVE Counted' OBVIOUS
  <2>1. ASSUME NEW s \in Slots, Register(s) PROVE Counted'
    <3>1. <<s, gen[s] + 1>> \notin live
        BY <2>1 DEF Register, Free, LeaseInv
    <3>2. live' = live \cup {<<s, gen[s] + 1>>} /\ len' = len + 1
        BY <2>1 DEF Register
    <3> QED BY <3>1, <3>2, FS_AddElement
  <2>2. ASSUME NEW s \in Slots, NEW g \in 1 .. MaxGeneration, Cancel(s, g)
        PROVE  Counted'
    <3>1. <<s, g>> \in live
        BY <2>2 DEF Cancel, LeaseInv
    <3>2. live' = live \ {<<s, g>>} /\ len' = len - 1
        BY <2>2 DEF Cancel
    <3> QED BY <3>1, <3>2, FS_RemoveElement
  <2>3. CASE BeginDispatch \/ Dispatch \/ UNCHANGED vars
    <3>1. live' = live /\ len' = len
        BY <2>3 DEF BeginDispatch, Dispatch, Invoke, FinishDispatch, registry, vars
    <3> QED BY <3>1
  <2> QED BY <2>1, <2>2, <2>3 DEF Next
<1> QED BY <1>1, <1>2, LeaseInvHolds, PTL DEF Safety

\* Live tokens, slots and length agree: an old token never cancels the
\* registration that reused its slot, and len never drifts (register, cancel).
THEOREM LiveIsExact == Safety => []LiveExact
<1>1. LeaseInv /\ len = Cardinality(live) => LiveExact
    BY DEF LeaseInv, LiveExact
<1> QED BY <1>1, LeaseInvHolds, LengthHolds, PTL
=============================================================================
