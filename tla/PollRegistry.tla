---------------------------- MODULE PollRegistry ----------------------------
(***************************************************************************)
(* The operations of a PollSet of thekernel-axpoll on the state its lock   *)
(* protects: slots of a generation and a waker, the search hint `next`,    *)
(* the length and the closed flag.  A token is a slot and a generation.    *)
(***************************************************************************)
EXTENDS Integers

CONSTANTS Capacity,       \* number of slots
          MaxGeneration,  \* largest generation of a slot (usize::MAX)
          None            \* no waker

ASSUME RegistryAssumption == Capacity \in Nat \ {0} /\ MaxGeneration \in Nat

Slots == 0 .. Capacity - 1
Tokens == Slots \X (1 .. MaxGeneration)

\* Inner::new.
NewSet == [gen |-> [k \in Slots |-> 0], waker |-> [k \in Slots |-> None],
           next |-> 0, len |-> 0, closed |-> FALSE]

Occupied(s) == {k \in Slots : s.waker[k] # None}

\* Slots arm may take, and how far its search goes for one.
Free(s) == {k \in Slots : s.waker[k] = None /\ s.gen[k] < MaxGeneration}
Distance(s, k) == (k - s.next) % Capacity

Admissible(s) == ~s.closed /\ s.len # Capacity /\ Free(s) # {}
ArmSlot(s) == CHOOSE k \in Free(s) : \A j \in Free(s) : Distance(s, k) <= Distance(s, j)

\* Mutation: a slot that was drained is taken again under its old generation.
ArmedReusing(s, w) ==
    LET k == ArmSlot(s) IN
    [s EXCEPT !.gen[k] = IF @ = 0 THEN 1 ELSE @, !.waker[k] = w, !.len = @ + 1,
              !.next = IF k + 1 = Capacity THEN 0 ELSE k + 1]

\* Inner::arm.
Armed(s, w) ==
    LET k == ArmSlot(s) IN
    [s EXCEPT !.gen[k] = @ + 1, !.waker[k] = w, !.len = @ + 1,
              !.next = IF k + 1 = Capacity THEN 0 ELSE k + 1]

ArmToken(s, w) == <<ArmSlot(s), Armed(s, w).gen[ArmSlot(s)]>>

\* The token names the waker that is now in its slot.
Names(s, t) == s.gen[t[1]] = t[2] /\ s.waker[t[1]] # None

\* Mutation: the waker is kept when the slot has one.
UpdatedOnce(s, t, w) == s

\* Inner::update, of a token that names a slot of an open set.
Updated(s, t, w) == [s EXCEPT !.waker[t[1]] = w]

\* Inner::cancel, of such a token.
Cancelled(s, t) == [s EXCEPT !.waker[t[1]] = None, !.len = @ - 1, !.next = t[1]]

\* Mutation: the drain stops one slot early.
DrainedShort(s) ==
    [s EXCEPT !.waker = [k \in Slots |-> IF k + 1 < Capacity THEN None ELSE @[k]],
              !.next = 0, !.len = 0]

\* Inner::drain, whose wakers are those of the slots before.
Drained(s) == [s EXCEPT !.waker = [k \in Slots |-> None], !.next = 0, !.len = 0]
=============================================================================
