--------------------------- MODULE TimerCallbacks ---------------------------
(***************************************************************************)
(* The per-CPU registry of persistent timer callbacks of thekernel-axtask  *)
(* (timers.rs).  A slot owns a boxed closure; the timer tick leases every  *)
(* live slot under the lock, then calls the closures without it, one by    *)
(* one, while any CPU, and the running closure itself, may register and    *)
(* cancel.  Every action is one section under the registry's lock.         *)
(***************************************************************************)
EXTENDS Integers, FiniteSets

CONSTANTS Capacity,      \* TIMER_CALLBACK_CAPACITY
          MaxGeneration  \* largest generation of a slot (u64::MAX)

ASSUME CallbacksAssumption == Capacity \in Nat \ {0} /\ MaxGeneration \in Nat

Slots == 0 .. Capacity - 1

VARIABLES
    gen,      \* generation of each slot
    box,      \* slots that own a closure
    flight,   \* in_flight of each slot
    closing,  \* slots cancelled since their last registration
    next,     \* where the search for a free slot starts
    len,      \* registrations not cancelled
    leases,   \* leases of the tick in progress it has not finished, <<slot, generation>>
    running,  \* the lease whose closure runs, as a set of at most one
    live      \* ghost: tokens returned by register and not cancelled

registry == <<gen, box, flight, closing, next, len>>
vars == <<registry, leases, running, live>>

Init ==
    /\ gen = [s \in Slots |-> 0] /\ box = {} /\ closing = {}
    /\ flight = [s \in Slots |-> 0] /\ next = 0 /\ len = 0
    /\ leases = {} /\ running = {} /\ live = {}

-----------------------------------------------------------------------------

Free(s) == s \notin box /\ flight[s] = 0 /\ gen[s] < MaxGeneration

\* How far a slot is from `next` in the search order.
Distance(s) == (s - next + Capacity) % Capacity

\* register: the first free slot from `next` on.  A full registry or one whose
\* free slots have no generation left refuses and changes nothing.
Register(s) ==
    /\ len # Capacity
    /\ Free(s) /\ \A r \in Slots : Free(r) => Distance(s) <= Distance(r)
    /\ gen' = [gen EXCEPT ![s] = @ + 1]
    /\ box' = box \cup {s} /\ closing' = closing \ {s}
    /\ len' = len + 1 /\ next' = (s + 1) % Capacity
    /\ live' = live \cup {<<s, gen[s] + 1>>}
    /\ UNCHANGED <<flight, leases, running>>

\* Mutation: the closure is dropped at once, whatever is in flight.
CancelNow(s, g) ==
    /\ gen[s] = g /\ s \in box /\ s \notin closing
    /\ closing' = closing \cup {s} /\ len' = len - 1
    /\ next' = s /\ box' = box \ {s}
    /\ live' = live \ {<<s, g>>}
    /\ UNCHANGED <<gen, flight, leases, running>>

\* Mutation: a token is not compared with the generation of its slot.
CancelAnyToken(s, g) ==
    /\ s \in box /\ s \notin closing
    /\ closing' = closing \cup {s} /\ len' = len - 1
    /\ IF flight[s] = 0 THEN next' = s /\ box' = box \ {s}
                        ELSE UNCHANGED <<next, box>>
    /\ live' = live \ {<<s, g>>}
    /\ UNCHANGED <<gen, flight, leases, running>>

\* cancel of a token: false, and no change, unless the token is live.
Cancel(s, g) ==
    /\ gen[s] = g /\ s \in box /\ s \notin closing
    /\ closing' = closing \cup {s} /\ len' = len - 1
    /\ IF flight[s] = 0 THEN next' = s /\ box' = box \ {s}
                        ELSE UNCHANGED <<next, box>>
    /\ live' = live \ {<<s, g>>}
    /\ UNCHANGED <<gen, flight, leases, running>>

\* begin_dispatch: lease every slot that owns a closure and is not closing.
BeginDispatch ==
    /\ leases = {}
    /\ LET due == box \ closing IN
       /\ flight' = [s \in Slots |-> IF s \in due THEN flight[s] + 1 ELSE flight[s]]
       /\ leases' = {<<s, gen[s]>> : s \in due}
    /\ UNCHANGED <<gen, box, closing, next, len, running, live>>

\* The call of the next closure in slot order, without the lock.
Invoke(l) ==
    /\ running = {} /\ l \in leases /\ \A m \in leases : l[1] <= m[1]
    /\ running' = {l}
    /\ UNCHANGED <<registry, leases, live>>

\* Mutation: a lease that finishes does not destroy a cancelled closure.
FinishKeepingBox(l) ==
    /\ running = {l} /\ running' = {} /\ leases' = leases \ {l}
    /\ IF gen[l[1]] = l[2] /\ flight[l[1]] > 0
       THEN flight' = [flight EXCEPT ![l[1]] = @ - 1]
       ELSE UNCHANGED flight
    /\ UNCHANGED <<gen, box, closing, next, len, live>>

\* The closure returned: finish_dispatch drops the lease and, when it was the
\* last one of a cancelled slot, the closure.
FinishDispatch(l) ==
    /\ running = {l} /\ running' = {} /\ leases' = leases \ {l}
    /\ LET s == l[1] IN
       IF gen[s] = l[2] /\ flight[s] > 0
       THEN /\ flight' = [flight EXCEPT ![s] = @ - 1]
            /\ IF s \in closing /\ flight[s] = 1
               THEN next' = s /\ box' = box \ {s}
               ELSE UNCHANGED <<next, box>>
       ELSE UNCHANGED <<flight, next, box>>
    /\ UNCHANGED <<gen, closing, len, live>>

-----------------------------------------------------------------------------

Dispatch == \E l \in leases : Invoke(l) \/ FinishDispatch(l)

Next ==
    \/ \E s \in Slots : Register(s)
    \/ \E s \in Slots, g \in 1 .. MaxGeneration : Cancel(s, g)
    \/ BeginDispatch \/ Dispatch

Safety == Init /\ [][Next]_vars

\* The timer keeps ticking, and a tick, which runs with interrupts off, calls
\* every closure it leased; closures return.
Fairness == WF_vars(BeginDispatch) /\ WF_vars(Dispatch)

Spec == Safety /\ Fairness

-----------------------------------------------------------------------------

Tokens == Slots \X Nat

\* The counters never leave their range; len does not underflow.
TypeOK ==
    /\ gen \in [Slots -> 0 .. MaxGeneration] /\ flight \in [Slots -> Nat]
    /\ box \subseteq Slots /\ closing \subseteq Slots
    /\ next \in Slots /\ len \in 0 .. Capacity
    /\ leases \subseteq Tokens /\ running \subseteq leases
    /\ live \subseteq Tokens

\* The raw pointer of a lease stays valid until the lease is finished: its slot
\* still owns the closure of that very generation, whatever was cancelled and
\* registered meanwhile (the SAFETY comment of dispatch).
LeasePins == \A l \in leases : l[1] \in box /\ gen[l[1]] = l[2] /\ flight[l[1]] > 0

\* A cancelled closure is kept only for a lease in flight, and every in-flight
\* count belongs to a lease: nothing leaks a slot (finish_dispatch, cancel).
NoOrphanBox ==
    /\ \A s \in box \cap closing : \E l \in leases : l[1] = s
    /\ \A s \in Slots : flight[s] = IF \E l \in leases : l[1] = s THEN 1 ELSE 0

\* Exactly the tokens handed out and not cancelled name a closure that will be
\* called, and len counts them: an old token never cancels the registration
\* that reused its slot (register, cancel).
LiveExact ==
    /\ live = {<<s, gen[s]>> : s \in box \ closing}
    /\ len = Cardinality(live)

\* A cancelled closure is eventually destroyed (finish_dispatch).
Reclaimed == \A s \in Slots : s \in box \cap closing ~> s \notin box \cap closing

=============================================================================
