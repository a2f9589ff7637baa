----------------------------- MODULE IrqWakers -----------------------------
(***************************************************************************)
(* thekernel-axtask future/poll.rs: the registry that connects interrupts  *)
(* to wakers.  A source slot is reserved for an interrupt while its first  *)
(* waiter is armed and then bound for ever; each slot has a PollSet.  The  *)
(* one global hook is installed by the first registration, while others    *)
(* are turned away.  Interrupts arrive on other CPUs between any two lock  *)
(* sections; a bound source never changes, so the test of a token's source *)
(* and the use of its PollSet are one action.                              *)
(***************************************************************************)
EXTENDS PollRegistry, FiniteSets

CONSTANTS Users,      \* waiters, which check, register and check again
          Irqs,       \* interrupt identifiers
          Sources,    \* number of source slots (IRQ_SOURCE_CAPACITY)
          Handlers,   \* CPUs that take interrupts
          MaxIds,     \* registry identities left (NEXT_REGISTRY_ID)
          MaxRaises   \* bound: interrupts raised

ASSUME IrqAssumption ==
    /\ {Sources, MaxIds, MaxRaises} \subseteq Nat /\ None \notin Irqs \cup Users

SourceSlots == 0 .. Sources - 1
NoToken == [slot |-> 0, reg |-> <<0, 0>>]

VARIABLES
    hook,     \* hook_state
    owner,    \* who owns the axhal hook: None, "registry" or "other"
    sources,  \* source slot -> state and irq
    sets,     \* source slot -> PollSet
    ids,      \* registry identities left
    named,    \* source slots whose PollSet has its identity
    holder,   \* user that holds the registration lock
    pc,       \* user: next step
    want,     \* user: interrupt it waits for
    slot,     \* user: source slot of its transaction
    token,    \* user: token it retains
    called,   \* user: its waker was called since it last looked
    event,    \* device: irq -> condition raised and not yet seen by anyone
    hpc,      \* handler: next step, its interrupt and the slot it found
    pending,  \* handler: wakers it drained and has yet to call
    raises    \* interrupts raised so far

registry == <<hook, owner, sources, sets, ids, named, holder>>
user == <<pc, want, slot, token, called>>
handler == <<hpc, pending>>
vars == <<registry, user, event, handler, raises>>
hooks == <<hook, owner>>
tables == <<sources, sets, ids, named, holder>>
mine == <<want, slot, token, called>>
world == <<event, handler, raises>>

Source(s, i) == [state |-> s, irq |-> i]
EmptySource == Source("Empty", None)
Resting == [at |-> "idle", irq |-> None, slot |-> 0]
Nothing == [k \in Slots |-> None]

Init ==
    /\ hook = "Uninitialized" /\ owner \in {None, "other"}
    /\ sources = [k \in SourceSlots |-> EmptySource]
    /\ sets = [k \in SourceSlots |-> NewSet] /\ ids = MaxIds /\ named = {} /\ holder = None
    /\ pc = [u \in Users |-> "look"] /\ want \in [Users -> Irqs]
    /\ slot = [u \in Users |-> 0] /\ token = [u \in Users |-> NoToken]
    /\ called = [u \in Users |-> FALSE]
    /\ event = [i \in Irqs |-> FALSE]
    /\ hpc = [h \in Handlers |-> Resting] /\ pending = [h \in Handlers |-> Nothing]
    /\ raises = 0

At(u, l) == pc[u] = l
Goto(u, l) == pc' = [pc EXCEPT ![u] = l]

-----------------------------------------------------------------------------
(* ensure_hook.                                                             *)

\* The load of hook_state; the user comes back later when it is refused.
CheckHook(u) ==
    /\ At(u, "hook")
    /\ Goto(u, CASE hook = "Ready" -> "lock"
                 [] hook = "Uninitialized" -> "claim"
                 [] hook = "Installing" -> "look"
                 [] OTHER -> "refused")
    /\ UNCHANGED <<registry, world, mine>>

\* The compare-exchange, and the load after one that fails.
ClaimHook(u) ==
    /\ At(u, "claim")
    /\ IF hook = "Uninitialized"
       THEN hook' = "Installing" /\ Goto(u, "install")
       ELSE Goto(u, "hook") /\ UNCHANGED hook
    /\ UNCHANGED <<world, mine, tables, owner>>

\* register_irq_hook takes the hook nobody owns.
InstallHook(u) ==
    /\ At(u, "install")
    /\ owner' = IF owner = None THEN "registry" ELSE owner
    /\ Goto(u, "publish")
    /\ UNCHANGED <<world, mine, tables, hook>>

PublishHook(u) ==
    /\ At(u, "publish")
    /\ IF owner = "registry" THEN hook' = "Ready" /\ Goto(u, "lock")
                             ELSE hook' = "Unavailable" /\ Goto(u, "refused")
    /\ UNCHANGED <<world, mine, tables, owner>>

-----------------------------------------------------------------------------
(* register_irq_waker.                                                      *)

Lock(u) ==
    /\ At(u, "lock") /\ holder = None /\ holder' = u /\ Goto(u, "reserve")
    /\ UNCHANGED <<world, mine, hooks, sources, sets, ids, named>>

\* Mutation: the search takes the first source in use, whatever its irq.
CarryingAny(i) == {k \in SourceSlots : sources[k].state # "Empty"}

Carrying(i) == {k \in SourceSlots : sources[k].state # "Empty" /\ sources[k].irq = i}
Vacant == {k \in SourceSlots : sources[k].state = "Empty"}
First(S) == CHOOSE k \in S : \A j \in S : k <= j

\* The source of the irq, or the first vacant one, reserved for it.
Reserve(u) ==
    /\ At(u, "reserve")
    /\ LET i == want[u] IN
       IF Carrying(i) # {}
       THEN slot' = [slot EXCEPT ![u] = First(Carrying(i))] /\ Goto(u, "arm")
            /\ UNCHANGED <<sources, holder>>
       ELSE IF Vacant # {}
       THEN /\ slot' = [slot EXCEPT ![u] = First(Vacant)] /\ Goto(u, "arm")
            /\ sources' = [sources EXCEPT ![First(Vacant)] = Source("Reserved", i)]
            /\ UNCHANGED holder
       ELSE Goto(u, "refused") /\ holder' = None /\ UNCHANGED <<slot, sources>>
    /\ UNCHANGED <<world, hooks, sets, ids, named, want, token, called>>

\* PollSet::arm; its first success also takes the identity of the set.
Arm(u) ==
    /\ At(u, "arm")
    /\ LET k == slot[u]
           w == <<u, want[u]>> IN
       IF Admissible(sets[k]) /\ (k \in named \/ ids > 0)
       THEN /\ sets' = [sets EXCEPT ![k] = Armed(@, w)]
            /\ token' = [token EXCEPT ![u] = [slot |-> k, reg |-> ArmToken(sets[k], w)]]
            /\ named' = named \cup {k} /\ ids' = IF k \in named THEN ids ELSE ids - 1
            /\ Goto(u, "bind")
       ELSE Goto(u, "unreserve") /\ UNCHANGED <<sets, token, named, ids>>
    /\ UNCHANGED <<world, hooks, sources, holder, want, slot, called>>

\* The second section under the source lock, after the arm.
Finish(u, s, l) ==
    /\ sources' = IF sources[slot[u]] = Source("Reserved", want[u])
                  THEN [sources EXCEPT ![slot[u]] = s] ELSE sources
    /\ holder' = None /\ Goto(u, l)
    /\ UNCHANGED <<world, mine, hooks, sets, ids, named>>

Bind(u) == At(u, "bind") /\ Finish(u, Source("Bound", want[u]), "check")
Unreserve(u) == At(u, "unreserve") /\ Finish(u, EmptySource, "refused")

-----------------------------------------------------------------------------
(* The waiter around it: check, register or update, check, sleep, cancel.   *)

Look(u) ==
    /\ At(u, "look") /\ called' = [called EXCEPT ![u] = FALSE]
    /\ Goto(u, IF event[want[u]] THEN "cancel"
               ELSE IF token[u] = NoToken THEN "hook" ELSE "update")
    /\ UNCHANGED <<registry, world, want, slot, token>>

Valid(u) == /\ sources[token[u].slot] = Source("Bound", want[u])
            /\ Names(sets[token[u].slot], token[u].reg)

\* update_irq_waker; a consumed token is dropped.
UpdateIrqWaker(u) ==
    /\ At(u, "update")
    /\ IF Valid(u)
       THEN /\ sets' = [sets EXCEPT ![token[u].slot] = Updated(@, token[u].reg, <<u, want[u]>>)]
            /\ Goto(u, "check") /\ UNCHANGED token
       ELSE Goto(u, "look") /\ token' = [token EXCEPT ![u] = NoToken] /\ UNCHANGED sets
    /\ UNCHANGED <<world, hooks, sources, ids, named, holder, want, slot, called>>

Check(u) ==
    /\ At(u, "check") /\ Goto(u, IF event[want[u]] THEN "cancel" ELSE "asleep")
    /\ UNCHANGED <<registry, world, mine>>

\* cancel_irq_waker; the waiter takes the condition and waits for any irq next.
CancelIrqWaker(u) ==
    /\ At(u, "cancel")
    /\ sets' = IF token[u] # NoToken /\ Valid(u)
               THEN [sets EXCEPT ![token[u].slot] = Cancelled(@, token[u].reg)] ELSE sets
    /\ token' = [token EXCEPT ![u] = NoToken]
    /\ event' = [event EXCEPT ![want[u]] = FALSE]
    /\ \E i \in Irqs : want' = [want EXCEPT ![u] = i]
    /\ Goto(u, "look")
    /\ UNCHANGED <<hooks, handler, sources, ids, named, holder, slot, called, raises>>

Wakeup(u) ==
    /\ At(u, "asleep") /\ called[u] /\ Goto(u, "look")
    /\ UNCHANGED <<registry, world, mine>>

Repoll(u) ==
    /\ At(u, "asleep") /\ ~called[u] /\ Goto(u, "look")
    /\ UNCHANGED <<registry, world, mine>>

-----------------------------------------------------------------------------
(* Interrupts.                                                              *)

\* The device raises its condition and the interrupt; only an installed hook
\* sees it.
Raise(h, i) ==
    /\ hpc[h].at = "idle" /\ raises < MaxRaises /\ raises' = raises + 1
    /\ event' = [event EXCEPT ![i] = TRUE]
    /\ hpc' = IF owner = "registry"
              THEN [hpc EXCEPT ![h] = [Resting EXCEPT !.at = "find", !.irq = i]] ELSE hpc
    /\ UNCHANGED <<registry, user, pending>>

\* dispatch: the source under its lock, ...
Find(h) ==
    /\ hpc[h].at = "find"
    /\ LET found == Carrying(hpc[h].irq) IN
       hpc' = [hpc EXCEPT ![h] = IF found = {} THEN Resting
                                 ELSE [@ EXCEPT !.at = "wake", !.slot = First(found)]]
    /\ UNCHANGED <<registry, user, event, pending, raises>>

\* ... then PollSet::wake: the drain, and the callbacks in slot order.
Wake(h) ==
    /\ hpc[h].at = "wake"
    /\ pending' = [pending EXCEPT ![h] = sets[hpc[h].slot].waker]
    /\ sets' = [sets EXCEPT ![hpc[h].slot] = Drained(@)]
    /\ hpc' = [hpc EXCEPT ![h].at = "call"]
    /\ UNCHANGED <<user, hooks, sources, ids, named, holder, event, raises>>

CallNext(h) ==
    /\ hpc[h].at = "call"
    /\ LET left == {k \in Slots : pending[h][k] # None} IN
       IF left = {}
       THEN hpc' = [hpc EXCEPT ![h] = Resting] /\ UNCHANGED <<pending, called>>
       ELSE /\ called' = [called EXCEPT ![pending[h][First(left)][1]] = TRUE]
            /\ pending' = [pending EXCEPT ![h][First(left)] = None] /\ UNCHANGED hpc
    /\ UNCHANGED <<registry, pc, want, slot, token, event, raises>>

UserStep(u) ==
    \/ CheckHook(u) \/ ClaimHook(u) \/ InstallHook(u) \/ PublishHook(u)
    \/ Lock(u) \/ Reserve(u) \/ Arm(u) \/ Bind(u) \/ Unreserve(u)
    \/ Look(u) \/ UpdateIrqWaker(u) \/ Check(u) \/ CancelIrqWaker(u) \/ Wakeup(u)
HandlerStep(h) == Find(h) \/ Wake(h) \/ CallNext(h)

Next ==
    \/ \E u \in Users : UserStep(u) \/ Repoll(u)
    \/ \E h \in Handlers : HandlerStep(h) \/ \E i \in Irqs : Raise(h, i)

Safety == Init /\ [][Next]_vars

\* Handlers run to completion; users hold no lock for ever and run when woken.
Fairness ==
    /\ \A u \in Users : WF_vars(UserStep(u))
    /\ \A h \in Handlers : WF_vars(HandlerStep(h))

Spec == Safety /\ Fairness

-----------------------------------------------------------------------------
(* Properties.                                                              *)

UserLabels == {"look", "hook", "claim", "install", "publish", "lock", "reserve", "arm", "bind",
               "unreserve", "check", "asleep", "update", "cancel", "refused"}

\* The registry, its tokens and the contexts keep their types.
TypeOK ==
    /\ hook \in {"Uninitialized", "Installing", "Ready", "Unavailable"}
    /\ owner \in {None, "registry", "other"} /\ holder \in Users \cup {None}
    /\ sources \in [SourceSlots -> {EmptySource} \cup
                       [state : {"Reserved", "Bound"}, irq : Irqs]]
    /\ \A k \in SourceSlots : /\ sets[k].gen \in [Slots -> 0 .. MaxGeneration]
                              /\ sets[k].next \in Slots /\ sets[k].len \in 0 .. Capacity
    /\ ids \in 0 .. MaxIds /\ named \subseteq SourceSlots
    /\ pc \in [Users -> UserLabels] /\ want \in [Users -> Irqs]
    /\ slot \in [Users -> SourceSlots] /\ called \in [Users -> BOOLEAN]
    /\ token \in [Users -> [slot : SourceSlots, reg : Tokens \cup {<<0, 0>>}]]

\* A waiter that is refused consumes no source: a slot is bound exactly when a
\* waiter was admitted to its set, and reserved only inside a transaction (the
\* comment on sources, and the test
\* rejected_first_waiter_does_not_consume_source_capacity).
BoundIfAdmitted ==
    \A k \in SourceSlots :
        /\ sources[k].state = "Bound" => \E j \in Slots : sets[k].gen[j] > 0
        /\ sources[k].state = "Empty" => \A j \in Slots : sets[k].gen[j] = 0
        /\ sources[k].state = "Reserved" => holder # None /\ slot[holder] = k

\* An interrupt wakes only the waiters of its own irq, although a dispatch finds
\* its source and drains its set in two steps.
OwnIrqOnly ==
    \A h \in Handlers, k \in Slots :
        pending[h][k] # None => pending[h][k][2] = hpc[h].irq

\* An interrupt is not lost: a waiter asleep over a raised condition is still to
\* be reached by a handler, or has been called.  A waiter is asleep only behind
\* an installed hook and a bound source.  Nor does an interrupt reach anybody
\* else: a dispatch wakes the waiters of its own irq only, although it finds the
\* source and drains its set in two steps.
IrqNotLost ==
    /\ OwnIrqOnly
    /\ \A u \in Users : pc[u] = "asleep" /\ event[want[u]] =>
           \/ called[u]
           \/ \E h \in Handlers : \/ hpc[h].at = "find" /\ hpc[h].irq = want[u]
                                  \/ hpc[h].at = "wake" /\ hpc[h].slot = token[u].slot
                                  \/ \E k \in Slots : pending[h][k] = <<u, want[u]>>

\* A waiter asleep over a raised condition.
StuckOnIrq(u) == pc[u] = "asleep" /\ event[want[u]]
=============================================================================
