---------------------------- MODULE TimerFutures ----------------------------
(***************************************************************************)
(* The bounded timer futures of thekernel-axtask (future/time.rs): one     *)
(* CPU's registry of deadlines, the timer tick that drains it, and the     *)
(* contexts that wait through it by sleep_until, timeout_at or a           *)
(* DeadlineReservation raced over several sessions.  A token outlives its  *)
(* slot, so slots carry generations; wakers are called after the lock is   *)
(* released.  Each action is one section under the registry's lock or one  *)
(* poll of the wrapped future.  The registries of different CPUs share     *)
(* nothing, and a token names its registry, so one is enough.              *)
(***************************************************************************)
EXTENDS Integers, FiniteSets

CONSTANTS Users,          \* contexts that wait
          Capacity,       \* TIMER_FUTURE_CAPACITY
          MaxGeneration,  \* largest generation of a slot (u64::MAX)
          MaxTime,        \* bound: largest wall time and deadline
          MaxCalls        \* bound: calls of each user, a function

Slots == 0 .. Capacity - 1
Kinds == {"sleep", "timeout", "deadline"}

VARIABLES
    gen, due,  \* per slot: generation, deadline
    waker,     \* per slot: the registered waker's user, as a set of at most one
    occupied,  \* occupied slots
    next, len, \* search hint and number of occupied slots
    now,       \* wall_time()
    firing,    \* wakers the tick in progress has drained and not called yet
    pc,        \* per user: its next step
    kind,      \* per user: what it called
    until,     \* per user: the deadline it asked for
    token,     \* per user: its token <<slot, generation>>, as a set of at most one
    woken,     \* per user: its task has been woken since its last poll
    ready,     \* per user: the wrapped future would complete
    result,    \* per user: outcome of its last session
    calls      \* per user: calls made

registry == <<gen, due, waker, occupied, next, len>>
user == <<pc, kind, until, token, result, calls>>
vars == <<registry, now, firing, user, woken, ready>>

Init ==
    /\ gen = [s \in Slots |-> 0] /\ due = [s \in Slots |-> 0]
    /\ waker = [s \in Slots |-> {}] /\ occupied = {} /\ next = 0 /\ len = 0
    /\ now = 0 /\ firing = {}
    /\ pc = [u \in Users |-> "idle"] /\ kind = [u \in Users |-> "sleep"]
    /\ until = [u \in Users |-> 0] /\ token = [u \in Users |-> {}]
    /\ woken = [u \in Users |-> FALSE] /\ ready = [u \in Users |-> FALSE]
    /\ result = [u \in Users |-> "none"] /\ calls = [u \in Users |-> 0]

-----------------------------------------------------------------------------
(* The registry.                                                           *)

\* is_live.
Live(t) == t[1] \in occupied /\ gen[t[1]] = t[2]

Free(s) == s \notin occupied /\ gen[s] < MaxGeneration
Distance(s) == (s - next + Capacity) % Capacity
FirstFree(s) == Free(s) /\ \A r \in Slots : Free(r) => Distance(s) <= Distance(r)

\* cancel of the user's token, if it has one and it is live; the waker goes too.
CancelToken(u) ==
    LET live == {t \in token[u] : Live(t)} IN
    IF live = {} THEN UNCHANGED registry
    ELSE \E t \in live :
         /\ occupied' = occupied \ {t[1]} /\ len' = len - 1 /\ next' = t[1]
         /\ waker' = [waker EXCEPT ![t[1]] = {}]
         /\ UNCHANGED <<gen, due>>

Goto(u, l) == pc' = [pc EXCEPT ![u] = l]
Outcome(u, r) == result' = [result EXCEPT ![u] = r]

-----------------------------------------------------------------------------
(* The users.                                                              *)

\* sleep_until, timeout_at or DeadlineReservation::reserve.
Call(u, k, d) ==
    /\ pc[u] = "idle" /\ calls[u] < MaxCalls[u]
    /\ calls' = [calls EXCEPT ![u] = @ + 1]
    /\ kind' = [kind EXCEPT ![u] = k] /\ until' = [until EXCEPT ![u] = d]
    /\ Goto(u, IF k = "timeout" THEN "future" ELSE "reserve")
    /\ Outcome(u, "none")
    /\ ready' = [ready EXCEPT ![u] = FALSE] /\ woken' = [woken EXCEPT ![u] = FALSE]
    /\ UNCHANGED <<registry, now, firing, token>>

\* reserve: a slot for a deadline still in the future.
Reserve(u) ==
    /\ pc[u] = "reserve" /\ until[u] > now /\ len # Capacity
    /\ \E s \in Slots :
       /\ FirstFree(s)
       /\ gen' = [gen EXCEPT ![s] = @ + 1] /\ due' = [due EXCEPT ![s] = until[u]]
       /\ occupied' = occupied \cup {s} /\ len' = len + 1
       /\ next' = (s + 1) % Capacity
       /\ token' = [token EXCEPT ![u] = {<<s, gen[s] + 1>>}]
    /\ Goto(u, IF kind[u] = "deadline" THEN "held" ELSE "deadline")
    /\ UNCHANGED <<waker, now, firing, kind, until, woken, ready, result, calls>>

\* An elapsed deadline takes no slot; sleep_until and timeout_at are done.
ReserveElapsed(u) ==
    /\ pc[u] = "reserve" /\ until[u] <= now
    /\ IF kind[u] = "deadline" THEN Goto(u, "held") /\ UNCHANGED result
       ELSE Goto(u, "close") /\ Outcome(u, "elapsed")
    /\ UNCHANGED <<registry, now, firing, kind, until, token, woken, ready, calls>>

\* CapacityExhausted or TokenSpaceExhausted: the call fails.
ReserveRefused(u) ==
    /\ pc[u] = "reserve" /\ until[u] > now
    /\ len = Capacity \/ \A s \in Slots : ~Free(s)
    /\ Goto(u, "idle") /\ Outcome(u, "refused")
    /\ UNCHANGED <<registry, now, firing, kind, until, token, woken, ready, calls>>

\* race: a new session on the reservation.
Race(u) ==
    /\ pc[u] = "held" /\ calls[u] < MaxCalls[u]
    /\ calls' = [calls EXCEPT ![u] = @ + 1]
    /\ Goto(u, "future") /\ Outcome(u, "none")
    /\ ready' = [ready EXCEPT ![u] = FALSE] /\ woken' = [woken EXCEPT ![u] = FALSE]
    /\ UNCHANGED <<registry, now, firing, kind, until, token>>

\* The first poll of the wrapped future in race and in timeout_at, whose
\* timer is reserved by its own first poll.
PollFuture(u) ==
    /\ pc[u] = "future"
    /\ IF ready[u] THEN Goto(u, "close") /\ Outcome(u, "output")
       ELSE /\ Goto(u, IF kind[u] = "timeout" /\ token[u] = {} THEN "reserve"
                                                               ELSE "deadline")
            /\ UNCHANGED result
    /\ UNCHANGED <<registry, now, firing, kind, until, token, woken, ready, calls>>

\* Mutation: a reservation that expired does not poll the future again.
ExpiredAtOnce(u) ==
    /\ token' = IF kind[u] = "deadline" THEN [token EXCEPT ![u] = {}] ELSE token
    /\ Goto(u, "close") /\ Outcome(u, "elapsed")

\* The timer reported the deadline: a reservation forgets its token and polls
\* the future once more; a TimerFuture keeps its token until it is dropped.
Expired(u) ==
    IF kind[u] = "deadline"
    THEN /\ token' = [token EXCEPT ![u] = {}]
         /\ Goto(u, "recheck") /\ UNCHANGED result
    ELSE Goto(u, "close") /\ Outcome(u, "elapsed") /\ UNCHANGED token

\* poll_deadline of an elapsed reservation, or poll of a token that is no
\* longer live.
PollDead(u) ==
    /\ pc[u] = "deadline" /\ \A t \in token[u] : ~Live(t)
    /\ Expired(u)
    /\ UNCHANGED <<registry, now, firing, kind, until, woken, ready, calls>>

\* TimerInner::poll finds the deadline passed and frees the slot.
PollDue(u) ==
    /\ pc[u] = "deadline"
    /\ \E t \in token[u] :
       /\ Live(t) /\ due[t[1]] <= now
       /\ occupied' = occupied \ {t[1]} /\ len' = len - 1 /\ next' = t[1]
       /\ waker' = [waker EXCEPT ![t[1]] = {}]
    /\ Expired(u)
    /\ UNCHANGED <<gen, due, now, firing, kind, until, woken, ready, calls>>

\* TimerInner::poll registers the waker and the task may sleep.  A wake since
\* the poll began (block_on cleared the mark before it) makes it poll again.
PollPending(u) ==
    /\ pc[u] = "deadline"
    /\ \E t \in token[u] :
       /\ Live(t) /\ due[t[1]] > now
       /\ waker' = [waker EXCEPT ![t[1]] = {u}]
    /\ Goto(u, "asleep")
    /\ UNCHANGED <<gen, due, occupied, next, len, now, firing, kind, until,
                   token, woken, ready, result, calls>>

\* race polls the future again after the deadline.
Recheck(u) ==
    /\ pc[u] = "recheck"
    /\ Goto(u, "close") /\ Outcome(u, IF ready[u] THEN "output" ELSE "elapsed")
    /\ UNCHANGED <<registry, now, firing, kind, until, token, woken, ready, calls>>

\* The woken task polls from the top.
Wakeup(u) ==
    /\ pc[u] = "asleep" /\ woken[u]
    /\ woken' = [woken EXCEPT ![u] = FALSE]
    /\ Goto(u, IF kind[u] = "sleep" THEN "deadline" ELSE "future")
    /\ UNCHANGED <<registry, now, firing, kind, until, token, ready, result, calls>>

\* The session is dropped while it sleeps (the block is interrupted).
Abandon(u) ==
    /\ pc[u] = "asleep" /\ Goto(u, "close") /\ Outcome(u, "dropped")
    /\ UNCHANGED <<registry, now, firing, kind, until, token, woken, ready, calls>>

\* DeadlineSession::drop disarms the reservation.
CloseSession(u) ==
    /\ pc[u] = "close" /\ kind[u] = "deadline"
    /\ waker' = [s \in Slots |->
                    IF \E t \in token[u] : t[1] = s /\ Live(t) THEN {} ELSE waker[s]]
    /\ Goto(u, "held")
    /\ UNCHANGED <<gen, due, occupied, next, len, now, firing, kind, until,
                   token, woken, ready, result, calls>>

\* TimerFuture::drop after the session, DeadlineReservation::drop between two.
Drop(u) ==
    /\ pc[u] = "held" \/ (pc[u] = "close" /\ kind[u] # "deadline")
    /\ CancelToken(u)
    /\ token' = [token EXCEPT ![u] = {}] /\ Goto(u, "idle")
    /\ UNCHANGED <<now, firing, kind, until, woken, ready, result, calls>>

UserStep(u) ==
    \/ Reserve(u) \/ ReserveElapsed(u) \/ ReserveRefused(u) \/ PollFuture(u)
    \/ PollDead(u) \/ PollDue(u) \/ PollPending(u) \/ Recheck(u) \/ Wakeup(u)
    \/ CloseSession(u)

-----------------------------------------------------------------------------
(* The tick and the environment.                                           *)

\* Mutation: the tick frees expired slots and drops their wakers.
DrainQuietly ==
    LET hit == {s \in occupied : due[s] <= now} IN
    /\ hit # {} /\ firing = {}
    /\ occupied' = occupied \ hit /\ len' = len - Cardinality(hit) /\ next' = 0
    /\ waker' = [s \in Slots |-> IF s \in hit THEN {} ELSE waker[s]]
    /\ UNCHANGED <<gen, due, firing, now, user, woken, ready>>

\* drain_expired.
DrainExpired ==
    LET hit == {s \in occupied : due[s] <= now} IN
    /\ hit # {} /\ firing = {}
    /\ occupied' = occupied \ hit /\ len' = len - Cardinality(hit) /\ next' = 0
    /\ firing' = UNION {waker[s] : s \in hit}
    /\ waker' = [s \in Slots |-> IF s \in hit THEN {} ELSE waker[s]]
    /\ UNCHANGED <<gen, due, now, user, woken, ready>>

\* wake_expired calls the drained wakers after it released the lock.
WakeExpired(u) ==
    /\ u \in firing /\ firing' = firing \ {u}
    /\ woken' = [woken EXCEPT ![u] = TRUE]
    /\ UNCHANGED <<registry, now, user, ready>>

Tick == DrainExpired \/ \E u \in Users : WakeExpired(u)

\* The wrapped future becomes ready and wakes its task.
Complete(u) ==
    /\ ~ready[u] /\ kind[u] # "sleep" /\ pc[u] \notin {"idle", "held", "close"}
    /\ ready' = [ready EXCEPT ![u] = TRUE] /\ woken' = [woken EXCEPT ![u] = TRUE]
    /\ UNCHANGED <<registry, now, firing, user>>

Advance ==
    /\ now < MaxTime /\ now' = now + 1
    /\ UNCHANGED <<registry, firing, user, woken, ready>>

Next ==
    \/ \E u \in Users, k \in Kinds, d \in 0 .. MaxTime : Call(u, k, d)
    \/ \E u \in Users : UserStep(u) \/ Race(u) \/ Abandon(u) \/ Drop(u) \/ Complete(u)
    \/ Tick \/ Advance

Safety == Init /\ [][Next]_vars

\* Time passes, the tick of the owner CPU drains and wakes, and a woken task
\* is scheduled and polls.
Fairness ==
    /\ WF_vars(Advance) /\ WF_vars(Tick)
    /\ \A u \in Users : WF_vars(UserStep(u))

Spec == Safety /\ Fairness

-----------------------------------------------------------------------------
(* Properties.                                                             *)

\* Slots, tokens, generations and waker registrations keep their types.
TypeOK ==
    /\ gen \in [Slots -> 0 .. MaxGeneration] /\ due \in [Slots -> 0 .. MaxTime]
    /\ waker \in [Slots -> SUBSET Users] /\ occupied \subseteq Slots
    /\ next \in Slots /\ len \in 0 .. Capacity /\ now \in 0 .. MaxTime
    /\ firing \subseteq Users
    /\ pc \in [Users -> {"idle", "reserve", "held", "future", "deadline",
                         "recheck", "asleep", "close"}]
    /\ kind \in [Users -> Kinds] /\ until \in [Users -> 0 .. MaxTime]
    /\ token \in [Users -> SUBSET (Slots \X Nat)]
    /\ woken \in [Users -> BOOLEAN] /\ ready \in [Users -> BOOLEAN]
    /\ result \in [Users -> {"none", "output", "elapsed", "refused", "dropped"}]

\* Slots are refunded exactly once: the occupied slots are those of the live
\* tokens, no two users share one, len counts them, and a stale token of an
\* expired TimerFuture never frees the slot's next reservation (Drop, cancel).
SlotsAccounted ==
    /\ len = Cardinality(occupied)
    /\ \A s \in occupied :
           Cardinality({u \in Users : \E t \in token[u] : t[1] = s /\ Live(t)}) = 1

\* A slot keeps a waker only while it is occupied and its owner is inside a
\* session ("Finishing or dropping that session automatically removes its
\* registered task waker").
WakersBelongToSessions ==
    \A s \in Slots, u \in Users : u \in waker[s] =>
        /\ s \in occupied /\ \E t \in token[u] : t[1] = s /\ Live(t)
        /\ pc[u] \in {"asleep", "future", "deadline", "close"}

\* No wait elapses early: poll reports a dead token as elapsed, which is right
\* only because nothing but expiry kills a token its user still holds.  And race
\* never reports Elapsed for work that completed before the deadline was
\* observed ("work completed in the same observation window wins").
ElapsedIsRight ==
    /\ [](\A u \in Users : result[u] = "elapsed" => until[u] <= now)
    /\ [][\A u \in Users : kind[u] = "deadline" /\ result'[u] = "elapsed"
              /\ result[u] # "elapsed" => ~ready[u]]_vars

\* Every wait on a deadline ends, by its future or by the tick that drains its
\* slot (check_timer_events).
WaitsEnd == \A u \in Users :
    pc[u] \in {"future", "deadline", "asleep"} ~> pc[u] \in {"idle", "held", "close"}
=============================================================================
