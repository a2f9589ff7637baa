------------------------------ MODULE PollSet ------------------------------
(***************************************************************************)
(* A PollSet of thekernel-axpoll between waiters that follow the           *)
(* documented check - register - check sequence and contexts that make an  *)
(* object ready and then wake or close the set.  Every section under the   *)
(* lock is one action; the callbacks run after it, one at a time.          *)
(***************************************************************************)
EXTENDS PollRegistry, FiniteSets

CONSTANTS Waiters,    \* logical waiters
          Notifiers,  \* contexts that publish readiness and call wake or close
          Closers,    \* those of them that call close
          MaxPosts    \* bound: calls of each notifier

Versions == {0, 1}    \* wakers of one waiter that do not will_wake each other
NoToken == <<0, 0>>

VARIABLES
    set,      \* the state under the lock
    ready,    \* what the waiters wait for: unconsumed readiness
    pc,       \* waiter: next step
    token,    \* waiter: token it retains, or NoToken
    version,  \* waiter: its current waker
    called,   \* waiter: wakers of it that were called since it last looked
    npc,      \* notifier: next step
    pending,  \* notifier: wakers it drained and has yet to call, by slot
    posts     \* notifier: calls made

vars == <<set, ready, pc, token, version, called, npc, pending, posts>>
waiter == <<pc, token, version, called>>
notifier == <<npc, pending, posts>>

Nothing == [k \in Slots |-> None]

Init ==
    /\ set = NewSet /\ ready = FALSE
    /\ pc = [w \in Waiters |-> "look"] /\ token = [w \in Waiters |-> NoToken]
    /\ version = [w \in Waiters |-> 0] /\ called = [w \in Waiters |-> {}]
    /\ npc = [n \in Notifiers |-> "idle"] /\ pending = [n \in Notifiers |-> Nothing]
    /\ posts = [n \in Notifiers |-> 0]

Goto(w, l) == pc' = [pc EXCEPT ![w] = l]

\* A waiter looks; it is done, and cancels its token, when it finds readiness or
\* the set closed, else it registers, or updates the token it retains.
Look(w) ==
    /\ pc[w] = "look"
    /\ called' = [called EXCEPT ![w] = {}]
    /\ IF ready \/ set.closed
       THEN Goto(w, "cancel") /\ UNCHANGED version
       ELSE IF token[w] = NoToken THEN Goto(w, "register") /\ UNCHANGED version
       ELSE /\ Goto(w, "update")
            /\ \E v \in Versions : version' = [version EXCEPT ![w] = v]
    /\ UNCHANGED <<set, ready, token, notifier>>

\* register; a set that is full, closed or exhausted turns the waiter away.
Register(w) ==
    /\ pc[w] = "register"
    /\ IF Admissible(set)
       THEN /\ set' = Armed(set, <<w, version[w]>>)
            /\ token' = [token EXCEPT ![w] = ArmToken(set, <<w, version[w]>>)]
            /\ Goto(w, "check")
       ELSE UNCHANGED <<set, token>> /\ Goto(w, "refused")
    /\ UNCHANGED <<ready, version, called, notifier>>

\* update; a token that was consumed meanwhile is dropped.
Update(w) ==
    /\ pc[w] = "update"
    /\ IF ~set.closed /\ Names(set, token[w])
       THEN /\ set' = Updated(set, token[w], <<w, version[w]>>)
            /\ Goto(w, "check") /\ UNCHANGED token
       ELSE token' = [token EXCEPT ![w] = NoToken] /\ Goto(w, "look") /\ UNCHANGED set
    /\ UNCHANGED <<ready, version, called, notifier>>

\* The second look, after which the waiter sleeps.
Check(w) ==
    /\ pc[w] = "check"
    /\ Goto(w, IF ready THEN "cancel" ELSE "asleep")
    /\ UNCHANGED <<set, ready, token, version, called, notifier>>

\* cancel, by token; then the waiter consumes the readiness it saw, if any, and
\* waits again.
Cancel(w) ==
    /\ pc[w] = "cancel"
    /\ set' = IF token[w] # NoToken /\ Names(set, token[w])
              THEN Cancelled(set, token[w]) ELSE set
    /\ token' = [token EXCEPT ![w] = NoToken]
    /\ ready' = FALSE /\ Goto(w, IF set.closed THEN "refused" ELSE "look")
    /\ UNCHANGED <<version, called, notifier>>

\* A call of the waker the waiter last registered makes it run again.  A task
\* may also run for another reason, and then retains its token.
Wakeup(w) ==
    /\ pc[w] = "asleep" /\ version[w] \in called[w]
    /\ Goto(w, "look") /\ UNCHANGED <<set, ready, token, version, called, notifier>>

Repoll(w) ==
    /\ pc[w] = "asleep" /\ version[w] \notin called[w]
    /\ Goto(w, "look") /\ UNCHANGED <<set, ready, token, version, called, notifier>>

\* A notifier makes the object ready, or decides to close it.
Post(n) ==
    /\ npc[n] = "idle" /\ posts[n] < MaxPosts
    /\ posts' = [posts EXCEPT ![n] = @ + 1]
    /\ \/ ready' = TRUE /\ npc' = [npc EXCEPT ![n] = "wake"]
       \/ n \in Closers /\ npc' = [npc EXCEPT ![n] = "close"] /\ UNCHANGED ready
    /\ UNCHANGED <<set, waiter, pending>>

\* wake, and close, up to the release of the lock.
Drain(n) ==
    /\ npc[n] \in {"wake", "close"}
    /\ IF npc[n] = "close" /\ set.closed
       THEN npc' = [npc EXCEPT ![n] = "idle"] /\ UNCHANGED <<set, pending>>
       ELSE /\ pending' = [pending EXCEPT ![n] = set.waker]
            /\ set' = [Drained(set) EXCEPT !.closed = @ \/ npc[n] = "close"]
            /\ npc' = [npc EXCEPT ![n] = "call"]
    /\ UNCHANGED <<ready, waiter, posts>>

\* The callbacks, in slot order.
CallNext(n) ==
    /\ npc[n] = "call"
    /\ LET left == {k \in Slots : pending[n][k] # None} IN
       IF left = {}
       THEN npc' = [npc EXCEPT ![n] = "idle"] /\ UNCHANGED <<pending, called>>
       ELSE LET k == CHOOSE k \in left : \A j \in left : k <= j
                to == pending[n][k] IN
            /\ pending' = [pending EXCEPT ![n][k] = None]
            /\ called' = [called EXCEPT ![to[1]] = @ \cup {to[2]}]
            /\ UNCHANGED npc
    /\ UNCHANGED <<set, ready, pc, token, version, posts>>

WaiterStep(w) == Look(w) \/ Register(w) \/ Update(w) \/ Check(w) \/ Cancel(w) \/ Wakeup(w)
NotifierStep(n) == Drain(n) \/ CallNext(n)

Next ==
    \/ \E w \in Waiters : WaiterStep(w) \/ Repoll(w)
    \/ \E n \in Notifiers : Post(n) \/ NotifierStep(n)

Safety == Init /\ [][Next]_vars

\* A context that entered the registry leaves it, and a task whose waker was
\* called is run.
Fairness ==
    /\ \A w \in Waiters : WF_vars(WaiterStep(w))
    /\ \A n \in Notifiers : WF_vars(NotifierStep(n))

Spec == Safety /\ Fairness

-----------------------------------------------------------------------------
(* Properties.                                                              *)

\* The set, its tokens and the contexts keep their types.
TypeOK ==
    /\ set.gen \in [Slots -> 0 .. MaxGeneration]
    /\ set.waker \in [Slots -> (Waiters \X Versions) \cup {None}]
    /\ set.next \in Slots /\ set.len \in 0 .. Capacity /\ set.closed \in BOOLEAN
    /\ ready \in BOOLEAN /\ token \in [Waiters -> Tokens \cup {NoToken}]
    /\ pc \in [Waiters -> {"look", "register", "update", "check", "cancel", "asleep", "refused"}]
    /\ version \in [Waiters -> Versions] /\ called \in [Waiters -> SUBSET Versions]
    /\ npc \in [Notifiers -> {"idle", "wake", "close", "call"}]
    /\ pending \in [Notifiers -> [Slots -> (Waiters \X Versions) \cup {None}]]
    /\ posts \in [Notifiers -> 0 .. MaxPosts]

\* len counts the registrations exactly, through every drain, cancellation and
\* stale token, so that a set is refused as full only when it is (arm).
LenExact == set.len = Cardinality(Occupied(set))

\* A token that still names a slot names its own waiter's registration, and each
\* waiter has at most one: no old token cancels or updates, and no drain leaves
\* behind, somebody else's waker (generations in arm, update and cancel).
TokensAreOwn ==
    /\ \A w \in Waiters : token[w] # NoToken /\ Names(set, token[w]) =>
           set.waker[token[w][1]][1] = w
    /\ \A k \in Occupied(set) : token[set.waker[k][1]] = <<k, set.gen[k]>>

\* A waiter asleep is reachable: its current waker is registered, or is about to
\* be called, or has been called.  In particular an update is never overtaken by
\* a drain that calls the old waker only.
SleeperReachable ==
    \A w \in Waiters : pc[w] = "asleep" =>
        \/ Names(set, token[w]) /\ set.waker[token[w][1]] = <<w, version[w]>>
        \/ \E n \in Notifiers, k \in Slots : pending[n][k] = <<w, version[w]>>
        \/ version[w] \in called[w]

\* Readiness is not slept through: while the object is ready, a waiter that is
\* still registered has a notifier that has yet to drain the set.
ReadinessWakes ==
    \A w \in Waiters :
        ready /\ pc[w] = "asleep" /\ Names(set, token[w]) =>
            \E n \in Notifiers : npc[n] = "wake"

\* Close is final: a closed set holds no registration, ever again.
ClosedIsEmpty == set.closed => Occupied(set) = {}

\* A waiter asleep over a ready object or a closed set.
Stuck(w) == pc[w] = "asleep" /\ (ready \/ set.closed)
=============================================================================
