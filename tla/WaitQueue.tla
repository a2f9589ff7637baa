------------------------------ MODULE WaitQueue ------------------------------
(***************************************************************************)
(* thekernel-axtask wait_queue.rs: the six waits of a WaitQueue, which     *)
(* combine an event listener, an interruption and a deadline.  The queue   *)
(* guards a count of permits: the condition of a conditional wait takes    *)
(* one, and whoever releases permits notifies as many.  The list of        *)
(* listeners is external (event-listener); a poll of each source is one    *)
(* action.                                                                 *)
(***************************************************************************)
EXTENDS Integers, Sequences, FiniteSets

CONSTANTS Waiters,
          Plans,        \* the combinations of waits they call, waiter -> wait
          Interrupted,  \* waiters somebody interrupts, once
          MaxPermits,   \* bound: permits released
          MaxNotifies   \* bound: calls of notify_all

Conditional == {"wait_until", "wait_until_interruptible",
                "wait_timeout_until", "wait_timeout_until_interruptible"}
Timed == {"wait_timeout", "wait_timeout_until", "wait_timeout_until_interruptible"}
Interruptible == {"wait_until_interruptible", "wait_timeout_until_interruptible"}

VARIABLES
    list,     \* the event's listeners, oldest first
    notified, \* waiters whose listener is notified
    permits,  \* what the conditions take
    released, \* permits released so far
    tell,     \* notifications the releaser has yet to send
    alls,     \* notify_all calls so far
    call,     \* waiter: the wait it is in
    pc,       \* waiter: next step
    lwake, iwake, dwake,   \* waiter: its waker is registered with the listener,
                           \* the interruption, the deadline
    flag,     \* waiter: TaskInner::interrupted
    caught,   \* waiter: poll_interrupt took the flag in this poll
    due,      \* waiter: its deadline has passed
    last,     \* waiter: race polls its future for the last time
    woken,    \* waiter: its task was woken since its last poll began
    sent,     \* waiters that were interrupted
    result    \* waiter: what the wait returned

event == <<list, notified, lwake>>
waits == <<pc, caught, last, result>>
vars == <<event, permits, released, tell, alls, call, waits, iwake, dwake, flag, due, woken, sent>>

All(x) == [w \in Waiters |-> x]
Set(f, w, x) == [f EXCEPT ![w] = x]

Init ==
    /\ list = <<>> /\ notified = {} /\ permits = 0 /\ released = 0 /\ tell = 0 /\ alls = 0
    /\ call \in Plans /\ pc = All("start") /\ lwake = All(FALSE) /\ iwake = All(FALSE) /\ dwake = All(FALSE)
    /\ flag = All(FALSE) /\ caught = All(FALSE) /\ due = All(FALSE) /\ last = All(FALSE)
    /\ woken = All(FALSE) /\ sent = {} /\ result = All("none")

-----------------------------------------------------------------------------
(* event_listener::Event (external).                                        *)

Without(l, w) == SelectSeq(l, LAMBDA x : x # w)

\* notify(n): the oldest listeners, until n of those left are notified.
Chosen(l, marked, n) ==
    LET rank(w) == Cardinality({i \in 1 .. Len(l) : l[i] \notin marked
                       /\ i <= CHOOSE k \in 1 .. Len(l) : l[k] = w}) IN
    {w \in {l[i] : i \in 1 .. Len(l)} \ marked : rank(w) <= n - Cardinality(marked)}

\* The listeners left and who is notified among them; notified ones are woken.
Notify(l, marked, n) ==
    LET new == Chosen(l, marked, n) IN
    /\ list' = l /\ notified' = marked \cup new
    /\ woken' = [w \in Waiters |-> woken[w] \/ (w \in new /\ lwake[w])]
    /\ lwake' = [w \in Waiters |-> lwake[w] /\ w \notin new]

\* Dropping a notified listener passes the notification on.
DropListener(w) ==
    Notify(Without(list, w), notified \ {w}, IF w \in notified THEN 1 ELSE 0)

-----------------------------------------------------------------------------
At(w, l) == pc[w] = l
Goto(w, l) == pc' = Set(pc, w, l)
Return(w, r) == Goto(w, "done") /\ result' = Set(result, w, r)

\* The condition: it takes a permit when there is one.
Take == permits' = permits - 1
Rest == <<released, tell, alls, call, due, sent>>
Wakers == <<iwake, dwake>>
Polls == <<caught, last>>

\* The condition that comes first in every conditional wait.
Start(w) ==
    /\ At(w, "start")
    /\ IF call[w] \in Conditional /\ permits > 0 THEN Take /\ Return(w, "condition")
       ELSE /\ Goto(w, IF call[w] \in Timed \cap Conditional
                       THEN "reserve" ELSE "listen")
            /\ UNCHANGED <<permits, result>>
    /\ UNCHANGED <<event, Rest, Wakers, Polls, flag, woken>>

\* listener!, and what follows it.
Listen(w) ==
    /\ At(w, "listen") /\ list' = Append(list, w)
    /\ Goto(w, CASE call[w] \in Conditional -> "check"
                 [] call[w] = "wait_timeout" -> "reserve"
                 [] OTHER -> "poll")
    /\ UNCHANGED <<notified, lwake, permits, result, Rest, Wakers, Polls, flag, woken>>

\* DeadlineReservation::reserve.
Reserved(w) ==
    /\ At(w, "reserve") /\ Goto(w, IF call[w] = "wait_timeout" THEN "poll" ELSE "listen")
    /\ UNCHANGED <<event, permits, result, Rest, Wakers, Polls, flag, woken>>

\* The timer registry has no room: wait_timeout looks at its listener, the
\* others at their condition, the interruptible one at its flag between two looks.
RefusedTimeout(w) ==
    /\ At(w, "reserve") /\ call[w] = "wait_timeout"
    /\ Return(w, IF w \in notified THEN "notified" ELSE "refused")
    /\ list' = Without(list, w) /\ notified' = notified \ {w} /\ lwake' = Set(lwake, w, FALSE)
    /\ UNCHANGED <<permits, Rest, Wakers, Polls, flag, woken>>

Refused(w) ==
    /\ At(w, "reserve") /\ call[w] # "wait_timeout"
    /\ IF permits > 0 THEN Take /\ Return(w, "condition")
       ELSE /\ UNCHANGED permits
            /\ IF call[w] \in Interruptible THEN Goto(w, "lookintr") /\ UNCHANGED result
                                            ELSE Return(w, "refused")
    /\ UNCHANGED <<event, Rest, Wakers, Polls, flag, woken>>

\* poll_interrupt_now; its waker is a no-op.
RefusedInterrupt(w) ==
    /\ At(w, "lookintr") /\ Goto(w, "relook")
    /\ caught' = Set(caught, w, flag[w]) /\ flag' = Set(flag, w, FALSE)
    /\ iwake' = IF flag[w] THEN iwake ELSE Set(iwake, w, FALSE)
    /\ UNCHANGED <<event, permits, result, Rest, dwake, last, woken>>

\* The answer after the flag was taken: the condition puts it back.
RefusedAnswer(w) ==
    /\ At(w, "relook")
    /\ IF permits > 0
       THEN /\ Take /\ Return(w, "condition") /\ flag' = Set(flag, w, flag[w] \/ caught[w])
       ELSE /\ UNCHANGED <<permits, flag>>
            /\ Return(w, IF caught[w] THEN "interrupted" ELSE "refused")
    /\ caught' = Set(caught, w, FALSE)
    /\ UNCHANGED <<event, Rest, Wakers, last, woken>>

\* The condition again, now that the listener is in the list.
Check(w) ==
    /\ At(w, "check")
    /\ IF permits > 0 THEN Take /\ Return(w, "condition") /\ DropListener(w)
       ELSE Goto(w, "poll") /\ UNCHANGED <<event, permits, result, woken>>
    /\ UNCHANGED <<Rest, Wakers, Polls, flag>>

\* The listener is ready: it leaves the list, a caught interruption is put back and
\* the deadline's session ends.
TakeNotice(w) ==
    /\ list' = Without(list, w) /\ notified' = notified \ {w} /\ lwake' = Set(lwake, w, FALSE)
    /\ flag' = Set(flag, w, flag[w] \/ caught[w]) /\ caught' = Set(caught, w, FALSE)
    /\ IF call[w] \in Conditional
       THEN Goto(w, IF call[w] \in Timed THEN "listen" ELSE "start") /\ UNCHANGED result
       ELSE Return(w, "notified")
    /\ last' = Set(last, w, FALSE) /\ dwake' = Set(dwake, w, FALSE)

\* A poll of the wrapped future that found nothing.
Pending(w) ==
    IF last[w] THEN "elapsed" ELSE IF call[w] \in Timed THEN "deadline" ELSE "asleep"

\* poll_listener.
PollListener(w) ==
    /\ At(w, "poll")
    /\ IF w \in notified THEN TakeNotice(w)
       ELSE /\ lwake' = Set(lwake, w, TRUE)
            /\ Goto(w, IF call[w] \in Interruptible THEN "intr" ELSE Pending(w))
            /\ UNCHANGED <<list, notified, flag, caught, last, dwake, result>>
    /\ UNCHANGED <<permits, Rest, iwake, woken>>

\* poll_interrupt: the flag, the waker, the flag.
PollInterrupt(w) ==
    /\ At(w, "intr")
    /\ caught' = Set(caught, w, flag[w]) /\ flag' = Set(flag, w, FALSE)
    /\ iwake' = IF flag[w] THEN iwake ELSE Set(iwake, w, TRUE)
    /\ Goto(w, IF flag[w] THEN "poll2" ELSE "intr2")
    /\ UNCHANGED <<event, permits, result, Rest, dwake, last, woken>>

RecheckInterrupt(w) ==
    /\ At(w, "intr2") /\ Goto(w, "poll2")
    /\ caught' = Set(caught, w, flag[w]) /\ flag' = Set(flag, w, FALSE)
    /\ UNCHANGED <<event, permits, result, Rest, Wakers, last, woken>>

\* The listener once more, after the interruption.
PollListenerAgain(w) ==
    /\ At(w, "poll2")
    /\ IF w \in notified THEN TakeNotice(w)
       ELSE /\ lwake' = Set(lwake, w, TRUE)
            /\ Goto(w, IF caught[w] THEN "interrupted" ELSE Pending(w))
            /\ UNCHANGED <<list, notified, flag, caught, last, dwake, result>>
    /\ UNCHANGED <<permits, Rest, iwake, woken>>

\* poll_deadline in DeadlineReservation::race.
PollDeadline(w) ==
    /\ At(w, "deadline")
    /\ IF due[w] THEN last' = Set(last, w, TRUE) /\ Goto(w, "poll") /\ UNCHANGED dwake
       ELSE dwake' = Set(dwake, w, TRUE) /\ Goto(w, "asleep") /\ UNCHANGED last
    /\ UNCHANGED <<event, permits, result, Rest, iwake, caught, flag, woken>>

Wakeup(w) ==
    /\ At(w, "asleep") /\ woken[w] /\ woken' = Set(woken, w, FALSE) /\ Goto(w, "poll")
    /\ UNCHANGED <<event, permits, result, Rest, Wakers, Polls, flag>>

\* WaitWake::Interrupted: the condition has priority, and the flag goes back.
EndInterrupted(w) ==
    /\ At(w, "interrupted") /\ DropListener(w)
    /\ IF permits > 0 THEN Take /\ Return(w, "condition") /\ flag' = Set(flag, w, TRUE)
       ELSE UNCHANGED <<permits, flag>> /\ Return(w, "interrupted")
    /\ caught' = Set(caught, w, FALSE) /\ dwake' = Set(dwake, w, FALSE)
    /\ UNCHANGED <<Rest, iwake, last>>

\* Elapsed: the condition still decides the answer.
EndElapsed(w) ==
    /\ At(w, "elapsed") /\ DropListener(w)
    /\ IF call[w] \in Conditional /\ permits > 0 THEN Take /\ Return(w, "condition")
       ELSE UNCHANGED permits /\ Return(w, "elapsed")
    /\ dwake' = Set(dwake, w, FALSE) /\ UNCHANGED <<Rest, iwake, Polls, flag>>

-----------------------------------------------------------------------------
(* The others.                                                              *)

\* One caller releases permits and calls notify_one, or notify_many for several:
\* notify_one "should not be called in a loop", for a listener that is notified
\* and has not run yet counts for both calls.
Release(k) ==
    /\ released = 0 /\ released' = k /\ permits' = k /\ tell' = k
    /\ UNCHANGED <<event, alls, call, waits, Wakers, flag, due, woken, sent>>

NotifyMany ==
    /\ tell > 0 /\ tell' = 0 /\ Notify(list, notified, tell)
    /\ UNCHANGED <<permits, released, alls, call, waits, Wakers, flag, due, sent>>

\* notify_all by anybody, without a permit.
NotifyAll ==
    /\ list # <<>> /\ alls < MaxNotifies /\ alls' = alls + 1
    /\ Notify(list, notified, Cardinality(Waiters))
    /\ UNCHANGED <<permits, released, tell, call, waits, Wakers, flag, due, sent>>

\* TaskInner::interrupt: the flag, then the waker.
SetFlag(w) ==
    /\ w \in Interrupted \ sent /\ sent' = sent \cup {w} /\ flag' = Set(flag, w, TRUE)
    /\ UNCHANGED <<event, permits, released, tell, alls, call, waits, Wakers, due, woken>>

WakeInterrupted(w) ==
    /\ w \in sent /\ iwake[w]
    /\ woken' = Set(woken, w, TRUE) /\ iwake' = Set(iwake, w, FALSE)
    /\ UNCHANGED <<event, permits, Rest, waits, dwake, flag>>

\* The timer tick that finds the deadline passed.
Expire(w) ==
    /\ call[w] \in Timed /\ pc[w] \notin {"start", "reserve", "done"} /\ ~due[w]
    /\ due' = Set(due, w, TRUE) /\ dwake' = Set(dwake, w, FALSE)
    /\ woken' = Set(woken, w, woken[w] \/ dwake[w])
    /\ UNCHANGED <<event, permits, released, tell, alls, call, waits, iwake, flag, sent>>

Step(w) ==
    \/ Start(w) \/ Listen(w) \/ Reserved(w) \/ RefusedTimeout(w) \/ Refused(w)
    \/ RefusedInterrupt(w) \/ RefusedAnswer(w) \/ Check(w) \/ PollListener(w)
    \/ PollInterrupt(w) \/ RecheckInterrupt(w) \/ PollListenerAgain(w) \/ PollDeadline(w)
    \/ Wakeup(w) \/ EndInterrupted(w) \/ EndElapsed(w)

Next ==
    \/ (\E w \in Waiters : Step(w) \/ SetFlag(w) \/ WakeInterrupted(w) \/ Expire(w))
    \/ (\E k \in 1 .. MaxPermits : Release(k)) \/ NotifyMany \/ NotifyAll

Spec ==
    /\ Init /\ [][Next]_vars
    /\ \A w \in Waiters : WF_vars(Step(w)) /\ WF_vars(WakeInterrupted(w)) /\ WF_vars(Expire(w))
    /\ WF_vars(NotifyMany)

-----------------------------------------------------------------------------
Waiting(w) == pc[w] # "done"

\* An interruption is pending, caught by the poll in progress, or reported: the
\* waits that return something else have put it back (poll_listener_interruptible,
\* wait_until_interruptible, wait_timeout_until_interruptible).
InterruptionKept ==
    \A w \in sent : flag[w] \/ caught[w] \/ result[w] = "interrupted"

\* Somebody waits although a permit lies unclaimed and no waiter can spend a
\* notification without taking a permit.
Unclaimed == permits > 0 /\ (\A w \in Waiters : call[w] \in Conditional)
             /\ \E w \in Waiters : Waiting(w)

\* The deadline or an interruption is to end the wait.
Ending(w) == call[w] \in Timed \/ (call[w] \in Interruptible /\ w \in sent)
=============================================================================
