------------------------------ MODULE MCWakers ------------------------------
(* A small instance of the users of wakers: the interrupt wakers of axtask *)
(* (IrqWakers), a PollSet between waiters and notifiers (PollSet) and the  *)
(* waits of a WaitQueue (WaitQueue).  They share no state: a behaviour     *)
(* steps one of them, `part`, chosen at the start.                         *)
EXTENDS IrqWakers, TLC

CONSTANTS w1, w2, Closers, MaxPosts, Plans, Interrupted, MaxPermits, MaxNotifies

VARIABLES part, set, ready, wpc, wtoken, version, wcalled, npc, drained, posts,
          list, notified, permits, released, tell, alls, call, qpc, lwake, iwake, dwake,
          flag, caught, due, last, woken, sent, result

P == INSTANCE PollSet WITH Waiters <- Users, Notifiers <- Handlers,
                           pc <- wpc, token <- wtoken, called <- wcalled, pending <- drained
Q == INSTANCE WaitQueue WITH Waiters <- Users, pc <- qpc

pollset == <<set, ready, wpc, wtoken, version, wcalled, npc, drained, posts>>
waitqueue == <<list, notified, permits, released, tell, alls, call, qpc, lwake, iwake, dwake,
               flag, caught, due, last, woken, sent, result>>
all == <<part, vars, pollset, waitqueue>>

\* The waits that two tasks are in at the same time.
MCPlans ==
    {w1 :> "wait_until_interruptible" @@ w2 :> "wait_until",
     w1 :> "wait_timeout_until_interruptible" @@ w2 :> "wait_timeout",
     w1 :> "wait_timeout_until" @@ w2 :> "wait_until_interruptible",
     w1 :> "wait_timeout_until_interruptible" @@ w2 :> "wait"}

MCInit ==
    /\ part \in {"irq", "poll", "queue"} /\ Init /\ P!Init /\ Q!Init
    /\ part # "irq" => owner = None /\ want = [u \in Users |-> CHOOSE i \in Irqs : TRUE]
    /\ part # "queue" => call = CHOOSE f \in Plans : TRUE

\* What a step of the other parts leaves alone.
InIrq == part = "irq" /\ UNCHANGED <<part, pollset, waitqueue>>
InPoll == part = "poll" /\ UNCHANGED <<part, vars, waitqueue>>
InQueue == part = "queue" /\ UNCHANGED <<part, vars, pollset>>

MCNext == (InIrq /\ Next) \/ (InPoll /\ P!Next) \/ (InQueue /\ Q!Next)

\* The fairness of the three modules.  As a behaviour keeps its part, one condition
\* on a step of any of them is the same as one on each.
MCSpec ==
    /\ MCInit /\ [][MCNext]_all
    /\ \A w \in Users :
       /\ WF_all((InIrq /\ UserStep(w)) \/ (InPoll /\ P!WaiterStep(w)) \/ (InQueue /\ Q!Step(w)))
       /\ WF_all(InQueue /\ Q!Expire(w))
    /\ \A w \in Interrupted : WF_all(InQueue /\ Q!WakeInterrupted(w))
    /\ \A h \in Handlers : WF_all(\/ (InIrq /\ HandlerStep(h)) \/ (InPoll /\ P!NotifierStep(h))
                                 \/ (InQueue /\ Q!NotifyMany))

-----------------------------------------------------------------------------
(* The properties of the parts, under this module's names.                 *)

\* Both registries keep their types and their representation: a source is bound
\* exactly when a waiter was admitted (register_irq_waker), len counts the
\* registrations, a token names its own waiter's slot or nothing (arm, update,
\* cancel), and a closed set holds no registration ever again (close).
TypesOK == /\ TypeOK /\ BoundIfAdmitted
           /\ P!TypeOK /\ P!LenExact /\ P!TokensAreOwn /\ P!ClosedIsEmpty

\* A waiter asleep in a PollSet is reachable by its current waker, and while the
\* object is ready a registered one has a notifier yet to drain the set (update
\* and register against wake).  An interruption reaches its task too: the waits of
\* a WaitQueue report it or put it back (poll_listener_interruptible).
SleeperReachable == P!SleeperReachable /\ P!ReadinessWakes /\ Q!InterruptionKept

\* A waiter that has a reason to run.
Stuck(w) ==
    CASE part = "irq" -> StuckOnIrq(w)
      [] part = "poll" -> P!Stuck(w)
      [] part = "queue" -> Q!Ending(w) /\ Q!Waiting(w)

\* A waiter does not sleep for ever over a raised interrupt, a ready object or a
\* closed set (wake_irq, PollSet::wake and close); a timed wait of a WaitQueue
\* ends, and so does an interrupted one (race, poll_listener_interruptible); and no
\* permit lies unclaimed while its conditional waiters sleep (notify_many).
SleepersWake ==
    /\ \A w \in Users : Stuck(w) ~> ~Stuck(w)
    /\ Q!Unclaimed ~> ~Q!Unclaimed
=============================================================================
