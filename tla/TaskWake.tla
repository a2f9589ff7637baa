------------------------------ MODULE TaskWake ------------------------------
(***************************************************************************)
(* One schedulable task of thekernel-axtask under SMP: how it blocks, is   *)
(* woken, is handed between CPUs, has its affinity changed and is stolen   *)
(* by an idle CPU.                                                         *)
(*                                                                         *)
(* The state is the task's words that the code mutates without a common    *)
(* lock (block_wait, mutation, state, cpu_id, affinity, need_resched,      *)
(* cpu_handoff, wake_handoff), the run queues it is linked in, and the     *)
(* control of every actor that touches them: the task's own kernel stack,  *)
(* raw wakers, affinity setters, and the CPUs, which run the switch        *)
(* epilogue, the migration helper and the idle steal.  Each action is one  *)
(* atomic access of the code or one section under a run-queue lock; the    *)
(* sections the code holds a lock across several accesses take `locked`.   *)
(* Interleaving is sequentially consistent.                                *)
(***************************************************************************)
EXTENDS Integers, FiniteSets

CONSTANTS Cpus,          \* initialised run queues
          Wakers,        \* contexts that hold a raw waker of the task
          Setters,       \* contexts that call set_task_affinity on it
          Task,          \* the task itself, as an actor
          NoCpu,         \* "no CPU", "no helper"
          Stealing,      \* TRUE when built with the idle-steal feature
          MaxSessions,   \* bound: block_on sessions before the task exits
          MaxWakes,      \* bound: calls of each raw waker
          MaxSets,       \* bound: affinity calls of each setter
          MaxSelfSets,   \* bound: affinity calls of the task on itself
          Masks,         \* affinity masks the callers choose from
          MaxContention, \* bound: timer ticks, and times another task wins
          MaxRefusals    \* bound: migrations a destination refuses

Actors == Wakers \cup Setters \cup {Task}

ASSUME TaskWakeAssumption ==
    /\ Cpus # {} /\ IsFiniteSet(Cpus) /\ NoCpu \notin Cpus \cup Setters \cup {Task}
    /\ Task \notin Wakers \cup Setters /\ Wakers \cap Setters = {}
    /\ Stealing \in BOOLEAN
    /\ {MaxSessions, MaxWakes, MaxSets, MaxSelfSets, MaxContention, MaxRefusals}
          \subseteq Nat
    /\ Masks \subseteq SUBSET Cpus /\ {} \notin Masks

VARIABLES
    bw,        \* block_wait: generation and ACTIVE, WOKEN, OWNER bits
    mutation,  \* mutation: its owner and the WAKE bit
    task,      \* state, cpu_id, affinity mask and helper, need_resched
    hand,      \* cpu_handoff token (0 is NONE) and pending bit, wake_handoff
    ready,     \* run queues in which the task is linked
    cur,       \* CPU whose live stack is the task's, or NoCpu
    cpu,       \* per CPU: what it does besides running the task
    locked,    \* run queues whose lock is held across several steps
    pc,        \* per actor: its next step
    ret,       \* per actor: where the step it is in returns to
    loc,       \* per actor: selected CPU, sampled owner token, chosen mask
    events,    \* published occurrences and those a poll has consumed
    budget,    \* how much of each bound has been used
    fault      \* a fail-stop (system_off) branch was taken

vars == <<bw, mutation, task, hand, ready, cur, cpu, locked, pc, ret, loc,
          events, budget, fault>>
words == <<bw, mutation, task, hand>>
sched == <<ready, cur, cpu, locked>>
control == <<pc, ret, loc>>
env == <<events, budget>>

Mut(o, w) == [owner |-> o, wake |-> w]
Idle == Mut("none", FALSE)
WakeOwned == Mut("none", TRUE)

\* A CPU that runs some other task or its idle task.
OtherWork(c) == [pc |-> "run", prev |-> 0, helper |-> FALSE, from |-> c, to |-> c]

Init ==
    \E c \in Cpus :
        /\ bw = [gen |-> 0, active |-> FALSE, woken |-> FALSE, owner |-> FALSE]
        /\ mutation = Idle
        /\ task = [state |-> "Running", cpu |-> c, mask |-> Cpus,
                   helper |-> NoCpu, resched |-> FALSE]
        /\ hand = [token |-> 1, cpu |-> c, pending |-> FALSE,
                   slot |-> FALSE, gen |-> 1]
        /\ ready = {} /\ cur = c /\ locked = {}
        /\ cpu = [d \in Cpus |-> OtherWork(d)]
        /\ pc = [a \in Actors |-> IF a = Task THEN "begin" ELSE "idle"]
        /\ ret = [a \in Actors |-> "idle"]
        /\ loc = [a \in Actors |-> [cpu |-> c, seen |-> 0, mask |-> Cpus]]
        /\ events = [made |-> 0, taken |-> 0]
        /\ budget = [sessions |-> 0, contention |-> 0, self |-> 0, refused |-> 0,
                     calls |-> [a \in Wakers \cup Setters |-> 0]]
        /\ fault = FALSE

-----------------------------------------------------------------------------
(* Helpers.                                                                *)

\* Actor a is about to take one of these steps: it has not powered the machine
\* off, and the task's own stack steps only on a CPU.
Here(a, ls) == pc[a] \in ls /\ ~fault /\ (a = Task => cur # NoCpu)

Goto(a, l) == pc' = [pc EXCEPT ![a] = l]
Return(a) == Goto(a, ret[a])

\* Mutation: the live stack of a yielding task is not looked at.
HandoffOnly == hand.slot

\* has_cpu_owner_or_handoff.
HasOwnerOrHandoff == hand.token # 0 \/ hand.slot

\* enqueue_task(Wakeup): link the task and clear the exact wake claim under the
\* target's lock.  A second link or a claim that is not exactly WAKE powers off.
EnqueueWakeup(q) ==
    /\ q \notin locked
    /\ IF ready = {} /\ mutation = WakeOwned
       THEN /\ ready' = {q} /\ mutation' = Idle /\ UNCHANGED fault
       ELSE fault' = TRUE /\ UNCHANGED <<ready, mutation>>

\* The destination's scheduler refuses a migrating task.
Refuse ==
    /\ budget.refused < MaxRefusals
    /\ budget' = [budget EXCEPT !.refused = @ + 1]

\* enqueue_task(Migrate): link the parked task on its new queue.
EnqueueMigrate(q) ==
    /\ q \notin locked
    /\ IF ready = {}
       THEN ready' = {q} /\ UNCHANGED fault
       ELSE fault' = TRUE /\ UNCHANGED ready

-----------------------------------------------------------------------------
(* wake_task and wake_task_claimed, run by a raw waker, by an affinity      *)
(* setter and by the task's own block publication.                          *)

\* A raw waker is invoked, with or without a new occurrence behind it.
CallWake(w) ==
    /\ Here(w, {"idle"}) /\ budget.calls[w] < MaxWakes
    /\ \E n \in {0, 1} : events' = [events EXCEPT !.made = @ + n]
    /\ budget' = [budget EXCEPT !.calls[w] = @ + 1]
    /\ Goto(w, "mark")
    /\ UNCHANGED <<words, sched, ret, loc, fault>>

\* BlockWaitState::mark_woken.
MarkWoken(a) ==
    /\ Here(a, {"mark"})
    /\ IF bw.active
       THEN /\ bw' = [bw EXCEPT !.woken = TRUE]
            /\ IF bw.owner THEN Return(a) ELSE Goto(a, "claim")
       ELSE Return(a) /\ UNCHANGED bw
    /\ UNCHANGED <<mutation, task, hand, sched, ret, loc, env, fault>>

\* Mutations: a CAS whose loser leaves no bit; a claim that ignores the owner.
ClaimWakeByCas(a) ==
    /\ Here(a, {"claim"})
    /\ IF mutation = Idle THEN mutation' = WakeOwned /\ Goto(a, "select")
                          ELSE Return(a) /\ UNCHANGED mutation
    /\ UNCHANGED <<bw, task, hand, sched, ret, loc, env, fault>>
ClaimWakeAnyway(a) ==
    /\ Here(a, {"claim"})
    /\ mutation' = [mutation EXCEPT !.wake = TRUE]
    /\ IF mutation.wake THEN Return(a) ELSE Goto(a, "select")
    /\ UNCHANGED <<bw, task, hand, sched, ret, loc, env, fault>>

\* claim_wake_mutation: one fetch_or arbitrates every publisher.
ClaimWake(a) ==
    /\ Here(a, {"claim"})
    /\ mutation' = [mutation EXCEPT !.wake = TRUE]
    /\ IF mutation = Idle THEN Goto(a, "select") ELSE Return(a)
    /\ UNCHANGED <<bw, task, hand, sched, ret, loc, env, fault>>

\* select_run_queue: a blocked task keeps its frozen owner, any other state
\* takes an allowed queue by advisory load.
SelectRunQueue(a) ==
    /\ Here(a, {"select"})
    /\ \E c \in IF task.state = "Blocked" THEN {task.cpu} ELSE task.mask :
           loc' = [loc EXCEPT ![a].cpu = c]
    /\ Goto(a, "unblock")
    /\ UNCHANGED <<words, sched, ret, env, fault>>

\* put_task_with_state(Blocked): the state transition and the cpu_id store.
Unblock(a) ==
    /\ Here(a, {"unblock"})
    /\ IF task.state = "Blocked"
       THEN /\ task' = [task EXCEPT !.state = "Ready", !.cpu = loc[a].cpu]
            /\ Goto(a, "handoff")
       ELSE Goto(a, "release") /\ UNCHANGED task
    /\ UNCHANGED <<bw, mutation, hand, sched, ret, loc, env, fault>>

\* publish_wake_handoff, its load of the owner word.
LoadOwner(a) ==
    /\ Here(a, {"handoff"})
    /\ \/ /\ hand.token = 0
          /\ Goto(a, "enqueue")
          /\ UNCHANGED <<loc, fault, ret>>
       \/ /\ hand.token # 0 /\ ~hand.pending
          /\ loc' = [loc EXCEPT ![a].seen = hand.token]
          /\ Goto(a, "store")
          /\ UNCHANGED <<fault, ret>>
       \/ hand.token # 0 /\ hand.pending /\ fault' = TRUE /\ UNCHANGED control
    /\ UNCHANGED <<words, sched, env>>

\* publish_wake_handoff, the pointer is stored before the owner word.
StoreHandoff(a) ==
    /\ Here(a, {"store"})
    /\ IF hand.slot
       THEN fault' = TRUE /\ UNCHANGED <<hand, pc>>
       ELSE /\ hand' = [hand EXCEPT !.slot = TRUE]
            /\ Goto(a, "arm") /\ UNCHANGED fault
    /\ UNCHANGED <<bw, mutation, task, sched, ret, loc, env>>

\* publish_wake_handoff, the CAS that delegates to the sampled owner.
ArmHandoff(a) ==
    /\ Here(a, {"arm"})
    /\ IF hand.token = loc[a].seen /\ ~hand.pending
       THEN /\ hand' = [hand EXCEPT !.pending = TRUE]
            /\ Return(a)
       ELSE Goto(a, IF hand.pending THEN "occupied" ELSE "reclaim")
            /\ UNCHANGED hand
    /\ UNCHANGED <<bw, mutation, task, sched, ret, loc, env, fault>>

\* publish_wake_handoff, the failed CAS takes its own pointer back.
ReclaimHandoff(a) ==
    /\ Here(a, {"reclaim", "occupied"})
    /\ hand' = [hand EXCEPT !.slot = FALSE]
    /\ \/ ~hand.slot /\ Return(a) /\ UNCHANGED fault
       \/ hand.slot /\ Here(a, {"reclaim"}) /\ Goto(a, "enqueue") /\ UNCHANGED fault
       \/ hand.slot /\ Here(a, {"occupied"}) /\ fault' = TRUE /\ UNCHANGED pc
    /\ UNCHANGED <<bw, mutation, task, sched, ret, loc, env>>

\* The immediate runnable publication on the selected queue.
EnqueueClaimed(a) ==
    /\ Here(a, {"enqueue"})
    /\ EnqueueWakeup(loc[a].cpu)
    /\ Return(a)
    /\ UNCHANGED <<bw, task, hand, cur, cpu, locked, ret, loc, env>>

\* WakeTaskOutcome::AlreadyRunnable: finish_wake_mutation.
ReleaseWake(a) ==
    /\ Here(a, {"release"})
    /\ IF mutation = WakeOwned
       THEN mutation' = Idle /\ UNCHANGED fault
       ELSE fault' = TRUE /\ UNCHANGED mutation
    /\ Return(a)
    /\ UNCHANGED <<bw, task, hand, sched, ret, loc, env>>

WakeStep(a) ==
    \/ MarkWoken(a) \/ ClaimWake(a) \/ SelectRunQueue(a) \/ Unblock(a)
    \/ LoadOwner(a) \/ StoreHandoff(a) \/ ArmHandoff(a) \/ ReclaimHandoff(a)
    \/ EnqueueClaimed(a) \/ ReleaseWake(a)

-----------------------------------------------------------------------------
(* The task's own stack: block_on, blocked_resched_atomic, yield, preempt,  *)
(* set_current_affinity and exit.  It steps only while a CPU runs it.       *)

Own(l) == Here(Task, {l})

\* Leaves this CPU: switch_to saves the owner token for the epilogue.
SwitchOut(c, helper) ==
    /\ cur' = NoCpu
    /\ cpu' = [cpu EXCEPT ![c] = [pc |-> "epilogue", prev |-> hand.token,
                                  helper |-> helper, from |-> c, to |-> c]]

\* begin_block_wait, or the task is done and exits.
BeginBlockWait ==
    /\ Own("begin") /\ budget.sessions < MaxSessions
    /\ bw' = [gen |-> bw.gen + 1, active |-> TRUE, woken |-> FALSE,
              owner |-> FALSE]
    /\ budget' = [budget EXCEPT !.sessions = @ + 1]
    /\ Goto(Task, "prepare")
    /\ UNCHANGED <<mutation, task, hand, sched, ret, loc, events, fault>>

\* prepare_block_poll clears an old wake before the future is polled.
PreparePoll ==
    /\ Own("prepare")
    /\ bw' = [bw EXCEPT !.woken = FALSE]
    /\ Goto(Task, "poll")
    /\ UNCHANGED <<mutation, task, hand, sched, ret, loc, env, fault>>

\* The future is Ready exactly when an occurrence is left to consume.
Poll ==
    /\ Own("poll")
    /\ IF events.made > events.taken
       THEN /\ events' = [events EXCEPT !.taken = @ + 1]
            /\ Goto(Task, "end")
       ELSE Goto(Task, "check") /\ UNCHANGED events
    /\ UNCHANGED <<words, sched, ret, loc, budget, fault>>

\* end_block_wait.
EndBlockWait ==
    /\ Own("end")
    /\ bw' = [bw EXCEPT !.active = FALSE, !.woken = FALSE]
    /\ Goto(Task, "begin")
    /\ UNCHANGED <<mutation, task, hand, sched, ret, loc, env, fault>>

\* is_block_woken, before the run queue is taken.
CheckWoken ==
    /\ Own("check")
    /\ Goto(Task, IF bw.woken THEN "yield" ELSE "claimblock")
    /\ UNCHANGED <<words, sched, ret, loc, env, fault>>

\* claim_block_wait.
ClaimBlock ==
    /\ Own("claimblock")
    /\ IF bw.woken
       THEN Goto(Task, "yield") /\ UNCHANGED bw
       ELSE /\ bw' = [bw EXCEPT !.owner = TRUE]
            /\ Goto(Task, "beginblock")
    /\ UNCHANGED <<mutation, task, hand, sched, ret, loc, env, fault>>

\* try_begin_block_mutation: Claimed, Busy (abort as a spurious wake), Corrupt.
BeginBlock ==
    /\ Own("beginblock")
    /\ \/ /\ mutation = Idle
          /\ mutation' = Mut("block", FALSE)
          /\ Goto(Task, "publish") /\ UNCHANGED <<bw, fault>>
       \/ /\ mutation.owner \in {"affinity", "steal"} \/ mutation = WakeOwned
          /\ bw' = [bw EXCEPT !.woken = TRUE]
          /\ Goto(Task, "abort") /\ UNCHANGED <<mutation, fault>>
       \/ /\ mutation.owner = "block"
          /\ fault' = TRUE /\ UNCHANGED <<bw, mutation, pc>>
    /\ UNCHANGED <<task, hand, sched, ret, loc, env>>

\* commit_block_wait of the aborted publication: always Woken.
AbortBlock ==
    /\ Own("abort")
    /\ bw' = [bw EXCEPT !.owner = FALSE]
    /\ task' = [task EXCEPT !.state = "Running"]
    /\ Goto(Task, "yield")
    /\ UNCHANGED <<mutation, hand, sched, ret, loc, env, fault>>

\* Under the source lock: freeze the wake owner, then publish Blocked.
PublishBlocked ==
    /\ Own("publish") /\ cur \notin locked
    /\ \E c \in IF cur \in task.mask THEN {cur} ELSE task.mask :
           task' = [task EXCEPT !.cpu = c, !.state = "Blocked"]
    /\ locked' = locked \cup {cur}
    /\ Goto(Task, "commit")
    /\ UNCHANGED <<bw, mutation, hand, ready, cur, cpu, ret, loc, env, fault>>

\* commit_block_wait: a wake that arrived under OWNER restores Running.
CommitBlock ==
    /\ Own("commit")
    /\ bw' = [bw EXCEPT !.owner = FALSE]
    /\ IF bw.woken
       THEN /\ task' = [task EXCEPT !.state = "Running", !.cpu = cur]
            /\ ret' = [ret EXCEPT ![Task] = "woken"]
       ELSE UNCHANGED task /\ ret' = [ret EXCEPT ![Task] = "resched"]
    /\ Goto(Task, "finishblock")
    /\ UNCHANGED <<mutation, hand, sched, loc, env, fault>>

\* finish_block_mutation, then the source lock is released; a wake that found
\* the block owner is inherited and completed here.
FinishBlock ==
    /\ Own("finishblock")
    /\ locked' = locked \ {cur}
    /\ \/ /\ mutation = Mut("block", FALSE)
          /\ mutation' = Idle /\ Return(Task) /\ UNCHANGED fault
       \/ /\ mutation = Mut("block", TRUE)
          /\ mutation' = WakeOwned /\ Goto(Task, "select") /\ UNCHANGED fault
       \/ /\ mutation.owner # "block"
          /\ fault' = TRUE /\ UNCHANGED <<mutation, pc>>
    /\ UNCHANGED <<bw, task, hand, ready, cur, cpu, ret, loc, env>>

\* BlockWaitCommit::Woken: keep a newly disallowed CPU pending, then yield.
CommitWoken ==
    /\ Own("woken")
    /\ task' = [task EXCEPT !.resched = @ \/ cur \notin task.mask]
    /\ Goto(Task, "yield")
    /\ UNCHANGED <<bw, mutation, hand, sched, ret, loc, env, fault>>

\* resched(Block): the task is in no queue, so another task is switched in.
ReschedBlocked ==
    /\ Own("resched") /\ cur \notin locked
    /\ SwitchOut(cur, FALSE)
    /\ Goto(Task, "resumed")
    /\ ret' = [ret EXCEPT ![Task] = "prepare"]
    /\ UNCHANGED <<words, ready, locked, loc, env, fault>>

\* yield_now: a helper the mask no longer calls for is retired first.
YieldNow ==
    /\ Own("yield")
    /\ task' = [task EXCEPT !.helper = IF cur \in task.mask THEN NoCpu ELSE @]
    /\ ret' = [ret EXCEPT ![Task] = "prepare"]
    /\ Goto(Task, "claimmigration")
    /\ UNCHANGED <<bw, mutation, hand, sched, loc, env, fault>>

\* The points of the task's own control that run with preemption enabled.
SafePoints == {"begin", "prepare", "poll", "end", "check", "selfclaim",
               "selfpublish", "selfmigrate", "selffinish"}

\* current_check_preempt_pending: a pending reschedule, or a timer tick that
\* lets another task compete, enters preempt_resched.
Preempt ==
    /\ Here(Task, SafePoints)
    /\ \/ task.resched /\ UNCHANGED budget
       \/ /\ budget.contention < MaxContention
          /\ budget' = [budget EXCEPT !.contention = @ + 1]
    /\ ret' = [ret EXCEPT ![Task] = pc[Task]]
    /\ Goto(Task, "claimmigration")
    /\ UNCHANGED <<words, sched, loc, events, fault>>

\* claim_migration in maybe_migrate_current.
ClaimMigration ==
    /\ Own("claimmigration")
    /\ \/ cur \in task.mask /\ Goto(Task, "put") /\ UNCHANGED task
       \/ /\ cur \notin task.mask /\ task.helper # NoCpu
          /\ task' = [task EXCEPT !.helper = NoCpu]
          /\ Goto(Task, "migrate")
       \/ /\ cur \notin task.mask /\ task.helper = NoCpu
          /\ task' = [task EXCEPT !.resched = TRUE]
          /\ Goto(Task, "put")
    /\ UNCHANGED <<bw, mutation, hand, sched, ret, loc, env, fault>>

\* migrate_current: Ready but in no queue, and straight to the helper.
MigrateCurrent ==
    /\ Own("migrate") /\ cur \notin locked
    /\ task' = [task EXCEPT !.state = "Ready"]
    /\ SwitchOut(cur, TRUE)
    /\ Goto(Task, "resumed")
    /\ UNCHANGED <<bw, mutation, hand, ready, locked, ret, loc, env, fault>>

\* put_task_with_state(Running): Ready and linked here, the stack still live.
PutRunning ==
    /\ Own("put") /\ cur \notin locked
    /\ task' = [task EXCEPT !.state = "Ready", !.cpu = cur]
    /\ IF ready = {} THEN ready' = {cur} /\ UNCHANGED fault
                     ELSE fault' = TRUE /\ UNCHANGED ready
    /\ Goto(Task, "pick")
    /\ UNCHANGED <<bw, mutation, hand, cur, cpu, locked, ret, loc, env>>

\* Mutation: need_resched is consumed without a look at the mask.
PickTaskBlindly(c) ==
    /\ c \notin locked /\ c \in ready
    /\ ready' = ready \ {c}
    /\ task' = [task EXCEPT !.resched = FALSE]

\* Selection under the scheduler lock consumes need_resched and revalidates
\* the affinity constraint.
PickTask(c) ==
    /\ c \notin locked /\ c \in ready
    /\ ready' = ready \ {c}
    /\ task' = [task EXCEPT !.resched = c \notin task.mask]

\* resched picks the yielding task itself ...
ReschedSelf ==
    /\ Own("pick") /\ PickTask(cur)
    /\ Goto(Task, "running")
    /\ UNCHANGED <<bw, mutation, hand, cur, cpu, locked, ret, loc, env, fault>>

\* ... switch_to(prev = next) keeps the owner token ...
ResumeSelf ==
    /\ Own("running")
    /\ task' = [task EXCEPT !.state = "Running"]
    /\ Return(Task)
    /\ UNCHANGED <<bw, mutation, hand, sched, ret, loc, env, fault>>

\* ... or another task wins and this one stays queued.
ReschedOther ==
    /\ Own("pick") /\ cur \notin locked /\ budget.contention < MaxContention
    /\ budget' = [budget EXCEPT !.contention = @ + 1]
    /\ SwitchOut(cur, FALSE)
    /\ Goto(Task, "resumed")
    /\ UNCHANGED <<words, ready, locked, ret, loc, events, fault>>

\* The restored stack finishes its own epilogue: retire an allowed helper.
Resumed ==
    /\ Own("resumed")
    /\ task' = [task EXCEPT !.helper = IF cur \in task.mask THEN NoCpu ELSE @]
    /\ Return(Task)
    /\ UNCHANGED <<bw, mutation, hand, sched, ret, loc, env, fault>>

\* set_current_affinity: claim (retried through yield), publish, migrate.
SelfAffinity ==
    /\ Own("begin") /\ budget.self < MaxSelfSets
    /\ \E m \in Masks : loc' = [loc EXCEPT ![Task].mask = m]
    /\ budget' = [budget EXCEPT !.self = @ + 1]
    /\ Goto(Task, "selfclaim")
    /\ UNCHANGED <<words, sched, ret, events, fault>>

SelfClaim ==
    /\ Own("selfclaim") /\ mutation = Idle
    /\ mutation' = Mut("affinity", FALSE)
    /\ Goto(Task, "selfpublish")
    /\ UNCHANGED <<bw, task, hand, sched, ret, loc, env, fault>>

SelfPublish ==
    /\ Own("selfpublish")
    /\ LET m == loc[Task].mask IN
       task' = [task EXCEPT !.mask = m,
                            !.helper = IF m = Cpus THEN NoCpu ELSE Task]
    /\ Goto(Task, "selfmigrate")
    /\ UNCHANGED <<bw, mutation, hand, sched, ret, loc, env, fault>>

SelfMigrate ==
    /\ Own("selfmigrate")
    /\ ret' = [ret EXCEPT ![Task] = "selffinish"]
    /\ \/ /\ cur \in task.mask \/ task.helper # NoCpu
          /\ task' = [task EXCEPT !.helper = NoCpu]
          /\ Goto(Task, IF cur \in task.mask THEN "selffinish" ELSE "migrate")
       \/ /\ cur \notin task.mask /\ task.helper = NoCpu
          /\ task' = [task EXCEPT !.resched = TRUE]
          /\ Goto(Task, "selffinish")
    /\ UNCHANGED <<bw, mutation, hand, sched, loc, env, fault>>

\* Exit: terminal state, the exited queue keeps the task, resched(Exit).
ExitCurrent ==
    /\ Own("begin")
    /\ cur \notin locked
    /\ task' = [task EXCEPT !.state = "Exited"]
    /\ SwitchOut(cur, FALSE)
    /\ Goto(Task, "exited")
    /\ UNCHANGED <<bw, mutation, hand, ready, locked, ret, loc, env, fault>>

TaskStep ==
    \/ BeginBlockWait \/ PreparePoll \/ Poll \/ EndBlockWait \/ CheckWoken
    \/ ClaimBlock \/ BeginBlock \/ AbortBlock \/ PublishBlocked \/ CommitBlock
    \/ FinishBlock \/ CommitWoken \/ ReschedBlocked \/ YieldNow \/ Preempt
    \/ ClaimMigration \/ MigrateCurrent \/ PutRunning \/ ReschedSelf
    \/ ResumeSelf \/ ReschedOther \/ Resumed \/ SelfAffinity \/ SelfClaim
    \/ SelfPublish \/ SelfMigrate \/ ExitCurrent

-----------------------------------------------------------------------------
(* The affinity guard's release and set_task_affinity on another task.      *)

\* AffinityMutation::drop: a wake that found this owner is inherited.
FinishAffinity(a) ==
    /\ Here(a, {"finish", "selffinish"})
    /\ LET next == IF a = Task THEN "begin" ELSE "idle" IN
       /\ ret' = [ret EXCEPT ![a] = next]
       /\ \/ /\ mutation = Mut("affinity", FALSE)
             /\ mutation' = Idle /\ Goto(a, next) /\ UNCHANGED fault
          \/ /\ mutation = Mut("affinity", TRUE)
             /\ mutation' = WakeOwned /\ Goto(a, "select") /\ UNCHANGED fault
          \/ /\ mutation.owner # "affinity"
             /\ fault' = TRUE /\ UNCHANGED <<mutation, pc>>
    /\ UNCHANGED <<bw, task, hand, sched, loc, env>>

\* AffinityMutation::try_begin.  A busy word is retried through yield_now, so
\* the claim waits; it gives up on a task seen Exited.
BeginAffinity(s) ==
    /\ Here(s, {"idle"}) /\ budget.calls[s] < MaxSets
    /\ \E m \in Masks : loc' = [loc EXCEPT ![s].mask = m]
    /\ budget' = [budget EXCEPT !.calls[s] = @ + 1]
    /\ \/ /\ mutation = Idle
          /\ mutation' = Mut("affinity", FALSE)
          /\ Goto(s, "admit")
       \/ /\ mutation # Idle /\ task.state = "Exited"
          /\ UNCHANGED <<mutation, pc>>
    /\ UNCHANGED <<bw, task, hand, sched, ret, events, fault>>

\* Exited is refused; a helper is allocated before a restrictive mask becomes
\* visible, and a failed allocation leaves the old mask and helper.
PublishAffinity(s) ==
    /\ Here(s, {"admit"})
    /\ LET m == loc[s].mask IN
       \/ /\ task.state # "Exited"
          /\ task' = [task EXCEPT !.mask = m,
                                  !.helper = IF m = Cpus THEN NoCpu ELSE s]
          /\ Goto(s, "route")
       \/ /\ task.state = "Exited" \/ m # Cpus
          /\ Goto(s, "finish") /\ UNCHANGED task
    /\ UNCHANGED <<bw, mutation, hand, sched, ret, loc, env, fault>>

\* The state decides how the new mask reaches the task.
RouteAffinity(s) ==
    /\ Here(s, {"route"})
    /\ \/ /\ task.state = "Ready"
          /\ loc' = [loc EXCEPT ![s].cpu = task.cpu]
          /\ Goto(s, "inspect") /\ UNCHANGED task
       \/ /\ task.state = "Running"
          /\ Goto(s, IF task.cpu \in loc[s].mask THEN "finish" ELSE "nudge")
          /\ UNCHANGED <<task, loc>>
       \/ /\ task.state = "Blocked"
          /\ \E c \in IF task.cpu \in loc[s].mask THEN {task.cpu} ELSE loc[s].mask :
                 task' = [task EXCEPT !.cpu = c]
          /\ Goto(s, "finish") /\ UNCHANGED loc
       \/ /\ task.state = "Exited"
          /\ Goto(s, "retire") /\ UNCHANGED <<task, loc>>
    /\ UNCHANGED <<bw, mutation, hand, sched, ret, env, fault>>

\* migrate_ready_task on the sampled queue, up to its source lock: a live
\* owner refuses, a selected CPU that is the sampled one needs no move.
InspectReady(s) ==
    /\ Here(s, {"inspect"})
    /\ \/ /\ task.state # "Ready" \/ HasOwnerOrHandoff
          /\ Goto(s, "nudge")
       \/ /\ task.state = "Ready" /\ ~HasOwnerOrHandoff
          /\ \/ loc[s].cpu \in task.mask /\ Goto(s, "retire")
             \/ task.mask \ {loc[s].cpu} # {} /\ Goto(s, "detach")
    /\ UNCHANGED <<words, sched, ret, loc, env, fault>>

\* Under the source lock: recheck the owner, detach, publish the target.
DetachReady(s) ==
    /\ Here(s, {"detach"}) /\ loc[s].cpu \notin locked
    /\ \/ /\ ~HasOwnerOrHandoff /\ loc[s].cpu \in ready
          /\ ready' = ready \ {loc[s].cpu}
          /\ \E c \in task.mask \ {loc[s].cpu} : task' = [task EXCEPT !.cpu = c]
          /\ Goto(s, "attach")
       \/ /\ HasOwnerOrHandoff \/ loc[s].cpu \notin ready
          /\ Goto(s, "nudge") /\ UNCHANGED <<ready, task>>
    /\ UNCHANGED <<bw, mutation, hand, cur, cpu, locked, ret, loc, env, fault>>

\* enqueue_task(Migrate) on the target.  A refused migration is undone: the
\* source CPU is published again under the target's lock.
AttachReady(s) ==
    /\ Here(s, {"attach"}) /\ task.cpu \notin locked
    /\ \/ EnqueueMigrate(task.cpu) /\ Goto(s, "retire") /\ UNCHANGED <<task, budget>>
       \/ /\ Refuse
          /\ task' = [task EXCEPT !.cpu = loc[s].cpu]
          /\ Goto(s, "restore") /\ UNCHANGED <<ready, fault>>
    /\ UNCHANGED <<bw, mutation, hand, cur, cpu, locked, ret, loc, events>>

RestoreReady(s) ==
    /\ Here(s, {"restore"})
    /\ EnqueueMigrate(loc[s].cpu)
    /\ Goto(s, "nudge")
    /\ UNCHANGED <<words, cur, cpu, locked, ret, loc, env>>

\* set_preempt_pending and interrupt, which calls the task's own waker when an
\* interruptible future registered it.
NudgeTask(s) ==
    /\ Here(s, {"nudge"})
    /\ task' = [task EXCEPT !.resched = TRUE]
    /\ \E l \in {"mark", "finish"} : Goto(s, l)
    /\ ret' = [ret EXCEPT ![s] = "finish"]
    /\ UNCHANGED <<bw, mutation, hand, sched, loc, env, fault>>

\* clear_migration_if: only this call's own helper is retired.
RetireHelper(s) ==
    /\ Here(s, {"retire"})
    /\ task' = [task EXCEPT !.helper = IF @ = s THEN NoCpu ELSE @]
    /\ Goto(s, "finish")
    /\ UNCHANGED <<bw, mutation, hand, sched, ret, loc, env, fault>>

SetterStep(s) ==
    \/ PublishAffinity(s) \/ RouteAffinity(s) \/ InspectReady(s)
    \/ DetachReady(s) \/ AttachReady(s) \/ RestoreReady(s) \/ NudgeTask(s)
    \/ RetireHelper(s) \/ FinishAffinity(s)

-----------------------------------------------------------------------------
(* The CPUs: switch epilogue, dispatch, migration helper, idle steal.       *)

At(c, l) == cpu[c].pc = l /\ ~fault
CpuGoto(c, l) ==
    cpu' = [cpu EXCEPT ![c] = IF l = "run" THEN OtherWork(c)
                                           ELSE [@ EXCEPT !.pc = l]]
AfterEpilogue(c) == IF cpu[c].helper THEN "helper" ELSE "run"

\* clear_prev_task_on_cpu: finish_cpu_handoff_exact with the saved token.
FinishHandoff(c) ==
    /\ At(c, "epilogue")
    /\ \/ /\ hand.token = cpu[c].prev
          /\ hand' = [hand EXCEPT !.token = 0, !.cpu = NoCpu, !.pending = FALSE]
          /\ CpuGoto(c, IF hand.pending THEN "take" ELSE AfterEpilogue(c))
          /\ UNCHANGED fault
       \/ /\ hand.token = 0
          /\ CpuGoto(c, AfterEpilogue(c)) /\ UNCHANGED <<hand, fault>>
       \/ /\ hand.token \notin {0, cpu[c].prev}
          /\ fault' = TRUE /\ UNCHANGED <<hand, cpu>>
    /\ UNCHANGED <<bw, mutation, task, ready, cur, locked, control, env>>

\* ... and takes the delegated wake.
TakeHandoff(c) ==
    /\ At(c, "take")
    /\ IF hand.slot
       THEN /\ hand' = [hand EXCEPT !.slot = FALSE]
            /\ cpu' = [cpu EXCEPT ![c].pc = "delegated", ![c].to = task.cpu]
            /\ UNCHANGED fault
       ELSE fault' = TRUE /\ UNCHANGED <<hand, cpu>>
    /\ UNCHANGED <<bw, mutation, task, ready, cur, locked, control, env>>

EnqueueDelegated(c) ==
    /\ At(c, "delegated")
    /\ EnqueueWakeup(cpu[c].to)
    /\ CpuGoto(c, AfterEpilogue(c))
    /\ UNCHANGED <<bw, task, hand, cur, locked, control, env>>

\* resched on a CPU that runs something else selects the task.
Dispatch(c) ==
    /\ At(c, "run") /\ cur # c
    /\ PickTask(c)
    /\ CpuGoto(c, "switchin")
    /\ UNCHANGED <<bw, mutation, hand, cur, locked, control, env, fault>>

\* mark_running_on_cpu, then Running and the context switch.
SwitchIn(c) ==
    /\ At(c, "switchin")
    /\ IF hand.token = 0
       THEN /\ hand' = [hand EXCEPT !.token = hand.gen + 1, !.cpu = c,
                                    !.gen = @ + 1]
            /\ task' = [task EXCEPT !.state = "Running"]
            /\ cur' = c /\ CpuGoto(c, "run") /\ UNCHANGED fault
       ELSE fault' = TRUE /\ UNCHANGED <<hand, task, cur, cpu>>
    /\ UNCHANGED <<bw, mutation, ready, locked, control, env>>

\* migrate_entry: the parked task must have no owner; pick an allowed queue.
HelperSelect(c) ==
    /\ At(c, "helper")
    /\ IF HasOwnerOrHandoff
       THEN fault' = TRUE /\ UNCHANGED cpu
       ELSE /\ \E d \in task.mask :
                   cpu' = [cpu EXCEPT ![c].pc = "reroute", ![c].to = d,
                                      ![c].from = task.cpu]
            /\ UNCHANGED fault
    /\ UNCHANGED <<words, ready, cur, locked, control, env>>

\* Mutation: the parked task is left without a CPU.
HelperUnroute(c) ==
    /\ At(c, "reroute") /\ cpu[c].from \notin locked
    /\ task' = [task EXCEPT !.cpu = NoCpu]
    /\ CpuGoto(c, "attach")
    /\ UNCHANGED <<bw, mutation, hand, ready, cur, locked, control, env, fault>>

\* The target is published under the source lock ...
HelperReroute(c) ==
    /\ At(c, "reroute") /\ cpu[c].from \notin locked
    /\ task' = [task EXCEPT !.cpu = cpu[c].to]
    /\ CpuGoto(c, "attach")
    /\ UNCHANGED <<bw, mutation, hand, ready, cur, locked, control, env, fault>>

\* ... and the task linked there, or its source published again on refusal.
HelperAttach(c) ==
    /\ At(c, "attach") /\ cpu[c].to \notin locked
    /\ \/ EnqueueMigrate(cpu[c].to) /\ CpuGoto(c, "run") /\ UNCHANGED <<task, budget>>
       \/ /\ Refuse
          /\ task' = [task EXCEPT !.cpu = cpu[c].from]
          /\ CpuGoto(c, "restore") /\ UNCHANGED <<ready, fault>>
    /\ UNCHANGED <<bw, mutation, hand, cur, locked, control, events>>

HelperRestore(c) ==
    /\ At(c, "restore")
    /\ EnqueueMigrate(cpu[c].from) /\ CpuGoto(c, "run")
    /\ UNCHANGED <<words, cur, locked, control, env>>

\* idle_steal_once: both locks, no local work, an acceptable candidate.
StealScan(d) ==
    /\ Stealing /\ At(d, "run") /\ cur # d /\ d \notin locked \cup ready
    /\ \E v \in ready \ locked :
           /\ task.state = "Ready" /\ ~HasOwnerOrHandoff
           /\ task.cpu = v /\ d \in task.mask
           /\ locked' = locked \cup {d, v}
           /\ cpu' = [cpu EXCEPT ![d].pc = "stealclaim", ![d].from = v]
    /\ UNCHANGED <<words, ready, cur, control, env, fault>>

\* try_begin_idle_steal_mutation.
StealClaim(d) ==
    /\ At(d, "stealclaim")
    /\ IF mutation = Idle
       THEN /\ mutation' = Mut("steal", FALSE)
            /\ CpuGoto(d, "stealmove") /\ UNCHANGED locked
       ELSE /\ locked' = locked \ {d, cpu[d].from}
            /\ CpuGoto(d, "run") /\ UNCHANGED mutation
    /\ UNCHANGED <<bw, task, hand, ready, cur, control, env, fault>>

\* Recheck the mask under the claim, then move, or roll a refusal back.
StealMove(d) ==
    /\ At(d, "stealmove")
    /\ \/ /\ d \in task.mask /\ task.cpu = cpu[d].from
          /\ ready' = (ready \ {cpu[d].from}) \cup {d}
          /\ task' = [task EXCEPT !.cpu = d] /\ UNCHANGED budget
       \/ /\ d \notin task.mask \/ task.cpu # cpu[d].from
          /\ UNCHANGED <<ready, task, budget>>
       \/ Refuse /\ UNCHANGED <<ready, task>>
    /\ CpuGoto(d, "stealdone")
    /\ UNCHANGED <<bw, mutation, hand, cur, locked, control, events, fault>>

\* finish_idle_steal_mutation absorbs a wake bit, then both locks are released.
StealFinish(d) ==
    /\ At(d, "stealdone")
    /\ IF mutation.owner = "steal"
       THEN mutation' = Idle /\ UNCHANGED fault
       ELSE fault' = TRUE /\ UNCHANGED mutation
    /\ locked' = locked \ {d, cpu[d].from}
    /\ CpuGoto(d, "run")
    /\ UNCHANGED <<bw, task, hand, ready, cur, control, env>>

CpuStep(c) ==
    \/ FinishHandoff(c) \/ TakeHandoff(c) \/ EnqueueDelegated(c)
    \/ Dispatch(c) \/ SwitchIn(c) \/ HelperSelect(c) \/ HelperReroute(c)
    \/ HelperAttach(c) \/ HelperRestore(c)
    \/ StealClaim(c) \/ StealMove(c) \/ StealFinish(c)

-----------------------------------------------------------------------------
(* Specification.                                                          *)

Next ==
    \/ \E w \in Wakers : CallWake(w)
    \/ \E s \in Setters : BeginAffinity(s) \/ SetterStep(s)
    \/ \E a \in Actors : WakeStep(a)
    \/ TaskStep \/ FinishAffinity(Task)
    \/ \E c \in Cpus : CpuStep(c) \/ StealScan(c)

Safety == Init /\ [][Next]_vars

\* A context that has entered the scheduler runs on to its end: its CPU
\* executes it with interrupts off or resumes it.  A CPU picks a task that is
\* ready (EEVDF bounds its lag), and the task's own stack steps while it is on
\* a CPU.  New wakes, affinity calls, steals and ticks are never promised.
Fairness ==
    /\ \A a \in Actors : WF_vars(WakeStep(a))
    /\ \A s \in Setters : WF_vars(SetterStep(s))
    /\ \A c \in Cpus : WF_vars(CpuStep(c))
    /\ WF_vars(TaskStep \/ FinishAffinity(Task))

Spec == Safety /\ Fairness

-----------------------------------------------------------------------------
(* Properties.                                                             *)

WakeLabels == {"mark", "claim", "select", "unblock", "handoff", "store", "arm",
               "reclaim", "occupied", "enqueue", "release"}
TaskLabels == {"begin", "prepare", "poll", "end", "check", "claimblock",
               "beginblock", "abort", "publish", "commit", "finishblock",
               "woken", "resched", "yield", "claimmigration", "migrate", "put",
               "pick", "running", "resumed", "selfclaim", "selfpublish",
               "selfmigrate", "selffinish", "exited"}
SetterLabels == {"idle", "admit", "route", "inspect", "detach", "attach",
                 "restore", "nudge", "retire", "finish"}
CpuLabels == {"run", "epilogue", "take", "delegated", "switchin", "helper",
              "reroute", "attach", "restore", "stealclaim", "stealmove",
              "stealdone"}

\* Every word of the task stays within what its encoding in task.rs can hold.
TypeOK ==
    /\ bw \in [gen : Nat, active : BOOLEAN, woken : BOOLEAN, owner : BOOLEAN]
    /\ mutation \in [owner : {"none", "affinity", "block", "steal"},
                     wake : BOOLEAN]
    /\ task \in [state : {"Running", "Ready", "Blocked", "Exited"},
                 cpu : Cpus, mask : SUBSET Cpus,
                 helper : Setters \cup {Task, NoCpu}, resched : BOOLEAN]
    /\ hand \in [token : Nat, cpu : Cpus \cup {NoCpu}, pending : BOOLEAN,
                 slot : BOOLEAN, gen : Nat]
    /\ ready \subseteq Cpus /\ locked \subseteq Cpus
    /\ cur \in Cpus \cup {NoCpu}
    /\ cpu \in [Cpus -> [pc : CpuLabels, prev : Nat, helper : BOOLEAN,
                         from : Cpus, to : Cpus]]
    /\ pc \in [Actors -> WakeLabels \cup TaskLabels \cup SetterLabels]
    /\ ret \in [Actors -> TaskLabels \cup {"idle", "finish"}]
    /\ loc \in [Actors -> [cpu : Cpus, seen : Nat, mask : SUBSET Cpus]]
    /\ events \in [made : Nat, taken : Nat]
    /\ fault \in BOOLEAN

\* No interleaving of block, wake, affinity, migration and steal reaches a
\* branch that powers the machine off: the mutation word is never released by
\* an actor that does not own it, a handoff slot is never found occupied or
\* empty, an old CPU never clears a newer owner token, and the task is never
\* linked twice (task.rs finish_*_mutation, publish_wake_handoff,
\* finish_cpu_handoff_exact; run_queue.rs enqueue_task).
NoFailStop == ~fault

\* The task is selectable on a CPU other than the one whose stack it still
\* occupies only after that CPU's epilogue released the owner token, so no
\* context is restored on two CPUs (the yield window that migrate_ready_task
\* and idle_steal_candidate_allowed guard against).
OneStack ==
    \A q \in ready \cup {c \in Cpus : cpu[c].pc = "switchin"} :
        /\ cur # NoCpu => q = cur
        /\ hand.token # 0 => q = hand.cpu

\* Some context still has to make the blocked task runnable.
WakeUnderway ==
    \/ \E a \in Actors : pc[a] \in {"claim", "select", "unblock"}
    \/ mutation.owner \in {"affinity", "block"} /\ mutation.wake

\* A wake is never lost: once a raw waker has marked the session of a task
\* whose Blocked state is committed, some context owns the obligation to
\* publish it runnable; and once it is Ready off every queue, some context
\* still owns linking it (wake_task, finish_block_mutation, AffinityMutation
\* drop, clear_prev_task_on_cpu).  And an occurrence published before a wake is
\* never slept through: a committed Blocked task with an unconsumed occurrence is
\* marked woken, or the waker that published it has not marked it yet (block_on
\* polls after prepare_block_poll, so the mark survives until the next poll).
NoLostWake ==
    /\ task.state = "Blocked" /\ bw.woken /\ ~bw.owner => WakeUnderway
    /\ task.state = "Ready" /\ ready = {} =>
          \/ \E a \in Actors : pc[a] \in {"handoff", "store", "arm", "reclaim",
                                          "occupied", "enqueue", "attach",
                                          "restore"}
          \/ hand.pending \/ pc[Task] = "running"
          \/ \E c \in Cpus : \/ cpu[c].pc \in {"take", "delegated", "switchin"}
                             \/ cpu[c].helper /\ cpu[c].pc # "run"
    /\ task.state = "Blocked" /\ ~bw.owner /\ events.made > events.taken =>
          bw.woken \/ \E w \in Wakers : pc[w] = "mark"

\* The frozen wake owner obeys the affinity mask whenever no affinity change is
\* in progress, and an immediate or delegated wake links only an allowed CPU
\* (blocked_resched_atomic freezes cpu_id, set_task_affinity rewrites it).
WakeOwnerAllowed ==
    /\ task.state = "Blocked" /\ mutation.owner # "affinity" => task.cpu \in task.mask
    /\ \A a \in Actors : pc[a] = "enqueue" => loc[a].cpu \in task.mask
    /\ \A c \in Cpus : At(c, "delegated") => cpu[c].to \in task.mask

\* A task that runs where its mask forbids, with no affinity call still in
\* progress, has a pending reschedule, so that the next safe point migrates it
\* (set_task_affinity, preserve_preempt_if_cpu_disallowed).
DisallowedIsPending ==
    cur # NoCpu /\ cur \notin task.mask /\ mutation.owner # "affinity"
        /\ pc[Task] \in SafePoints \cup {"claimmigration"} =>
            task.resched \/ pc[Task] = "claimmigration"

\* A migration safe point that finds its CPU excluded finds a helper to claim
\* (the MigrationClaim::Missing comment in maybe_migrate_current), unless a
\* refused migration has used it up.
HelperAdmitted ==
    Own("claimmigration") /\ cur \notin task.mask /\ budget.refused = 0 =>
        task.helper # NoCpu

\* set_current_affinity returns on an allowed CPU unless a destination refused
\* the migration: its own mutation keeps every other mover away until it has
\* checked.
SelfAffinityHolds == Own("selffinish") /\ budget.refused = 0 => cur \in task.mask

\* The affinity mask is obeyed wherever the code may rely on it: by the frozen
\* wake owner and every link, by a task at a safe point (or it is about to be
\* migrated), and by the caller of set_current_affinity when it returns.
AffinityHolds == WakeOwnerAllowed /\ DisallowedIsPending /\ SelfAffinityHolds

\* A session that has an occurrence to consume ends: no wake is lost to a
\* block, affinity, steal or migration race, and the task gets a CPU again.
OccurrenceConsumed ==
    (bw.active /\ events.made > events.taken) ~> ~bw.active
=============================================================================
