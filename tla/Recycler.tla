------------------------------ MODULE Recycler ------------------------------
(***************************************************************************)
(* thekernel-axtask: how a task ends.  exit_current publishes the exit to  *)
(* the joiners and hands the task's last reference to its CPU's exited     *)
(* queue; the recycler, a task pinned to that CPU, frees the tasks nobody  *)
(* else holds and retries the others on a timer that backs off.            *)
(* One CPU: its exits run with interrupts off, so nothing else of that CPU *)
(* steps before the switch; the joiners run on other CPUs and interleave   *)
(* with every atomic access.                                               *)
(***************************************************************************)
EXTENDS Integers, FiniteSets

CONSTANTS Tasks,     \* tasks of this CPU that may exit
          Joiners,   \* holders of one task handle each
          target,    \* joiner -> the task whose handle it holds
          None,      \* no task, no joiner: the null pointer
          RetryMax   \* GC_RETRY_MAX_TICKS

VARIABLES
    state,     \* task: its TaskState, or "Freed"
    code,      \* task: exit_code has been stored
    oncpu,     \* task: its CPU owner word is set
    wait,      \* task: the joiner registered in wait_for_exit
    exiting,   \* the exit in progress: its task and next step
    head, tail, len, next, queued,   \* the exited queue and its embedded links
    faults,    \* tasks with an exit-queue fault
    pending, waiter, ticks, delay,   \* GcWake
    gc,        \* the recycler: step, tasks left of its batch, task in hand, flags
    awake,     \* the recycler was woken since it last began to poll
    jpc,       \* joiner: next step
    woken,     \* joiner: its waker was called since it last began to poll
    answer     \* joiner: the exit code join() returned, as a sequence

task == <<state, code, oncpu, wait>>
queue == <<head, tail, len, next, queued, faults>>
wake == <<pending, waiter, ticks, delay>>
joiner == <<jpc, woken, answer>>
vars == <<task, exiting, queue, wake, gc, awake, joiner>>

NoExit == <<None, "none">>
RetryMin == 1

Init ==
    /\ state = [t \in Tasks |-> "Running"] /\ code = [t \in Tasks |-> FALSE]
    /\ oncpu = [t \in Tasks |-> FALSE] /\ wait = [t \in Tasks |-> None]
    /\ exiting = NoExit
    /\ head = None /\ tail = None /\ len = 0
    /\ next = [t \in Tasks |-> None] /\ queued = [t \in Tasks |-> FALSE] /\ faults = {}
    /\ pending = FALSE /\ waiter = FALSE /\ ticks = 0 /\ delay = RetryMin
    /\ gc = [at |-> "consume", left |-> 0, task |-> None, retained |-> FALSE, remaining |-> FALSE]
    /\ awake = FALSE
    /\ jpc = [j \in Joiners |-> "holds"] /\ woken = [j \in Joiners |-> FALSE]
    /\ answer = [j \in Joiners |-> <<>>]

\* This CPU runs something other than an exit.
CpuFree == exiting = NoExit
Holders(t) == {j \in Joiners : target[j] = t /\ jpc[j] # "gone"}

-----------------------------------------------------------------------------
(* ExitedTaskQueue.                                                         *)

\* push_back: admit_exit_queue and link_exit_queue_successor; a refusal records
\* a fault and leaves the queue alone.
PushBack(t) ==
    IF \/ (head = None) # (tail = None) \/ (head = None) # (len = 0)
       \/ queued[t] \/ next[t] # None
       \/ (IF head = None THEN FALSE ELSE ~queued[tail] \/ next[tail] # None)
    THEN faults' = faults \cup {t} /\ UNCHANGED <<head, tail, len, next, queued>>
    ELSE /\ queued' = [queued EXCEPT ![t] = TRUE]
         /\ head' = IF head = None THEN t ELSE head
         /\ next' = IF head = None THEN next ELSE [next EXCEPT ![tail] = t]
         /\ tail' = t /\ len' = len + 1 /\ UNCHANGED faults

\* pop_front of a queue that is not empty; a head lost is salvaged from the tail.
PopFront(t) ==
    /\ head # None \/ tail # None
    /\ t = IF head = None THEN tail ELSE head
    /\ LET after == next[t]
           count == IF head = None THEN 1 ELSE len
           torn == IF after = None THEN tail # t \/ count # 1 ELSE tail = t \/ count <= 1 IN
       /\ head' = after
       /\ tail' = IF after = None THEN None ELSE tail
       /\ len' = IF after = None THEN 0 ELSE IF count <= 2 THEN 1 ELSE count - 1
       /\ faults' = IF torn \/ head = None \/ ~queued[t] THEN faults \cup {t} ELSE faults
    /\ next' = [next EXCEPT ![t] = None] /\ queued' = [queued EXCEPT ![t] = FALSE]

ReclaimLen == IF head = None /\ tail = None THEN 0 ELSE IF len = 0 THEN 1 ELSE len

-----------------------------------------------------------------------------
(* GcWake.                                                                  *)

\* publish: the durable bit, then the waker.
Publish ==
    /\ pending' = TRUE /\ waiter' = FALSE
    /\ awake' = (awake \/ waiter)

\* notify_new_work and request_reclaim: the retry deadline is superseded.
NotifyNewWork == ticks' = 0 /\ Publish /\ UNCHANGED delay

ArmRetainedRetry ==
    LET d == IF delay < RetryMin THEN RetryMin ELSE IF delay > RetryMax THEN RetryMax ELSE delay IN
    /\ delay' = (IF d * 2 > RetryMax THEN RetryMax ELSE d * 2) /\ ticks' = d

ResetRetainedRetry == ticks' = 0 /\ delay' = RetryMin

\* gc_retry_timer_tick, from the CPU's timer interrupt.
RetryTimerTick ==
    /\ CpuFree /\ ticks > 0
    /\ ticks' = ticks - 1
    /\ IF ticks = 1 THEN Publish ELSE UNCHANGED <<pending, waiter, awake>>
    /\ UNCHANGED <<task, exiting, queue, delay, gc, joiner>>

\* request_exited_task_reclaim_current_cpu.
RequestReclaim ==
    /\ CpuFree /\ ~(head = None /\ tail = None)
    /\ NotifyNewWork
    /\ UNCHANGED <<task, exiting, queue, gc, joiner>>

-----------------------------------------------------------------------------
(* exit_current, after the scheduler let the task go.                       *)

BeginExit(t) ==
    /\ CpuFree /\ state[t] = "Running" /\ ~oncpu[t]
    /\ exiting' = <<t, "code">> /\ oncpu' = [oncpu EXCEPT ![t] = TRUE]
    /\ UNCHANGED <<state, code, wait, queue, wake, gc, awake, joiner>>

ExitAt(t, l) == exiting = <<t, l>>

\* notify_exit: the exit code, the state, the waker.
StoreCode(t) ==
    /\ ExitAt(t, "code") /\ exiting' = <<t, "state">>
    /\ code' = [code EXCEPT ![t] = TRUE]
    /\ UNCHANGED <<state, oncpu, wait, queue, wake, gc, awake, joiner>>

StoreExited(t) ==
    /\ ExitAt(t, "state") /\ exiting' = <<t, "wake">>
    /\ state' = [state EXCEPT ![t] = "Exited"]
    /\ UNCHANGED <<code, oncpu, wait, queue, wake, gc, awake, joiner>>

WakeJoiner(t) ==
    /\ ExitAt(t, "wake") /\ exiting' = <<t, "push">>
    /\ woken' = [j \in Joiners |-> woken[j] \/ wait[t] = j]
    /\ wait' = [wait EXCEPT ![t] = None]
    /\ UNCHANGED <<state, code, oncpu, queue, wake, gc, awake, jpc, answer>>

\* push_exited_task, the fault being fatal.
PushExitedTask(t) ==
    /\ ExitAt(t, "push") /\ exiting' = <<t, "switch">>
    /\ PushBack(t) /\ NotifyNewWork
    /\ UNCHANGED <<task, gc, joiner>>

\* resched: the next task releases the CPU owner word of the one it replaced.
SwitchAway(t) ==
    /\ ExitAt(t, "switch") /\ exiting' = NoExit
    /\ oncpu' = [oncpu EXCEPT ![t] = FALSE]
    /\ UNCHANGED <<state, code, wait, queue, wake, gc, awake, joiner>>

-----------------------------------------------------------------------------
(* gc_main.                                                                 *)

GcAt(l) == CpuFree /\ gc.at = l
GcGoto(l) == gc' = [gc EXCEPT !.at = l]

\* consume_pending, before and after the registration.
ConsumePending(l) ==
    /\ pending' = FALSE /\ GcGoto(IF pending THEN "scan" ELSE l)
    /\ UNCHANGED <<task, exiting, queue, waiter, ticks, delay, awake, joiner>>

GcPoll == GcAt("consume") /\ ConsumePending("register")

GcRegister ==
    /\ GcAt("register") /\ waiter' = TRUE /\ GcGoto("recheck")
    /\ UNCHANGED <<task, exiting, queue, pending, ticks, delay, awake, joiner>>

GcRecheck == GcAt("recheck") /\ ConsumePending("asleep")

\* block_on polls again after a wake.
GcWakeup ==
    /\ GcAt("asleep") /\ awake /\ awake' = FALSE /\ GcGoto("consume")
    /\ UNCHANGED <<task, exiting, queue, wake, joiner>>

\* reclaim_exited_tasks_pinned_gc_batch: the snapshot of the depth.
GcScan ==
    /\ GcAt("scan")
    /\ gc' = [gc EXCEPT !.at = "pop", !.left = ReclaimLen, !.retained = FALSE]
    /\ UNCHANGED <<task, exiting, queue, wake, awake, joiner>>

GcPop(t) ==
    /\ GcAt("pop") /\ gc.left > 0 /\ PopFront(t)
    /\ gc' = [gc EXCEPT !.at = "decide", !.left = @ - 1, !.task = t]
    /\ UNCHANGED <<task, exiting, wake, awake, joiner>>

\* can_reclaim_stack.
CanReclaimStack(t) == ~oncpu[t]

\* The stack is recycled and the task dropped.
GcFree ==
    /\ GcAt("decide") /\ CanReclaimStack(gc.task) /\ Holders(gc.task) = {}
    /\ state' = [state EXCEPT ![gc.task] = "Freed"]
    /\ gc' = [gc EXCEPT !.at = "pop", !.task = None]
    /\ UNCHANGED <<code, oncpu, wait, exiting, queue, wake, awake, joiner>>

\* A CPU or another handle still owns the task: requeue_retained_exited_task.
GcRetain ==
    /\ GcAt("decide") /\ ~(CanReclaimStack(gc.task) /\ Holders(gc.task) = {})
    /\ PushBack(gc.task)
    /\ gc' = [gc EXCEPT !.at = "pop", !.task = None, !.retained = TRUE]
    /\ UNCHANGED <<task, exiting, wake, awake, joiner>>

GcBatchEnds ==
    /\ GcAt("pop") /\ (gc.left = 0 \/ (head = None /\ tail = None))
    /\ gc' = [gc EXCEPT !.at = "arm", !.remaining = ~(head = None /\ tail = None)]
    /\ UNCHANGED <<task, exiting, queue, wake, awake, joiner>>


GcArm ==
    /\ GcAt("arm") /\ GcGoto("consume")
    /\ IF gc.retained /\ gc.remaining THEN ArmRetainedRetry
       ELSE IF ~gc.remaining THEN ResetRetainedRetry ELSE UNCHANGED <<ticks, delay>>
    /\ UNCHANGED <<task, exiting, queue, pending, waiter, awake, joiner>>

Gc == \/ GcPoll \/ GcRegister \/ GcRecheck \/ GcWakeup \/ GcScan
      \/ (\E t \in Tasks : GcPop(t)) \/ GcFree \/ GcRetain \/ GcBatchEnds \/ GcArm

-----------------------------------------------------------------------------
(* TaskInner::join, and a handle that is dropped.                           *)

JoinGoto(j, l) == jpc' = [jpc EXCEPT ![j] = l]

\* block_on clears its mark and polls; the first look at the state.
PollJoin(j) ==
    /\ jpc[j] = "holds" \/ (jpc[j] = "asleep" /\ woken[j])
    /\ woken' = [woken EXCEPT ![j] = FALSE]
    /\ IF state[target[j]] = "Exited"
       THEN JoinGoto(j, "done") /\ answer' = [answer EXCEPT ![j] = <<code[target[j]]>>]
       ELSE JoinGoto(j, "register") /\ UNCHANGED answer
    /\ UNCHANGED <<task, exiting, queue, wake, gc, awake>>

\* AtomicWaker::register: one slot, the last registration stays.
RegisterJoinWaiter(j) ==
    /\ jpc[j] = "register" /\ JoinGoto(j, "recheck")
    /\ wait' = [wait EXCEPT ![target[j]] = j]
    /\ UNCHANGED <<state, code, oncpu, exiting, queue, wake, gc, awake, woken, answer>>

RecheckJoin(j) ==
    /\ jpc[j] = "recheck"
    /\ IF state[target[j]] = "Exited"
       THEN JoinGoto(j, "done") /\ answer' = [answer EXCEPT ![j] = <<code[target[j]]>>]
       ELSE JoinGoto(j, "asleep") /\ UNCHANGED answer
    /\ UNCHANGED <<task, exiting, queue, wake, gc, awake, woken>>

DropHandle(j) ==
    /\ jpc[j] \in {"holds", "done"} /\ JoinGoto(j, "gone")
    /\ UNCHANGED <<task, exiting, queue, wake, gc, awake, woken, answer>>

JoinStep(j) == PollJoin(j) \/ RegisterJoinWaiter(j) \/ RecheckJoin(j)

ExitStep(t) ==
    StoreCode(t) \/ StoreExited(t) \/ WakeJoiner(t) \/ PushExitedTask(t) \/ SwitchAway(t)

Next ==
    \/ (\E t \in Tasks : BeginExit(t) \/ ExitStep(t)) \/ RetryTimerTick \/ RequestReclaim
    \/ Gc \/ (\E j \in Joiners : JoinStep(j) \/ DropHandle(j))

Spec ==
    /\ Init /\ [][Next]_vars
    /\ WF_vars(Gc) /\ WF_vars(RetryTimerTick)
    /\ \A t \in Tasks : WF_vars(ExitStep(t))
    /\ \A j \in Joiners : WF_vars(jpc[j] # "holds" /\ JoinStep(j))

-----------------------------------------------------------------------------
RECURSIVE Chain(_)
Chain(t) == IF t = None THEN {} ELSE {t} \cup Chain(next[t])

\* Between two steps of this CPU an exited task is in the queue or in the
\* recycler's hand, the links, the length and the membership marks agree, no
\* fault was ever recorded (push_back, pop_front); a freed task has no handle, no
\* CPU and no place in the queue; and the recycler never sleeps over a task
\* without a retry that will come (GcWake).
Held ==
    /\ faults = {}
    /\ Chain(head) = {t \in Tasks : queued[t]} /\ len = Cardinality(Chain(head))
    /\ (head = None) = (tail = None) /\ (tail # None => queued[tail] /\ next[tail] = None)
    /\ \A t \in Tasks :
       /\ state[t] = "Freed" => ~queued[t] /\ ~oncpu[t] /\ Holders(t) = {}
       /\ state[t] = "Exited" /\ exiting[1] # t => queued[t] # (gc.task = t)
    /\ gc.at = "asleep" /\ ~awake => waiter /\ ~pending /\ (head # None => ticks > 0)

\* A join returns the code of the task that exited (notify_exit, poll_join).
JoinsAnswer == \A j \in Joiners : answer[j] \in {<<>>, <<TRUE>>}

\* An exited task nobody holds, and a joiner asleep over an exited task.
Abandoned(t) == state[t] = "Exited" /\ Holders(t) = {}
Awaits(j) == jpc[j] = "asleep" /\ state[target[j]] = "Exited"
=============================================================================
