----------------------------- MODULE ReadyList -----------------------------
(***************************************************************************)
(* The two list schedulers of thekernel-axsched, FIFO (fifo.rs) and        *)
(* round-robin (round_robin.rs), on several run queues.  A task is linked  *)
(* in at most one ready list, named by its queue-owner word; the running   *)
(* task of a queue is not linked.  A refused call is a disabled action.    *)
(* The task layer (who runs, sleeps or moves; what it does when a tick     *)
(* asks for a reschedule) is external.                                     *)
(***************************************************************************)
EXTENDS Integers, Sequences
LOCAL INSTANCE SequencesExt

CONSTANTS
  Tasks, Queues,  \* tasks; run queues (numbers, from 1)
  NoTask,
  MAX_TIME_SLICE  \* ticks of a round-robin slice

VARIABLES
  policy, \* "fifo" or "rr"
  list,   \* per run queue: the ready list
  owner,  \* per task: the queue-owner word
  slice,  \* per task: ticks left
  run,    \* external, per run queue: the running task
  asked   \* external, per run queue: a tick asked for a reschedule

vars == <<policy, list, owner, slice, run, asked>>

UNOWNED == 0

Init ==
  /\ policy \in {"fifo", "rr"}
  /\ list = [s \in Queues |-> <<>>]
  /\ owner = [t \in Tasks |-> UNOWNED]
  /\ slice = [t \in Tasks |-> MAX_TIME_SLICE]
  /\ run = [s \in Queues |-> NoTask]
  /\ asked = [s \in Queues |-> FALSE]

Running(t) == \E s \in Queues : run[s] = t
CanClaim(t) == owner[t] = UNOWNED /\ MAX_TIME_SLICE > 0

PushBack(s, t) ==
  /\ owner' = [owner EXCEPT ![t] = s]
  /\ list' = [list EXCEPT ![s] = Append(@, t)]
PushFront(s, t) ==
  /\ owner' = [owner EXCEPT ![t] = s]
  /\ list' = [list EXCEPT ![s] = <<t>> \o @]
Reset(t) == slice' = [slice EXCEPT ![t] = MAX_TIME_SLICE]

\* add_task: a new or woken task.
AddTask(s, t) ==
  /\ CanClaim(t) /\ ~Running(t)
  /\ PushBack(s, t)
  /\ UNCHANGED <<policy, slice, run, asked>>

\* enqueue_task(Migrate): a used-up slice is renewed.
EnqueueMigrated(s, t) ==
  /\ CanClaim(t) /\ ~Running(t)
  /\ PushBack(s, t)
  /\ IF policy = "rr" /\ slice[t] = 0 THEN Reset(t) ELSE UNCHANGED slice
  /\ UNCHANGED <<policy, run, asked>>

RemoveTask(s, t) ==
  /\ owner[t] = s
  /\ list' = [list EXCEPT ![s] = Remove(@, t)]
  /\ owner' = [owner EXCEPT ![t] = UNOWNED]
  /\ UNCHANGED <<policy, slice, run, asked>>

PickNextTask(s) ==
  /\ run[s] = NoTask /\ list[s] # <<>>
  /\ run' = [run EXCEPT ![s] = Head(list[s])]
  /\ list' = [list EXCEPT ![s] = Tail(@)]
  /\ owner' = [owner EXCEPT ![Head(list[s])] = UNOWNED]
  /\ UNCHANGED <<policy, slice, asked>>

\* Mutation: a preempted task always resumes first.
KeepsTurnAlways(t, preempt) == policy = "rr" /\ preempt

\* A preempted round-robin task with ticks left keeps its turn.
KeepsTurn(t, preempt) == policy = "rr" /\ preempt /\ slice[t] > 0

PutPrevTask(s, preempt) ==
  LET t == run[s]
  IN  /\ t # NoTask /\ CanClaim(t)
      /\ IF KeepsTurn(t, preempt)
         THEN PushFront(s, t) /\ UNCHANGED slice
         ELSE PushBack(s, t) /\ (IF policy = "rr" THEN Reset(t) ELSE UNCHANGED slice)
      /\ run' = [run EXCEPT ![s] = NoTask]
      /\ asked' = [asked EXCEPT ![s] = FALSE]
      /\ UNCHANGED policy

\* The answer is kept for the task layer, which reschedules.
TaskTick(s) ==
  LET t == run[s]
  IN  /\ t # NoTask /\ policy = "rr"
      /\ slice' = [slice EXCEPT ![t] = IF @ > 0 THEN @ - 1 ELSE 0]
      /\ asked' = [asked EXCEPT ![s] = @ \/ slice[t] <= 1]
      /\ UNCHANGED <<policy, list, owner, run>>

\* The running task blocks or leaves for another queue (deactivate_task does
\* nothing here).
Block(s) ==
  /\ run[s] # NoTask
  /\ run' = [run EXCEPT ![s] = NoTask]
  /\ asked' = [asked EXCEPT ![s] = FALSE]
  /\ UNCHANGED <<policy, list, owner, slice>>

DropScheduler(s) ==
  /\ list[s] # <<>>
  /\ owner' = [t \in Tasks |-> IF owner[t] = s THEN UNOWNED ELSE owner[t]]
  /\ list' = [list EXCEPT ![s] = <<>>]
  /\ UNCHANGED <<policy, slice, run, asked>>

Next ==
  \/ \E s \in Queues, t \in Tasks : AddTask(s, t)
  \/ \E s \in Queues, t \in Tasks : EnqueueMigrated(s, t)
  \/ \E s \in Queues, t \in Tasks : RemoveTask(s, t)
  \/ \E s \in Queues : PickNextTask(s)
  \/ \E s \in Queues, b \in BOOLEAN : PutPrevTask(s, b)
  \/ \E s \in Queues : TaskTick(s)
  \/ \E s \in Queues : Block(s)
  \/ \E s \in Queues : DropScheduler(s)

\* A processor without a task picks one; a tick that asks for a reschedule
\* gets it; and between two timer ticks of a processor there are finitely
\* many context switches.
Fairness ==
  \A s \in Queues :
    /\ WF_vars(PickNextTask(s))
    /\ WF_vars(asked[s] /\ PutPrevTask(s, TRUE))
    /\ SF_vars(TaskTick(s))

Spec == Init /\ [][Next]_vars /\ Fairness

\* Whatever calls the queues receive, a task is linked once, in the list its
\* owner word names, and a running task is linked nowhere: the release() and
\* remove_task assertions hold.
ListSound ==
  \A t \in Tasks :
    /\ \A s \in Queues : Len(SelectSeq(list[s], LAMBDA u : u = t)) = (IF owner[t] = s THEN 1 ELSE 0)
    /\ Running(t) => owner[t] = UNOWNED
=============================================================================
