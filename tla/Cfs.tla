-------------------------------- MODULE Cfs --------------------------------
(***************************************************************************)
(* The CFS run queue of thekernel-axsched (cfs.rs), two or more of them    *)
(* and the tasks that move between them.  Every method holds its run queue *)
(* exclusively and is one action; configure and the reservation token hold *)
(* only the task's queue-owner word, so their two ends are two actions.    *)
(*                                                                         *)
(* The intrusive tree is a set ordered by the staged keys.  A call that    *)
(* returns Err and changes nothing is a disabled action; a parameter       *)
(* change that fails after the task was unlinked is rolled back            *)
(* explicitly.  Sequence numbers run out at SEQ_MAX.  What the task layer  *)
(* does with a task (phase) is external.                                   *)
(***************************************************************************)
EXTENDS Integers, FiniteSets, Sequences

CONSTANTS
  Tasks, Queues, \* tasks; run queues (numbers, from 1)
  NoTask,
  Params,        \* [class, weight, prio] that calls choose from
  Setup,         \* per task: its parameters, phase and vruntime at the beginning
  NICE_0,        \* the weight of nice 0
  RR_SLICE, RT_PRIORITY_MAX, SEQ_MAX,
  MaxTicks,      \* bound: ticks of a task since it was last placed
  MaxCalls       \* bound: calls made

VARIABLES
  task,  \* per task: the fields of CFSTask
  queue, \* per run queue: the fields of CFScheduler
  run,   \* external, per run queue: the task the processor runs
  phase, \* external, per task: fresh, queued, running, asleep, moving, gone
  token, \* per task: none, a configuration claim, or a reservation
  moved, \* history: distance to the source floor when a fair task was detached
  calls

vars == <<task, queue, run, phase, token, moved, calls>>

UNOWNED == 0
CONFIGURING == -1
None == <<>>
Some(v) == <<v>>
Hi(a, b) == IF a >= b THEN a ELSE b
Lo(a, b) == IF a <= b THEN a ELSE b
FAIR_PREEMPT_GRANULARITY_TICKS == 2

is_realtime(p) == p.class \in {"rr", "fifo"}
rt_priority_key(prio) == RT_PRIORITY_MAX - prio
get_vruntime_with(r, p) == r.init + ((r.delta * NICE_0) \div p.weight)
vruntime(r) == get_vruntime_with(r, r.par)
rebase_vruntime(r, v) == [r EXCEPT !.init = v, !.delta = 0]

KeyLess(a, b) ==
  \/ a[1] < b[1]
  \/ a[1] = b[1] /\ a[2] < b[2]
  \/ a[1] = b[1] /\ a[2] = b[2] /\ a[3] < b[3]

NewTask(p) ==
  [par |-> p, key |-> <<1, 0, 0>>, init |-> 0, delta |-> 0, seeded |-> FALSE,
   slice |-> RR_SLICE, off |-> None, owner |-> UNOWNED]
NewQueue == [ready |-> {}, min |-> None, fseq |-> 0, front |-> 0, back |-> 0]

Init ==
  /\ task = [t \in Tasks |-> rebase_vruntime(NewTask(Setup[t].par), Setup[t].v)]
  /\ queue = [s \in Queues |-> NewQueue]
  /\ run = [s \in Queues |-> NoTask]
  /\ phase = [t \in Tasks |-> Setup[t].phase]
  /\ token = [t \in Tasks |-> [kind |-> "none"]]
  /\ moved = [t \in Tasks |-> None]
  /\ calls = 0

(***************************************************************************)
(* Helpers of the task.                                                    *)
(***************************************************************************)
stage_migration_vruntime_offset(r, floor) ==
  [r EXCEPT !.off = IF is_realtime(r.par) THEN None ELSE Some(vruntime(r) - floor)]

\* Mutation: a migrated task is placed like one that woke up.
take_as_sleeper(r, floor) == Hi(vruntime(r), floor)

take_migration_vruntime(r, floor) ==
  IF r.off # None THEN floor + r.off[1] ELSE Hi(vruntime(r), floor)

clear_migration_vruntime_offset(r) == [r EXCEPT !.off = None]
reset_rr_time_slice(r) == [r EXCEPT !.slice = RR_SLICE]

set_sched_params(r, p) ==
  [rebase_vruntime(r, vruntime(r)) EXCEPT
     !.par = p, !.slice = IF is_realtime(p) THEN RR_SLICE ELSE 0]

(***************************************************************************)
(* Helpers of the run queue: q is its record, K the tasks.                 *)
(***************************************************************************)
queue_floor(q) == IF q.min = None THEN 0 ELSE q.min[1]
FairReady(q, K) == {t \in q.ready : K[t].key[1] = 1}
Front(S, K) == CHOOSE t \in S : \A u \in S \ {t} : KeyLess(K[t].key, K[u].key)

min_ready_vruntime(q, K) ==
  IF FairReady(q, K) = {} THEN None ELSE Some(K[Front(FairReady(q, K), K)].key[2])

refresh_min_vruntime(q, K, current) ==
  LET ready == min_ready_vruntime(q, K)
      new == IF current = None THEN ready
             ELSE IF ready = None THEN current
             ELSE Some(Lo(current[1], ready[1]))
  IN  [q EXCEPT !.min = IF new = None THEN None
                        ELSE IF @ = None THEN new ELSE Some(Hi(@[1], new[1]))]

wakeup_floor(q, p) ==
  queue_floor(q) + (CASE p.class = "normal" -> FAIR_PREEMPT_GRANULARITY_TICKS
                      [] p.class = "batch" -> FAIR_PREEMPT_GRANULARITY_TICKS + 1
                      [] p.class = "idle" -> FAIR_PREEMPT_GRANULARITY_TICKS + 2
                      [] OTHER -> 0)

\* next_fair_sequence, next_rt_seq: refused when the domain is exhausted.
CanSequence(q, p, front) ==
  IF is_realtime(p) THEN IF front THEN q.front > -SEQ_MAX ELSE q.back < SEQ_MAX
  ELSE q.fseq < SEQ_MAX
NextSequence(q, p, front) ==
  IF is_realtime(p) THEN IF front THEN q.front - 1 ELSE q.back ELSE q.fseq
TakeSequence(q, p, front) ==
  IF is_realtime(p) THEN IF front THEN [q EXCEPT !.front = @ - 1] ELSE [q EXCEPT !.back = @ + 1]
  ELSE [q EXCEPT !.fseq = @ + 1]

\* Link r (the new record of t) under its key.
Linked(q, K, s, t, r) ==
  LET L == [K EXCEPT ![t] = [r EXCEPT !.owner = s]]
      p == [q EXCEPT !.ready = @ \union {t}]
  IN  [q |-> IF is_realtime(r.par) THEN p ELSE refresh_min_vruntime(p, L, None), k |-> L]

\* Unlink t and give its owner word to next.
Unlinked(q, K, t, next) ==
  LET L == [K EXCEPT ![t].owner = next]
      p == [q EXCEPT !.ready = @ \ {t}]
  IN  [q |-> IF K[t].key[1] = 0 THEN p ELSE refresh_min_vruntime(p, L, None), k |-> L]

(***************************************************************************)
(* enqueue_with_action.                                                    *)
(***************************************************************************)
\* A preempted real-time task goes to the front, a round-robin one only
\* while it has a slice left.
AtFront(r, action) ==
  action = "preempt" /\ (r.par.class = "fifo" \/ (r.par.class = "rr" /\ r.slice > 0))
RenewsSlice(r, action) ==
  /\ r.par.class = "rr"
  /\ ~AtFront(r, action)
  /\ action = "migrate" => r.slice <= 0

PlacedAt(q, K, r, action) ==
  LET yieldFloor == IF min_ready_vruntime(q, K) = None THEN queue_floor(q)
                    ELSE min_ready_vruntime(q, K)[1]
  IN  CASE action = "new" -> IF r.seeded THEN Hi(vruntime(r), queue_floor(q)) ELSE queue_floor(q)
        [] action = "wakeup" -> Hi(vruntime(r), wakeup_floor(q, r.par))
        [] action = "yield" -> Hi(vruntime(r), yieldFloor + FAIR_PREEMPT_GRANULARITY_TICKS)
        [] action \in {"preempt", "requeue"} -> vruntime(r)
        [] action = "migrate" -> take_migration_vruntime(r, queue_floor(q))

EnqueuedRt(r, action, seq) ==
  LET c == clear_migration_vruntime_offset(r)
  IN  [IF RenewsSlice(r, action) THEN reset_rr_time_slice(c) ELSE c
         EXCEPT !.key = <<0, rt_priority_key(r.par.prio), seq>>]
EnqueuedFair(q, K, r, action, seq) ==
  LET v == PlacedAt(q, K, r, action)
      c == clear_migration_vruntime_offset(rebase_vruntime(r, v))
  IN  [c EXCEPT !.key = <<1, v, seq>>, !.seeded = IF action = "new" THEN FALSE ELSE @]

enqueue_with_action(q, K, s, t, action) ==
  LET r == K[t]
      seq == NextSequence(q, r.par, AtFront(r, action))
      p == TakeSequence(q, r.par, AtFront(r, action))
  IN  Linked(p, K, s, t, IF is_realtime(r.par) THEN EnqueuedRt(r, action, seq)
                         ELSE EnqueuedFair(q, K, r, action, seq))

(***************************************************************************)
(* Steps.                                                                  *)
(***************************************************************************)
Call == calls < MaxCalls /\ calls' = calls + 1
Becomes(s, out) == queue' = [queue EXCEPT ![s] = out.q] /\ task' = out.k

Claimable(t) == task[t].owner = UNOWNED

\* claim_configuration, and the change it protects; configure_nice keeps the
\* class and refuses a real-time one.
ClaimConfiguration(t) ==
  /\ Call /\ Claimable(t)
  /\ task' = [task EXCEPT ![t].owner = CONFIGURING]
  /\ token' = [token EXCEPT ![t] = [kind |-> "configure"]]
  /\ UNCHANGED <<queue, run, phase, moved>>

Configure(t, p) ==
  /\ token[t].kind = "configure"
  /\ task' = [task EXCEPT ![t] = [set_sched_params(@, p) EXCEPT !.owner = UNOWNED]]
  /\ token' = [token EXCEPT ![t] = [kind |-> "none"]]
  /\ UNCHANGED <<queue, run, phase, moved, calls>>

ConfigureNice(t, p) ==
  /\ ~is_realtime(p) /\ p.class = task[t].par.class
  /\ Configure(t, p)

InheritFairVruntimeFrom(t, parent) ==
  LET r == task[t]
  IN  /\ Call /\ Claimable(t) /\ phase[t] = "fresh" /\ t # parent
      /\ ~is_realtime(r.par) /\ ~is_realtime(task[parent].par)
      /\ task' = [task EXCEPT ![t] =
                    [rebase_vruntime(r, vruntime(task[parent]) + FAIR_PREEMPT_GRANULARITY_TICKS)
                       EXCEPT !.seeded = TRUE]]
      /\ UNCHANGED <<queue, run, phase, token, moved>>

ReserveNewTask(s, t) ==
  LET p == task[t].par
  IN  /\ Call /\ Claimable(t) /\ phase[t] = "fresh"
      /\ CanSequence(queue[s], p, FALSE)
      /\ task' = [task EXCEPT ![t].owner = CONFIGURING]
      /\ queue' = [queue EXCEPT ![s] = TakeSequence(@, p, FALSE)]
      /\ token' = [token EXCEPT ![t] =
                     [kind |-> "reserve", s |-> s, par |-> p,
                      seq |-> NextSequence(queue[s], p, FALSE)]]
      /\ UNCHANGED <<run, phase, moved>>

CommitReservedTask(t) ==
  LET k == token[t]
      r == task[t]
      q == queue[k.s]
  IN  /\ k.kind = "reserve"
      /\ r.owner = CONFIGURING /\ r.par = k.par
      /\ Becomes(k.s, Linked(q, task, k.s, t,
                             IF is_realtime(k.par) THEN EnqueuedRt(r, "new", k.seq)
                             ELSE EnqueuedFair(q, task, r, "new", k.seq)))
      /\ phase' = [phase EXCEPT ![t] = "queued"]
      /\ token' = [token EXCEPT ![t] = [kind |-> "none"]]
      /\ UNCHANGED <<run, moved, calls>>

\* cancel, or the token's Drop.
CancelReservation(t) ==
  /\ token[t].kind = "reserve"
  /\ task' = [task EXCEPT ![t].owner = UNOWNED]
  /\ token' = [token EXCEPT ![t] = [kind |-> "none"]]
  /\ UNCHANGED <<queue, run, phase, moved, calls>>

\* The call a task in each phase is queued with.
Reasons ==
  [fresh |-> {"new"}, asleep |-> {"wakeup"}, moving |-> {"migrate"},
   running |-> {"yield", "preempt", "requeue"}, queued |-> {}, gone |-> {}]

EnqueueTask(s, t, action) ==
  /\ Call /\ Claimable(t)
  /\ action \in Reasons[phase[t]] /\ (phase[t] = "running" => run[s] = t)
  /\ CanSequence(queue[s], task[t].par, AtFront(task[t], action))
  /\ Becomes(s, enqueue_with_action(queue[s], task, s, t, action))
  /\ run' = [run EXCEPT ![s] = IF @ = t THEN NoTask ELSE @]
  /\ phase' = [phase EXCEPT ![t] = "queued"]
  /\ moved' = [moved EXCEPT ![t] = None]
  /\ UNCHANGED token

PickNextTask(s) ==
  LET q == queue[s]
      t == Front(q.ready, task)
      p == [q EXCEPT !.ready = @ \ {t}]
  IN  /\ Call /\ run[s] = NoTask
      /\ IF q.ready = {}
         THEN /\ queue' = [queue EXCEPT ![s] = refresh_min_vruntime(q, task, None)]
              /\ UNCHANGED <<task, run, phase>>
         ELSE /\ task' = [task EXCEPT ![t].owner = UNOWNED]
              /\ queue' = [queue EXCEPT ![s] =
                             IF task[t].key[1] = 0 THEN p
                             ELSE refresh_min_vruntime(p, task, Some(task[t].key[2]))]
              /\ run' = [run EXCEPT ![s] = t]
              /\ phase' = [phase EXCEPT ![t] = "running"]
      /\ UNCHANGED <<token, moved>>

\* deactivate_task; the task leaves the processor.
DeactivateTask(s, t, next) ==
  LET r == task[t]
      floor == queue_floor(queue[s])
  IN  /\ Call /\ run[s] = t
      /\ task' = [task EXCEPT ![t] = IF next = "moving" THEN stage_migration_vruntime_offset(r, floor)
                                     ELSE clear_migration_vruntime_offset(r)]
      /\ moved' = [moved EXCEPT ![t] = IF next = "moving" /\ ~is_realtime(r.par)
                                       THEN Some(vruntime(r) - floor) ELSE None]
      /\ run' = [run EXCEPT ![s] = NoTask]
      /\ phase' = [phase EXCEPT ![t] = next]
      /\ UNCHANGED <<queue, token>>

\* remove_task, and remove_task_for_migration.
RemoveTask(s, t, migrate) ==
  LET r == task[t]
      floor == queue_floor(queue[s])
      K == IF migrate THEN [task EXCEPT ![t] = stage_migration_vruntime_offset(r, floor)] ELSE task
  IN  /\ Call /\ r.owner = s
      /\ Becomes(s, Unlinked(queue[s], K, t, UNOWNED))
      /\ moved' = [moved EXCEPT ![t] = IF migrate /\ ~is_realtime(r.par)
                                       THEN Some(vruntime(r) - floor) ELSE None]
      /\ phase' = [phase EXCEPT ![t] = IF migrate THEN "moving" ELSE "asleep"]
      /\ UNCHANGED <<run, token>>

\* What a tick does to the running task; whether it asks for a reschedule
\* only matters to the caller.
TaskTick(s) ==
  LET t == run[s]
      r == task[t]
      q == queue[s]
      rtReady == q.ready # {} /\ task[Front(q.ready, task)].key[1] = 0
      frontOrder == task[Front(q.ready, task)].key[2]
      higher == rtReady /\ frontOrder < rt_priority_key(r.par.prio)
      same == \E u \in q.ready : task[u].key[1] = 0 /\ task[u].key[2] = rt_priority_key(r.par.prio)
      ticked == [r EXCEPT !.delta = @ + 1]
  IN  /\ Call /\ t # NoTask
      /\ IF is_realtime(r.par)
         THEN /\ r.par.class = "rr" /\ ~higher
              /\ task' = [task EXCEPT ![t].slice =
                            IF @ <= 1 /\ ~same THEN RR_SLICE ELSE @ - 1]
              /\ UNCHANGED queue
         ELSE /\ ~rtReady /\ r.delta < MaxTicks
              /\ task' = [task EXCEPT ![t] = ticked]
              /\ queue' = [queue EXCEPT ![s] = refresh_min_vruntime(q, task', Some(vruntime(ticked)))]
      /\ UNCHANGED <<run, phase, token, moved>>

(***************************************************************************)
(* set_task_params of a queued task: unlink, apply, link again; when no    *)
(* sequence number is left, the snapshot is restored.                      *)
(***************************************************************************)
reinsert_reconfigured(q, K, s, t, p) ==
  LET r == K[t]
      seq == NextSequence(q, p, FALSE)
      key == IF is_realtime(p) THEN <<0, rt_priority_key(p.prio), seq>> ELSE <<1, vruntime(r), seq>>
  IN  Linked(TakeSequence(q, p, FALSE), K, s, t, [r EXCEPT !.key = key])

restore_reconfigured(q, K, s, t, was, min) ==
  [q |-> [q EXCEPT !.ready = @ \union {t}, !.min = min],
   k |-> [K EXCEPT ![t] = [was EXCEPT !.off = K[t].off, !.owner = s]]]

SetTaskParams(s, t, p) ==
  LET was == task[t]
      out == Unlinked(queue[s], task, t, CONFIGURING)
      K == [out.k EXCEPT ![t] = set_sched_params(@, p)]
  IN  /\ Call /\ was.owner = s
      /\ Becomes(s, IF CanSequence(out.q, p, FALSE)
                    THEN reinsert_reconfigured(out.q, K, s, t, p)
                    ELSE restore_reconfigured(out.q, K, s, t, was, queue[s].min))
      /\ UNCHANGED <<run, phase, token, moved>>

SetPriority(s, t, p) ==
  /\ ~is_realtime(p) /\ p.class = task[t].par.class
  /\ SetTaskParams(s, t, p)

\* Drop; the next scheduler in its place starts empty.
DropScheduler(s) ==
  /\ Call /\ run[s] = NoTask /\ queue[s].ready # {}
  /\ task' = [t \in Tasks |-> IF t \in queue[s].ready
                              THEN [task[t] EXCEPT !.owner = UNOWNED] ELSE task[t]]
  /\ queue' = [queue EXCEPT ![s] = NewQueue]
  /\ phase' = [t \in Tasks |-> IF t \in queue[s].ready THEN "gone" ELSE phase[t]]
  /\ UNCHANGED <<run, token, moved>>

Next ==
  \/ \E t \in Tasks : ClaimConfiguration(t)
  \/ \E t \in Tasks, p \in Params : Configure(t, p)
  \/ \E t \in Tasks, p \in Params : ConfigureNice(t, p)
  \/ \E t, u \in Tasks : InheritFairVruntimeFrom(t, u)
  \/ \E s \in Queues, t \in Tasks : ReserveNewTask(s, t)
  \/ \E t \in Tasks : CommitReservedTask(t)
  \/ \E t \in Tasks : CancelReservation(t)
  \/ \E s \in Queues, t \in Tasks, a \in {"new", "wakeup", "yield", "preempt", "requeue", "migrate"} :
       EnqueueTask(s, t, a)
  \/ \E s \in Queues : PickNextTask(s)
  \/ \E s \in Queues, t \in Tasks, n \in {"asleep", "moving", "gone"} : DeactivateTask(s, t, n)
  \/ \E s \in Queues, t \in Tasks, b \in BOOLEAN : RemoveTask(s, t, b)
  \/ \E s \in Queues : TaskTick(s)
  \/ \E s \in Queues, t \in Tasks, p \in Params : SetTaskParams(s, t, p)
  \/ \E s \in Queues, t \in Tasks, p \in Params : SetPriority(s, t, p)
  \/ \E s \in Queues : DropScheduler(s)

Spec == Init /\ [][Next]_vars

(***************************************************************************)
(* Properties.                                                             *)
(***************************************************************************)
\* After any calls on any queues: the owner word of a task names the one
\* tree it is linked in, or says that a claim or a reservation holds it;
\* keys are unique and are those of the task's parameters and vruntime (a
\* failed parameter change included); a queue with a fair task has a floor;
\* and an offset is pending exactly for a fair task between two queues.
CfsSound ==
  /\ \A t \in Tasks :
       /\ \A s \in Queues : (t \in queue[s].ready) = (task[t].owner = s)
       /\ (task[t].owner = CONFIGURING) = (token[t].kind # "none")
       /\ task[t].off # None => phase[t] = "moving"
       /\ moved[t] = task[t].off
  /\ \A s \in Queues :
       /\ FairReady(queue[s], task) # {} => queue[s].min # None
       /\ \A t, u \in queue[s].ready : t # u => task[t].key # task[u].key
       /\ \A t \in queue[s].ready :
            /\ is_realtime(task[t].par) =>
                 task[t].key[1] = 0 /\ task[t].key[2] = rt_priority_key(task[t].par.prio)
            /\ ~is_realtime(task[t].par) =>
                 task[t].key[1] = 1 /\ task[t].key[2] = vruntime(task[t])

\* A fair task that moves keeps its distance to the floor: whatever happens
\* to it or to either queue in between, take_migration_vruntime places it at
\* the destination's floor plus the distance it was detached with.
DistanceKept ==
  \A t \in Tasks, s \in Queues :
    (moved[t] # None /\ phase[t] = "moving" /\ task'[t].owner = s /\ ~is_realtime(task[t].par))
      => task'[t].key[2] = queue_floor(queue[s]) + moved[t][1]
=============================================================================
