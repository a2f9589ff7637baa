------------------------------- MODULE Eevdf -------------------------------
(***************************************************************************)
(* The single-runqueue EEVDF scheduler of thekernel-axsched (eevdf.rs):    *)
(* task ownership, the ready and the throttled tree, fair, real-time and   *)
(* deadline (CBS) classes, runtime settlement, reconfiguration, admission  *)
(* reservations and the migration tokens that move a task between two run  *)
(* queues.                                                                 *)
(*                                                                         *)
(* Every method takes the run queue exclusively, so each is one action;    *)
(* what interleaves are the methods of different queues and the tokens     *)
(* that stay alive between them.  A method that refuses (returns Err) and  *)
(* leaves everything as it was is a disabled action.  The two intrusive    *)
(* trees are sets ordered by the staged keys (EevdfTree checks the tree    *)
(* itself); 0 stands for the least biased eligibility, because virtual     *)
(* time is never negative.                                                 *)
(*                                                                         *)
(* Nanoseconds are scaled: PERIOD is the accounting period of one tick,    *)
(* and the fair sched_runtime of a task is kept in ticks.  Sequence        *)
(* numbers, clocks and the 128-bit ranges do not overflow within a run.    *)
(***************************************************************************)
EXTENDS EevdfEntity, FiniteSets, Sequences, TLC
LOCAL INSTANCE FiniteSetsExt

CONSTANTS
  Tasks, Scheds,  \* tasks and run queues (run queues are numbers, from 1)
  NoTask,         \* no running task
  InDomain,       \* run queues bound to the shared deadline domain
  PERIOD,         \* nanoseconds of one accounting period
  RR_SLICE,       \* ticks of a round-robin slice
  UTIL_SCALE,     \* DEADLINE_UTIL_SCALE: a full processor
  DomainCapacity, \* capacity of the shared domain
  RT_PRIORITY_MAX,
  Elapsed,        \* samples given to account_runtime
  Configs,        \* deadline configurations
  Runtimes,       \* fair runtimes, in ticks (0: the default)
  Profiles        \* start states and the calls made from them

VARIABLES
  world,   \* tasks, run queues and the domain ledger
  token,   \* per task: the live reservation or migration token
  answer,  \* the reschedule answer of the last service or update
  saved,   \* history: what a migrating task carried when it was detached
  stale,   \* history: tasks put back by rolling back a running migration
  profile, \* the scenario
  calls    \* calls made so far

vars == <<world, token, answer, saved, stale, profile, calls>>

Home == 1        \* the cpu_id a task is created with
UNOWNED == 0
CONFIGURING == -1
None == <<>>
Some(v) == <<v>>

(***************************************************************************)
(* Classes, keys, task records.                                            *)
(***************************************************************************)
is_rt_class(c) == c \in {"rr", "fifo", "deadline"}
is_deadline_class(c) == c = "deadline"
DEADLINE_RANK == 0
RT_RANK == 1
FAIR_RANK == 2

runtime_fraction_weight(p) == IF is_rt_class(p.class) THEN 0 ELSE p.weight
Tuple(p) == <<p.class, runtime_fraction_weight(p)>>
NoTuple == <<"normal", 0>>

KeyLess(a, b) ==
  \/ a[1] < b[1]
  \/ a[1] = b[1] /\ a[2] < b[2]
  \/ a[1] = b[1] /\ a[2] = b[2] /\ a[3] < b[3]

rt_order(priority) == RT_PRIORITY_MAX - priority
fair_key(e, seq) == <<FAIR_RANK, e.req.deadline, seq>>
rt_key(p, seq) == <<RT_RANK, rt_order(p.prio), seq>>
deadline_key(ns, seq) == <<DEADLINE_RANK, ns, seq>>

NewTask(p, cfg) ==
  [owner |-> UNOWNED, cpu |-> Home, par |-> p, frt |-> 0, cfg |-> cfg,
   rr |-> IF p.class = "rr" THEN RR_SLICE ELSE 0,
   ent |-> None, rem |-> 0, frac |-> 0, fown |-> NoTuple, rrq |-> 0,
   mig |-> None, dorm |-> None, rtsleep |-> FALSE, seed |-> None,
   sleepv |-> Awake, dleft |-> 0, dabs |-> 0, drep |-> 0, dthr |-> FALSE,
   key |-> <<RT_RANK, 0, 0>>, elig |-> 0]

NewSched ==
  [ready |-> {}, thr |-> {}, run |-> NoTask, clk |-> ClockNew,
   fseq |-> 0, front |-> 0, back |-> 0, now |-> 0, util |-> 0, live |-> TRUE]

is_virgin(r) == r.ent = None /\ r.mig = None /\ r.dorm = None /\ ~r.rtsleep

\* The state the code clears when a task leaves a scheduler for good.
Cleared(r) ==
  [r EXCEPT !.ent = None, !.rem = 0, !.frac = 0, !.fown = NoTuple, !.rrq = 0,
            !.mig = None, !.dorm = None, !.rtsleep = FALSE, !.seed = None,
            !.sleepv = Awake]

reset_rr_slice(r) == [r EXCEPT !.rr = RR_SLICE, !.rrq = 0]
RenewRr(r) == IF r.par.class = "rr" THEN reset_rr_slice(r) ELSE r

\* Abbreviations: the record of a task and of a run queue, and their update.
T(X, t) == X.t[t]
Q(X, s) == X.q[s]
WithT(X, t, r) == [X EXCEPT !.t[t] = r]
WithQ(X, s, r) == [X EXCEPT !.q[s] = r]

Front(X, S) == CHOOSE t \in S : \A u \in S \ {t} : KeyLess(T(X, t).key, T(X, u).key)
FrontRank(X, s) == T(X, Front(X, Q(X, s).ready)).key[1]
EligibleAt(X, s, v) == {t \in Q(X, s).ready : T(X, t).elig <= v}

\* EevdfTree::insert refuses a duplicate key.
FreshKey(X, s, k) == \A u \in Q(X, s).ready : T(X, u).key # k
InsertReady(X, s, t, k, elig) ==
  [X EXCEPT !.t[t].key = k, !.t[t].elig = elig, !.q[s].ready = @ \union {t}]
InsertThrottled(X, s, t, k, elig) ==
  [X EXCEPT !.t[t].key = k, !.t[t].elig = elig, !.q[s].thr = @ \union {t}]
Unlink(X, s, t) ==
  [X EXCEPT !.q[s].ready = @ \ {t}, !.q[s].thr = @ \ {t}]
Linked(X, s, t) == t \in Q(X, s).ready \union Q(X, s).thr

(***************************************************************************)
(* The deadline ledgers: the queue's own utilisation and the domain's.     *)
(***************************************************************************)
utilization(cfg) == CeilDiv(cfg.runtime * UTIL_SCALE, cfg.period)
Util(p, cfg) == IF is_deadline_class(p.class) THEN utilization(cfg) ELSE 0

CanAdmitLocal(X, s, u) == Q(X, s).util + u <= UTIL_SCALE
CanAdmit(X, s, u) ==
  CanAdmitLocal(X, s, u) /\ (s \in InDomain => X.dom + u <= DomainCapacity)

admit_deadline_local(X, s, u) == [X EXCEPT !.q[s].util = @ + u]
admit_deadline(X, s, u) ==
  [admit_deadline_local(X, s, u) EXCEPT !.dom = IF s \in InDomain THEN @ + u ELSE @]

release_deadline_local(X, s, u) == [X EXCEPT !.q[s].util = Hi(@ - u, 0)]
\* The domain refuses to give back more than it holds, and the caller's
\* expect() turns the refusal into a panic.
release_deadline(X, s, u) ==
  IF s \in InDomain /\ X.dom < u
  THEN [X EXCEPT !.panic = TRUE]
  ELSE [release_deadline_local(X, s, u) EXCEPT !.dom = IF s \in InDomain THEN @ - u ELSE @]

CanReplace(X, s, old, new) ==
  /\ Q(X, s).util >= old
  /\ Q(X, s).util - old + new <= UTIL_SCALE
  /\ s \in InDomain => X.dom >= old /\ X.dom - old + new <= DomainCapacity
replace_deadline(X, s, old, new) ==
  [X EXCEPT !.q[s].util = @ - old + new,
            !.dom = IF s \in InDomain THEN @ - old + new ELSE @]

\* A full budget, counted from the queue's deadline clock.
Server(r, now) ==
  [r EXCEPT !.dleft = r.cfg.runtime, !.dabs = now + r.cfg.deadline,
            !.drep = now + r.cfg.period, !.dthr = FALSE]
NoServer(r) == [r EXCEPT !.dleft = 0, !.dabs = 0, !.drep = 0, !.dthr = FALSE]

RECURSIVE replenish_deadlines(_, _)
replenish_deadlines(X, s) ==
  LET q == Q(X, s)
      t == Front(X, q.thr)
      r == Server(T(X, t), q.now)
      Y == WithT([Unlink(X, s, t) EXCEPT !.q[s].back = @ + 1], t, r)
  IN  IF q.thr = {} \/ T(X, t).elig > q.now
      THEN X
      ELSE replenish_deadlines(
             InsertReady(Y, s, t, deadline_key(r.dabs, q.back), 0), s)

(***************************************************************************)
(* Ready-set queries.                                                      *)
(***************************************************************************)
has_ready_rt(X, s) == Q(X, s).ready # {} /\ FrontRank(X, s) <= RT_RANK
FrontOrder(X, s) == T(X, Front(X, Q(X, s).ready)).key[2]
\* Mutation: a waiting deadline server is not looked for.
has_higher_rt_only(X, s, prio) ==
  /\ Q(X, s).ready # {}
  /\ FrontRank(X, s) = RT_RANK /\ FrontOrder(X, s) < rt_order(prio)

has_higher_rt(X, s, prio) ==
  /\ Q(X, s).ready # {}
  /\ \/ FrontRank(X, s) = DEADLINE_RANK
     \/ FrontRank(X, s) = RT_RANK /\ FrontOrder(X, s) < rt_order(prio)
has_same_rt(X, s, prio) ==
  /\ Q(X, s).ready # {}
  /\ FrontRank(X, s) = RT_RANK
  /\ FrontOrder(X, s) = rt_order(prio)
has_earlier_eligible_fair(X, s, deadline) ==
  LET S == EligibleAt(X, s, Q(X, s).clk.v)
      k == T(X, Front(X, S)).key
  IN  S # {} /\ k[1] = FAIR_RANK /\ k[2] < deadline

post_update_outcome(X, s) ==
  LET q == Q(X, s)
      r == T(X, q.run)
      e == r.ent[1]
  IN  /\ q.run # NoTask
      /\ IF is_rt_class(r.par.class)
         THEN has_higher_rt(X, s, r.par.prio)
         ELSE \/ has_ready_rt(X, s)
              \/ IF is_eligible(e, q.clk.v)
                 THEN has_earlier_eligible_fair(X, s, e.req.deadline)
                 ELSE EligibleAt(X, s, q.clk.v) # {}

(***************************************************************************)
(* Service of the running task.  Each operator returns the new world and   *)
(* whether the task should be rescheduled.                                 *)
(***************************************************************************)
fair_service(X, s, t, ticks, fraction) ==
  LET q == Q(X, s)
      e == T(X, t).ent[1]
      waiting == q.ready # {}
      late == is_exhausted(e.req) /\ waiting
      from == IF is_exhausted(e.req) /\ ~waiting THEN renew(e, q.clk.W, q.clk.v) ELSE e
      c == ServiceClock(q.clk, ticks, fraction)
      served == service(from, q.clk, ticks, fraction)
      outranked == \/ has_ready_rt(X, s)
                   \/ IF is_eligible(served, c.v)
                      THEN has_earlier_eligible_fair(X, s, served.req.deadline)
                      ELSE EligibleAt(X, s, c.v) # {}
      next == IF is_exhausted(served.req) /\ ~waiting
              THEN renew(served, c.W, c.v) ELSE served
  IN  IF ticks = 0 /\ fraction = 0
      THEN [x |-> X, r |-> FALSE]
      ELSE [x |-> [X EXCEPT !.t[t].ent = Some(next), !.q[s].clk = c],
            r |-> late \/ outranked \/ is_exhausted(next.req)]

\* The slice left after overshooting its end by n ticks.
FreshSlice(n) == RR_SLICE - (n % RR_SLICE)

rr_service(X, s, t, ticks, fraction) ==
  LET r == T(X, t)
      total == r.rrq + fraction
      n == ticks + (total \div ONE)
      higher == has_higher_rt(X, s, r.par.prio)
      same == has_same_rt(X, s, r.par.prio)
      spent == r.rr = 0 \/ n >= r.rr
      left == IF ~spent THEN r.rr - n
              ELSE IF higher \/ same THEN 0
              ELSE IF r.rr = 0 THEN FreshSlice(Hi(n - 1, 0))
              ELSE FreshSlice(n - r.rr)
      q == IF spent /\ (higher \/ same) THEN 0 ELSE total % ONE
  IN  IF ticks = 0 /\ fraction = 0 THEN [x |-> X, r |-> FALSE]
      ELSE IF r.par.class # "rr" THEN [x |-> X, r |-> higher]
      ELSE [x |-> [X EXCEPT !.t[t].rr = left, !.t[t].rrq = q],
            r |-> higher \/ (spent /\ same)]

Serve(X, s, t, ticks, fraction) ==
  IF is_rt_class(T(X, t).par.class)
  THEN rr_service(X, s, t, ticks, fraction)
  ELSE fair_service(X, s, t, ticks, fraction)

\* The conversion residue belongs to the tuple it was produced under.
publish_runtime_fraction(X, t, rem, residue) ==
  LET r == T(X, t)
  IN  WithT(X, t, [r EXCEPT !.rem = rem, !.frac = residue,
                            !.fown = IF rem = 0 /\ residue = 0
                                     THEN NoTuple ELSE Tuple(r.par)])

FractionOwned(r) == (r.rem # 0 \/ r.frac # 0) => r.fown = Tuple(r.par)

\* settle_runtime_remainder: charge the pending part of a period.  A fifo or
\* deadline task has nothing to charge it to.
settle(X, s, t) ==
  LET r == T(X, t)
      num == r.rem * ONE + r.frac
      units == num \div PERIOD
      Y == IF r.par.class \in {"fifo", "deadline"} THEN X
           ELSE Serve(X, s, t, units \div ONE, units % ONE).x
  IN  IF r.rem = 0 /\ r.frac = 0 THEN X
      ELSE publish_runtime_fraction(Y, t, 0, num % PERIOD)

account_deadline_runtime(X, s, t, ns) ==
  LET r == T(X, t)
      q == Q(X, s)
      exhausted == ns >= r.dleft
      earlier == q.ready # {} /\ FrontRank(X, s) = DEADLINE_RANK /\ FrontOrder(X, s) < r.dabs
  IN  IF r.dthr \/ r.dleft = 0
      THEN [x |-> [X EXCEPT !.panic = TRUE], r |-> FALSE]
      ELSE [x |-> [X EXCEPT !.t[t].dleft = Hi(@ - ns, 0), !.t[t].dthr = exhausted],
            r |-> exhausted \/ earlier]

account_runtime(X, s, t, ns) ==
  LET Y == replenish_deadlines([X EXCEPT !.q[s].now = @ + ns], s)
      r == T(Y, t)
      total == r.rem + ns
      rem == total % PERIOD
      num == rem * ONE + r.frac
      units == num \div PERIOD
      periods == (total \div PERIOD) + (units \div ONE)
      served == Serve(Y, s, t, periods, 0)
  IN  IF is_deadline_class(r.par.class) THEN account_deadline_runtime(Y, s, t, ns)
      ELSE [served EXCEPT !.x =
              publish_runtime_fraction(@, t, IF units >= ONE THEN 0 ELSE rem, num % PERIOD)]

(***************************************************************************)
(* Admission.                                                              *)
(***************************************************************************)
fork_lag(r) == IF r.seed = None THEN 0 ELSE Clamp(r.seed[1], r.par.class)

rebind_fair_runtime(e, frt, total) ==
  IF frt = 0 THEN rebind_default_request_quantum(e, total)
  ELSE rebind_request_quantum(e, frt)

AdmittedClock(X, s, p) ==
  IF is_rt_class(p.class) THEN Q(X, s).clk ELSE checked_add_weight(Q(X, s).clk, p.weight)
FreshEntity(X, s, r) ==
  LET c == AdmittedClock(X, s, r.par)
  IN  with_lag(r.par.class, r.par.weight, c.W, c.v, fork_lag(r))

CanBeAdmitted(X, s, t) ==
  LET r == T(X, t)
  IN  /\ is_virgin(r)
      /\ ~(is_rt_class(r.par.class) /\ r.seed # None)
      /\ is_deadline_class(r.par.class) => CanAdmit(X, s, utilization(r.cfg))

\* The world with t owned by s, its ledgers and clock charged and its state
\* published; not yet linked.
Admitted(X, s, t, entity) ==
  LET r == T(X, t)
      Y == admit_deadline(X, s, Util(r.par, r.cfg))
      base == IF is_deadline_class(r.par.class) THEN Server(r, Q(X, s).now) ELSE r
      own == [RenewRr(Cleared(base)) EXCEPT !.owner = s, !.cpu = s, !.ent = entity]
  IN  [WithT(Y, t, own) EXCEPT !.q[s].clk = AdmittedClock(X, s, r.par)]

\* ensure_running: the running task, or a virgin task adopted as such; an
\* adopted task keeps the constructor's key.
CanRun(X, s, t) ==
  \/ Q(X, s).run = t
  \/ Q(X, s).run = NoTask /\ T(X, t).owner = UNOWNED /\ CanBeAdmitted(X, s, t)
ensure_running(X, s, t) ==
  IF Q(X, s).run = t THEN X
  ELSE LET r == T(X, t)
           e == IF is_rt_class(r.par.class) THEN None ELSE Some(FreshEntity(X, s, r))
       IN  [Admitted(X, s, t, e) EXCEPT !.q[s].run = t]

\* The entity of a task being queued for the first time.
NewEntity(X, s, r) ==
  IF is_rt_class(r.par.class) THEN None
  ELSE Some(rebind_fair_runtime(FreshEntity(X, s, r), r.frt, AdmittedClock(X, s, r.par).W))

\* The key of t in state r, and its eligibility.
KeyOf(r, seq) ==
  IF r.ent # None THEN fair_key(r.ent[1], seq)
  ELSE IF is_deadline_class(r.par.class) THEN deadline_key(r.dabs, seq)
  ELSE rt_key(r.par, seq)
EligOf(r) == IF r.ent # None THEN eligible_at(r.ent[1]) ELSE 0

\* next_fair_sequence and next_rt_sequence.
SeqFor(X, s, p) == IF is_rt_class(p.class) THEN Q(X, s).back ELSE Q(X, s).fseq
TakeSeq(X, s, p) ==
  IF is_rt_class(p.class) THEN [X EXCEPT !.q[s].back = @ + 1]
  ELSE [X EXCEPT !.q[s].fseq = @ + 1]
FrontSeq(X, s) == Q(X, s).front - 1
TakeFrontSeq(X, s) == [X EXCEPT !.q[s].front = @ - 1]

\* Link t under the key its state gives it.
LinkAt(X, s, t, seq) == InsertReady(X, s, t, KeyOf(T(X, t), seq), EligOf(T(X, t)))
LinkNew(X, s, t) == TakeSeq(LinkAt(X, s, t, SeqFor(X, s, T(X, t).par)), s, T(X, t).par)
LinkThrottled(X, s, t) ==
  LET r == T(X, t)
  IN  TakeSeq(InsertThrottled(X, s, t, deadline_key(r.drep, Q(X, s).back), r.drep), s, r.par)

(***************************************************************************)
(* Steps.  A call is made by the profile's callers, within its budget.     *)
(***************************************************************************)
Call(op) ==
  /\ op \in profile.ops
  /\ calls < profile.max
  /\ ~world.panic
  /\ calls' = calls + 1
  /\ UNCHANGED profile

Quiet == answer' = <<>>
NoHistory == UNCHANGED <<saved, stale>>
Live(s) == Q(world, s).live

\* A server that used up its budget is rescheduled before it is charged
\* again; the "late" profiles charge it again first.
Prompt(t) == "late" \in profile.ops \/ ~T(world, t).dthr

\* configure, configure_deadline, configure_fair_runtime_ns: on a virgin
\* task that nobody owns.
Configurable(t) == T(world, t).owner = UNOWNED /\ is_virgin(T(world, t))

Configure(t, p) ==
  /\ Call("configure")
  /\ Configurable(t)
  /\ world' = [world EXCEPT !.t[t].par = p,
                            !.t[t].rr = IF p.class = "rr" THEN RR_SLICE ELSE 0]
  /\ Quiet /\ NoHistory /\ UNCHANGED token

ConfigureDeadline(t, cfg) ==
  /\ Call("configure")
  /\ Configurable(t)
  /\ world' = [world EXCEPT !.t[t].cfg = cfg]
  /\ Quiet /\ NoHistory /\ UNCHANGED token

ConfigureFairRuntime(t, frt) ==
  /\ Call("configure")
  /\ Configurable(t)
  /\ frt # 0 => T(world, t).par.class \in {"normal", "batch"}
  /\ world' = [world EXCEPT !.t[t].frt = frt]
  /\ Quiet /\ NoHistory /\ UNCHANGED token

\* fork_seed of a runnable fair parent, installed on a virgin child.
ForkSeed(s, parent, child) ==
  LET e == T(world, parent).ent
  IN  /\ Call("fork")
      /\ T(world, parent).owner = s /\ e # None /\ ~is_sleeping(e[1])
      /\ Configurable(child) /\ T(world, child).seed = None
      /\ world' = [world EXCEPT !.t[child].seed =
                     Some(Clamp(lag_at(e[1], Q(world, s).clk.v), e[1].class))]
      /\ Quiet /\ NoHistory /\ UNCHANGED token

EnqueueNew(s, t) ==
  LET r == T(world, t)
      X == Admitted(world, s, t, NewEntity(world, s, r))
  IN  /\ Call("new") /\ Live(s)
      /\ r.owner = UNOWNED /\ CanBeAdmitted(world, s, t)
      /\ FreshKey(X, s, KeyOf(T(X, t), SeqFor(X, s, r.par)))
      /\ world' = LinkNew(X, s, t)
      /\ Quiet /\ NoHistory /\ UNCHANGED token

ReserveNewTask(s, t) ==
  LET r == T(world, t)
  IN  /\ Call("reserve") /\ Live(s)
      /\ r.owner = UNOWNED /\ is_virgin(r)
      /\ world' = TakeSeq([world EXCEPT !.t[t].owner = CONFIGURING], s, r.par)
      /\ token' = [token EXCEPT ![t] =
                     [kind |-> "reserve", s |-> s, seq |-> SeqFor(world, s, r.par),
                      par |-> r.par]]
      /\ Quiet /\ NoHistory

CommitReserved(t) ==
  LET k == token[t]
      s == k.s
      r == T(world, t)
      X == Admitted(world, s, t, NewEntity(world, s, r))
  IN  /\ Call("reserve")
      /\ k.kind = "reserve" /\ Live(s)
      /\ r.owner = CONFIGURING /\ r.par = k.par /\ CanBeAdmitted(world, s, t)
      /\ FreshKey(X, s, KeyOf(T(X, t), k.seq))
      /\ world' = LinkAt(X, s, t, k.seq)
      /\ token' = [token EXCEPT ![t] = [kind |-> "none"]]
      /\ Quiet /\ NoHistory

\* cancel, or the token's Drop.
CancelReservation(t) ==
  /\ Call("reserve")
  /\ token[t].kind = "reserve"
  /\ world' = [world EXCEPT !.t[t].owner = UNOWNED]
  /\ token' = [token EXCEPT ![t] = [kind |-> "none"]]
  /\ Quiet /\ NoHistory

(***************************************************************************)
(* Running, yielding, sleeping, waking, leaving.                           *)
(***************************************************************************)
\* pick_ready: a waiting deadline or real-time task first; otherwise the
\* earliest eligible fair deadline, after moving an idle clock forward to
\* the first eligibility when nothing is eligible yet.
PickNext(s) ==
  LET X == replenish_deadlines(world, s)
      q == Q(X, s)
      first == CHOOSE t \in q.ready : \A u \in q.ready : T(X, t).elig <= T(X, u).elig
      v == IF EligibleAt(X, s, q.clk.v) = {} THEN Hi(q.clk.v, T(X, first).elig) ELSE q.clk.v
      t == IF has_ready_rt(X, s) THEN Front(X, q.ready) ELSE Front(X, EligibleAt(X, s, v))
      c == IF has_ready_rt(X, s) THEN q.clk ELSE jump_to(q.clk, v)
  IN  /\ Call("run") /\ Live(s)
      /\ q.run = NoTask /\ q.ready # {}
      /\ world' = [Unlink(X, s, t) EXCEPT !.q[s].run = t, !.q[s].clk = c]
      /\ stale' = stale \ {t}
      /\ Quiet /\ UNCHANGED <<token, saved>>

\* put_running for a fair task: a yield starts a new request after the old
\* deadline, a preemption keeps the request unless it is used up.
PutFair(X, s, t, preempt) ==
  LET e == T(X, t).ent[1]
      c == Q(X, s).clk
      next == IF ~preempt THEN yield_request(e, c.W, c.v)
              ELSE IF remaining(e.req) = 0 THEN renew(e, c.W, c.v) ELSE e
  IN  LinkNew([X EXCEPT !.t[t].ent = Some(next)], s, t)

\* put_running for fifo and round-robin: a preempted task goes back to the
\* front, unless it is a round-robin task whose slice is over.
PutRt(X, s, t, preempt) ==
  LET r == T(X, t)
      front == preempt /\ (r.par.class = "fifo" \/ r.rr > 0)
  IN  IF front
      THEN TakeFrontSeq(InsertReady(X, s, t, rt_key(r.par, FrontSeq(X, s)), 0), s)
      ELSE LinkNew(WithT(X, t, RenewRr(r)), s, t)

PutPrev(s, t, preempt) ==
  LET X == settle(ensure_running(world, s, t), s, t)
      r == T(X, t)
      Y == IF is_deadline_class(r.par.class)
           THEN IF r.dthr THEN LinkThrottled(X, s, t) ELSE LinkNew(X, s, t)
           ELSE IF r.ent # None THEN PutFair(X, s, t, preempt)
           ELSE PutRt(X, s, t, preempt)
  IN  /\ Call("run") /\ Live(s)
      /\ CanRun(world, s, t)
      /\ world' = [Y EXCEPT !.q[s].run = NoTask]
      /\ Quiet /\ NoHistory /\ UNCHANGED token

Sleep(s, t) ==
  LET X == settle(ensure_running(world, s, t), s, t)
      r == T(X, t)
      v == Q(X, s).clk.v
      Y == IF is_rt_class(r.par.class)
           THEN [X EXCEPT !.t[t].rtsleep = TRUE]
           ELSE [X EXCEPT !.t[t].ent = Some(begin_sleep(r.ent[1], v)),
                          !.t[t].rtsleep = FALSE,
                          !.q[s].clk = checked_sub_weight(@, r.par.weight)]
  IN  /\ Call("sleep") /\ Live(s)
      /\ CanRun(world, s, t)
      /\ world' = [Y EXCEPT !.t[t].sleepv = v, !.t[t].owner = UNOWNED, !.q[s].run = NoTask]
      /\ Quiet /\ NoHistory /\ UNCHANGED token

Exit(s, t) ==
  LET X == settle(ensure_running(world, s, t), s, t)
      r == T(X, t)
      Y == IF is_deadline_class(r.par.class) THEN release_deadline(X, s, utilization(r.cfg)) ELSE X
      c == IF is_rt_class(r.par.class) THEN Q(X, s).clk
           ELSE checked_sub_weight(Q(X, s).clk, r.par.weight)
  IN  /\ Call("exit") /\ Live(s)
      /\ CanRun(world, s, t)
      /\ world' = [WithT(Y, t, [NoServer(Cleared(r)) EXCEPT !.owner = UNOWNED])
                     EXCEPT !.q[s].clk = c, !.q[s].run = NoTask]
      /\ Quiet /\ NoHistory /\ UNCHANGED token

WakeFair(X, s, t) ==
  LET r == T(X, t)
      v == Q(X, s).clk.v
      c == checked_add_weight(Q(X, s).clk, r.par.weight)
      e == wake_preserving_progress(r.ent[1], v)
      next == IF c.v # v THEN activate_preserving_progress(e, c.v) ELSE e
  IN  LinkNew([X EXCEPT !.t[t].ent = Some(next), !.q[s].clk = c], s, t)

\* A sleeping server keeps its budget and deadline.  One that is due, or
\* whose deadline has passed, wakes as a full server; one whose budget is
\* used up and that is not yet due goes to the throttled tree, with the
\* eligibility staged as 0.
WakeDeadline(X, s, t) ==
  LET r == T(X, t)
      q == Q(X, s)
      renewed == IF r.dleft = 0 THEN r.drep <= q.now ELSE r.dabs <= q.now
  IN  IF renewed THEN LinkNew(WithT(X, t, Server(r, q.now)), s, t)
      ELSE IF r.dleft = 0
      THEN TakeSeq(InsertThrottled([X EXCEPT !.t[t].dthr = TRUE], s, t,
                                   deadline_key(r.drep, q.back), 0), s, r.par)
      ELSE LinkNew(X, s, t)

Wakeup(s, t) ==
  LET r == T(world, t)
      v == Q(world, s).clk.v
      dorm == IF r.dorm = None THEN None ELSE Some(end_sleep_frozen(r.dorm[1], v))
      awake == [r EXCEPT !.owner = s, !.rtsleep = FALSE, !.sleepv = Awake]
      X == WithT(world, t, awake)
      Y == WithT(world, t, [RenewRr(awake) EXCEPT !.dorm = dorm])
  IN  /\ Call("sleep") /\ Live(s)
      /\ r.owner = UNOWNED /\ r.mig = None /\ r.cpu = s
      /\ \/ /\ r.ent # None
            /\ is_sleeping(r.ent[1]) /\ ~r.rtsleep /\ CanWakeAt(r.ent[1], v)
            /\ r.ent[1].class = r.par.class /\ r.ent[1].weight = r.par.weight
            /\ world' = WakeFair(X, s, t)
         \/ /\ r.ent = None
            /\ is_rt_class(r.par.class) /\ r.rtsleep
            /\ r.dorm # None => CanWakeAt(r.dorm[1], v)
            /\ world' = IF is_deadline_class(r.par.class)
                        THEN WakeDeadline(Y, s, t) ELSE LinkNew(Y, s, t)
      /\ Quiet /\ NoHistory /\ UNCHANGED token

\* The tree a task's own flag says it is linked in.
Detachable(X, s, t) ==
  t \in (IF T(X, t).dthr THEN Q(X, s).thr ELSE Q(X, s).ready)

RemoveReady(s, t) ==
  LET r == T(world, t)
      X == Unlink(world, s, t)
      Y == IF is_deadline_class(r.par.class) THEN release_deadline(X, s, utilization(r.cfg)) ELSE X
      c == IF r.ent = None THEN Q(X, s).clk ELSE checked_sub_weight(Q(X, s).clk, r.par.weight)
  IN  /\ Call("remove")
      /\ r.owner = s /\ Q(world, s).run # t /\ Detachable(world, s, t)
      /\ world' = [WithT(Y, t, [Cleared(r) EXCEPT !.owner = UNOWNED]) EXCEPT !.q[s].clk = c]
      /\ stale' = stale \ {t}
      /\ Quiet /\ UNCHANGED <<token, saved>>

(***************************************************************************)
(* Service.                                                                *)
(***************************************************************************)
Answer(kind, s, r) == answer' = <<kind, s, r>>

TaskTick(s, t) ==
  LET X == ensure_running(world, s, t)
      out == IF is_deadline_class(T(X, t).par.class)
             THEN account_deadline_runtime(replenish_deadlines(X, s), s, t, 1)
             ELSE Serve(X, s, t, 1, 0)
  IN  /\ Call("tick") /\ Live(s)
      /\ CanRun(world, s, t) /\ Prompt(t)
      /\ world' = out.x
      /\ Answer("serve", s, out.r)
      /\ NoHistory /\ UNCHANGED token

\* An answer is given only for whole periods (or deadline time).
AccountRuntime(s, t, ns) ==
  LET X == ensure_running(world, s, t)
      out == account_runtime(X, s, t, ns)
      whole == is_deadline_class(T(X, t).par.class) \/ T(X, t).rem + ns >= PERIOD
  IN  /\ Call("account") /\ Live(s)
      /\ CanRun(world, s, t) /\ FractionOwned(T(X, t)) /\ Prompt(t)
      /\ world' = out.x
      /\ IF whole THEN Answer("serve", s, out.r) ELSE Quiet
      /\ NoHistory /\ UNCHANGED token

\* rebase_deadline_clock: global monotonic time reaches an idle queue.
RebaseDeadlineClock(s, ns) ==
  /\ Call("rebase") /\ Live(s)
  /\ world' = replenish_deadlines([world EXCEPT !.q[s].now = @ + ns], s)
  /\ Quiet /\ NoHistory /\ UNCHANGED token

(***************************************************************************)
(* Reconfiguration.  Deadline configurations are valid ones, so the        *)
(* InvalidParameters refusals do not arise.                                *)
(***************************************************************************)
next_rr_budget(old, new, left) ==
  IF new.class # "rr" THEN 0 ELSE IF old.class = "rr" THEN left ELSE RR_SLICE

\* What every published change of parameters does to the task's own fields.
Published(r, p, entity, dormant, now) ==
  LET kept == [r EXCEPT !.par = p, !.ent = entity, !.dorm = dormant,
                        !.rr = next_rr_budget(r.par, p, r.rr),
                        !.rrq = IF r.par.class = "rr" /\ p.class = "rr" THEN @ ELSE 0]
      unfrac == IF r.frac # 0 /\ Tuple(r.par) # Tuple(p)
                THEN [kept EXCEPT !.frac = 0, !.fown = NoTuple] ELSE kept
  IN  IF is_deadline_class(p.class) THEN Server(unfrac, now) ELSE NoServer(unfrac)

\* active_reconfigured_state: <<entity, dormant>> of a runnable task.
active_reconfigured_state(r, p, c) ==
  LET oldFair == ~is_rt_class(r.par.class)
      newFair == ~is_rt_class(p.class)
      Rebound(e) == Some(rebind_fair_runtime(e, r.frt, c.W))
  IN  IF oldFair /\ newFair
      THEN <<Rebound(reconfigure(r.ent[1], p.class, p.weight, c.W, c.v)), None>>
      ELSE IF oldFair THEN <<None, Some(freeze_at(r.ent[1], c.v))>>
      ELSE IF ~newFair THEN <<None, r.dorm>>
      ELSE IF r.dorm # None
      THEN <<Rebound(reconfigure_frozen(r.dorm[1], p.class, p.weight, c.W, c.v)), None>>
      ELSE <<Rebound(with_lag(p.class, p.weight, c.W, c.v, 0)), None>>

\* sleeping_reconfigured_state: the same for a sleeper, anchored where it
\* fell asleep.
sleeping_reconfigured_state(r, p, c) ==
  LET oldFair == ~is_rt_class(r.par.class)
      newFair == ~is_rt_class(p.class)
      anchor == IF r.sleepv = Awake THEN c.v ELSE r.sleepv
      total == c.W + p.weight
      Rebound(e) == Some(rebind_fair_runtime(e, r.frt, total))
      Asleep(e) == IF is_sleeping(e) THEN e ELSE begin_sleep_frozen(e, anchor)
  IN  IF oldFair /\ newFair
      THEN <<Rebound(reconfigure_sleeping(r.ent[1], p.class, p.weight, total)), None>>
      ELSE IF oldFair THEN <<None, r.ent>>
      ELSE IF ~newFair THEN <<None, r.dorm>>
      ELSE IF r.dorm # None
      THEN <<Rebound(reconfigure_sleeping(Asleep(r.dorm[1]), p.class, p.weight, total)), None>>
      ELSE <<Rebound(begin_sleep(with_lag(p.class, p.weight, total, anchor, 0), anchor)), None>>

\* set_task_params_impl on a task nobody owns: virgin, or asleep.  A sleeper
\* keeps whatever the deadline ledgers hold for it.
SetUnowned(X, s, t, p) ==
  LET r == T(X, t)
      out == sleeping_reconfigured_state(r, p, Q(X, s).clk)
      virgin == [r EXCEPT !.par = p, !.rr = IF p.class = "rr" THEN RR_SLICE ELSE 0,
                          !.seed = IF is_rt_class(p.class) THEN None ELSE @]
  IN  IF is_virgin(r) THEN WithT(X, t, virgin)
      ELSE WithT(X, t, [Published(r, p, out[1], out[2], Q(X, s).now)
                          EXCEPT !.rtsleep = is_rt_class(p.class)])

\* The aggregate weight changes once, from the old tuple to the new one.
ReplacedClock(c, old, new) ==
  LET W == (c.W - (IF is_rt_class(old.class) THEN 0 ELSE old.weight))
             + (IF is_rt_class(new.class) THEN 0 ELSE new.weight)
  IN  set_total_weight(c, W)

CanSetOwned(X, s, t, p) ==
  LET r == T(X, t)
  IN  /\ Q(X, s).run = t \/ Detachable(X, s, t)
      /\ CanReplace(X, s, Util(r.par, r.cfg), Util(p, r.cfg))
SetOwned(X, s, t, p) ==
  LET r == T(X, t)
      c == ReplacedClock(Q(X, s).clk, r.par, p)
      out == active_reconfigured_state(r, p, c)
      next == [Published(r, p, out[1], out[2], Q(X, s).now) EXCEPT !.rtsleep = FALSE]
      Y == [replace_deadline(X, s, Util(r.par, r.cfg), Util(p, r.cfg)) EXCEPT !.q[s].clk = c]
      Z == WithT(Unlink(Y, s, t), t, next)
  IN  IF Q(X, s).run = t THEN Z ELSE LinkNew(Z, s, t)

\* A sleeper moved into or out of Deadline: the ledgers are not adjusted, so
\* only the profiles that ask for it make this call.
Crosses(r, p) == ~is_virgin(r) /\ is_deadline_class(r.par.class) # is_deadline_class(p.class)

\* set_task_params, and set_task_params_with_runtime, which settles the
\* running task first and accepts a remaining conversion residue.
SetTaskParams(s, t, p, runtime) ==
  LET running == Q(world, s).run = t
      X == IF runtime /\ running THEN settle(world, s, t) ELSE world
      r == T(X, t)
  IN  /\ Call("params") /\ Live(s)
      /\ r.rem = 0 /\ (runtime \/ r.frac = 0)
      /\ \/ /\ r.owner = UNOWNED /\ r.mig = None
            /\ r.cpu = s
            /\ Crosses(r, p) => "cross" \in profile.ops
            /\ world' = SetUnowned(X, s, t, p)
            /\ Quiet
         \/ /\ r.owner = s /\ CanSetOwned(X, s, t, p)
            /\ world' = SetOwned(X, s, t, p)
            /\ Answer("update", s, post_update_outcome(world', s))
      /\ NoHistory /\ UNCHANGED token

\* set_priority: a fair task gets another nice value.
SetPriority(s, t, p) ==
  /\ p.class = T(world, t).par.class /\ ~is_rt_class(p.class)
  /\ SetTaskParams(s, t, p, TRUE)

\* set_task_deadline_config_with_runtime: a new reservation for a deadline
\* task; a virgin one only stores it.
SetDeadlineConfig(s, t, cfg) ==
  LET r == T(world, t)
      old == utilization(r.cfg)
      new == utilization(cfg)
      next == Server([r EXCEPT !.cfg = cfg], Q(world, s).now)
      X == WithT(replace_deadline(world, s, old, new), t, next)
  IN  /\ Call("config") /\ Live(s)
      /\ is_deadline_class(r.par.class) /\ r.mig = None /\ r.cpu = s
      /\ \/ /\ r.owner = UNOWNED /\ ~r.rtsleep
            /\ world' = [world EXCEPT !.t[t].cfg = cfg]
            /\ Quiet
         \/ /\ r.owner = UNOWNED /\ r.rtsleep
            /\ CanReplace(world, s, old, new)
            /\ world' = [X EXCEPT !.t[t].key = deadline_key(next.dabs, @[3]), !.t[t].elig = 0]
            /\ Quiet
         \/ /\ r.owner = s
            /\ CanReplace(world, s, old, new)
            /\ Q(world, s).run = t \/ Detachable(world, s, t)
            /\ world' = IF Q(world, s).run = t THEN X ELSE LinkNew(Unlink(X, s, t), s, t)
            /\ Answer("update", s, post_update_outcome(world', s))
      /\ NoHistory /\ UNCHANGED token

\* set_task_fair_runtime_with_runtime.
SetFairRuntime(s, t, frt) ==
  LET running == Q(world, s).run = t
      X == IF running THEN settle(world, s, t) ELSE world
      r == T(X, t)
      c == Q(X, s).clk
      next == [r EXCEPT !.frt = frt, !.ent = Some(rebind_fair_runtime(@[1], frt, c.W))]
  IN  /\ Call("runtime") /\ Live(s)
      /\ ~is_rt_class(r.par.class) /\ (frt # 0 => r.par.class # "idle") /\ r.mig = None /\ r.cpu = s
      /\ \/ /\ r.owner = UNOWNED
            /\ r.ent # None => (frt # 0 \/ c.W > 0)
            /\ world' = IF r.ent = None THEN [X EXCEPT !.t[t].frt = frt] ELSE WithT(X, t, next)
         \/ /\ r.owner = s
            /\ running \/ t \in Q(X, s).ready
            /\ world' = IF running THEN WithT(X, t, next)
                        ELSE LinkNew(WithT(Unlink(X, s, t), t, next), s, t)
      /\ Quiet /\ NoHistory /\ UNCHANGED token

\* stage_task_deadline_config followed at once by the change of class, as the
\* task layer does it for a task that enters Deadline.
SetTaskDeadline(s, t, p, cfg) ==
  LET running == Q(world, s).run = t
      X == [IF running THEN settle(world, s, t) ELSE world EXCEPT !.t[t].cfg = cfg]
      r == T(X, t)
  IN  /\ Call("stage") /\ Live(s)
      /\ ~is_deadline_class(r.par.class) /\ is_deadline_class(p.class)
      /\ r.owner = s /\ r.rem = 0
      /\ CanSetOwned(X, s, t, p)
      /\ world' = SetOwned(X, s, t, p)
      /\ Answer("update", s, post_update_outcome(world', s))
      /\ NoHistory /\ UNCHANGED token

(***************************************************************************)
(* Migration.  A detached task holds one record of what its source knew;   *)
(* the token is only the right to land it.                                 *)
(***************************************************************************)
\* History: what must arrive at the destination, relative to its clock.
Carried(r, c) ==
  [par |-> r.par, frt |-> r.frt, cfg |-> r.cfg, rem |-> r.rem, frac |-> r.frac,
   fown |-> r.fown, dorm |-> r.dorm, dleft |-> r.dleft, dabs |-> r.dabs,
   drep |-> r.drep, dthr |-> r.dthr,
   rr |-> IF r.par.class = "rr" /\ r.rr > 0 THEN <<r.rr, r.rrq>> ELSE None,
   fair |-> IF r.ent = None THEN None
            ELSE <<lag_at(r.ent[1], c.v), r.ent[1].req.deadline - c.v,
                   r.ent[1].req.q, r.ent[1].req.num, r.ent[1].req.den>>]

MigrationState(s, r, c, detached, origin) ==
  [src |-> s, par |-> r.par, ent |-> r.ent, sclk |-> c, dclk |-> detached,
   snap |-> IF r.ent = None THEN None ELSE Some(migration_snapshot(r.ent[1], c.v)),
   key |-> r.key, elig |-> r.elig, rr |-> r.rr, rem |-> r.rem, frac |-> r.frac,
   fown |-> r.fown, rrq |-> r.rrq, dorm |-> r.dorm, dleft |-> r.dleft, dabs |-> r.dabs,
   drep |-> r.drep, dthr |-> r.dthr, dom |-> s \in InDomain, origin |-> origin]

stage_migration_state(r, m) ==
  [r EXCEPT !.ent = None, !.rem = 0, !.mig = Some(m), !.dorm = None,
            !.rtsleep = FALSE, !.sleepv = Awake, !.owner = CONFIGURING]


\* The common part of begin_ready_migration and begin_running_migration.  A
\* reservation in a shared domain is kept there through the handoff.
Detach(X, s, t, origin) ==
  LET r == T(X, t)
      c == Q(X, s).clk
      d == IF r.ent = None THEN c ELSE checked_sub_weight(c, r.ent[1].weight)
      Y == WithT(X, t, stage_migration_state(r, MigrationState(s, r, c, d, origin)))
      u == Util(r.par, r.cfg)
      Z == IF s \in InDomain THEN release_deadline_local(Y, s, u) ELSE release_deadline(Y, s, u)
  IN  [Z EXCEPT !.q[s].clk = d]

Detaches(s, t, X, origin) ==
  /\ world' = Detach(X, s, t, origin)
  /\ token' = [token EXCEPT ![t] = [kind |-> "migrate", parked |-> FALSE]]
  /\ saved' = [saved EXCEPT ![t] = Some(Carried(T(X, t), Q(X, s).clk))]
  /\ Quiet /\ UNCHANGED stale

BeginReadyMigration(s, t) ==
  /\ Call("migrate") /\ Live(s)
  /\ T(world, t).owner = s /\ Q(world, s).run # t /\ Detachable(world, s, t)
  /\ Detaches(s, t, Unlink(world, s, t), "ready")

BeginRunningMigration(s, t) ==
  /\ Call("migrate") /\ Live(s)
  /\ CanRun(world, s, t)
  /\ Detaches(s, t, [settle(ensure_running(world, s, t), s, t) EXCEPT !.q[s].run = NoTask],
              "running")

\* park, cancel and the token's Drop all leave the record with the task.
ParkMigration(t) ==
  /\ Call("migrate")
  /\ token[t].kind = "migrate"
  /\ world' = [world EXCEPT !.t[t].owner = UNOWNED]
  /\ token' = [token EXCEPT ![t] = [kind |-> "none"]]
  /\ Quiet /\ NoHistory

CanResume(t) == T(world, t).owner = UNOWNED /\ T(world, t).mig # None
ResumeMigration(t) ==
  /\ Call("migrate")
  /\ CanResume(t)
  /\ world' = [world EXCEPT !.t[t].owner = CONFIGURING]
  /\ token' = [token EXCEPT ![t] = [kind |-> "migrate", parked |-> TRUE]]
  /\ Quiet /\ NoHistory

\* The fields restored from the record; a round-robin task whose slice was
\* over starts a new one.
Landed(r, s, entity, renewRr) ==
  LET m == r.mig[1]
  IN  [r EXCEPT !.owner = s, !.cpu = s, !.ent = entity, !.rem = m.rem, !.frac = m.frac,
                !.fown = m.fown, !.dorm = m.dorm, !.dleft = m.dleft, !.dabs = m.dabs,
                !.drep = m.drep, !.dthr = m.dthr,
                !.rr = IF renewRr THEN RR_SLICE ELSE m.rr,
                !.rrq = IF renewRr THEN 0 ELSE m.rrq,
                !.mig = None, !.rtsleep = FALSE, !.seed = None, !.sleepv = Awake]

\* A retained reservation can only move within the domain that holds it.
CanReadmit(X, s, t) ==
  LET m == T(X, t).mig[1]
      u == Util(m.par, T(X, t).cfg)
  IN  /\ m.dom => s \in InDomain
      /\ u # 0 => IF m.dom THEN CanAdmitLocal(X, s, u) ELSE CanAdmit(X, s, u)
Readmit(X, s, t) ==
  LET m == T(X, t).mig[1]
      u == Util(m.par, T(X, t).cfg)
  IN  IF m.dom THEN admit_deadline_local(X, s, u) ELSE admit_deadline(X, s, u)

\* commit_migration on another queue: the lag, and the position of the
\* request relative to virtual time, are rebuilt on the new clock.
CanCommit(X, s, t) ==
  LET m == T(X, t).mig[1]
  IN  /\ m.src # s /\ T(X, t).par = m.par
      /\ m.snap # None => CanReconstruct(m.snap[1])
      /\ CanReadmit(X, s, t)
Committed(X, s, t) ==
  LET r == T(X, t)
      m == r.mig[1]
      c == IF m.snap = None THEN Q(X, s).clk
           ELSE checked_add_weight(Q(X, s).clk, m.snap[1].e.weight)
      entity == IF m.snap = None THEN None ELSE Some(from_migration(m.snap[1], c.v))
      Y == WithT(Readmit(X, s, t), t, Landed(r, s, entity, m.par.class = "rr" /\ m.rr = 0))
      Z == [Y EXCEPT !.q[s].clk = c]
  IN  IF m.dthr THEN LinkThrottled(Z, s, t) ELSE LinkNew(Z, s, t)

\* rollback_migration on the source: bit for bit when its clock has not
\* moved, otherwise rebuilt under the old sequence number.
Intact(X, s, m) == Q(X, s).clk = m.dclk
CanRollback(X, s, t) ==
  LET m == T(X, t).mig[1]
  IN  /\ m.src = s /\ T(X, t).par = m.par
      /\ (~Intact(X, s, m) /\ m.snap # None) => CanReconstruct(m.snap[1])
      /\ CanReadmit(X, s, t)
RolledBack(X, s, t) ==
  LET r == T(X, t)
      m == r.mig[1]
      c == IF Intact(X, s, m) THEN m.sclk
           ELSE IF m.snap = None THEN Q(X, s).clk
           ELSE checked_add_weight(Q(X, s).clk, m.snap[1].e.weight)
      entity == IF Intact(X, s, m) THEN m.ent
                ELSE IF m.snap = None THEN None ELSE Some(from_migration(m.snap[1], c.v))
      key == IF Intact(X, s, m) \/ m.snap = None THEN m.key ELSE fair_key(entity[1], m.key[3])
      elig == IF Intact(X, s, m) \/ m.snap = None THEN m.elig ELSE eligible_at(entity[1])
      renewRr == m.par.class = "rr" /\ m.origin = "running" /\ m.rr = 0
      Y == WithT(Readmit(X, s, t), t, Landed(r, s, entity, renewRr))
      Z == [Y EXCEPT !.q[s].clk = c]
  IN  IF m.dthr THEN InsertThrottled(Z, s, t, deadline_key(m.drep, m.key[3]), m.drep)
      ELSE InsertReady(Z, s, t, key, elig)
RollbackKeyFresh(X, s, t) == FreshKey(X, s, T(RolledBack(X, s, t), t).key)

\* Landing t on s: back where it came from, or on another queue.  A queue
\* that keeps its key from the running task's last stay is remembered.
CanLand(X, s, t) ==
  \/ CanCommit(X, s, t)
  \/ CanRollback(X, s, t) /\ RollbackKeyFresh(X, s, t)
Land(X, s, t) ==
  /\ Live(s)
  /\ CanLand(X, s, t)
  /\ world' = IF T(X, t).mig[1].src = s THEN RolledBack(X, s, t) ELSE Committed(X, s, t)
  /\ token' = [token EXCEPT ![t] = [kind |-> "none"]]
  /\ saved' = [saved EXCEPT ![t] = None]
  /\ stale' = IF T(X, t).mig[1].src # s THEN stale \ {t}
              ELSE IF T(X, t).mig[1].origin = "running" THEN stale \union {t} ELSE stale
  /\ Quiet

CommitMigration(s, t) ==
  /\ Call("migrate")
  /\ token[t].kind = "migrate" /\ T(world, t).mig[1].src # s
  /\ Land(world, s, t)

RollbackMigration(s, t) ==
  /\ Call("migrate")
  /\ token[t].kind = "migrate" /\ T(world, t).mig[1].src = s
  /\ Land(world, s, t)

\* A refused landing leaves the claim with a live token and gives up that of
\* a token that came from a parked task.
RefuseMigration(s, t) ==
  /\ Call("migrate")
  /\ token[t].kind = "migrate" /\ token[t].parked
  /\ Live(s) /\ ~CanLand(world, s, t)
  /\ world' = [world EXCEPT !.t[t].owner = UNOWNED]
  /\ token' = [token EXCEPT ![t] = [kind |-> "none"]]
  /\ Quiet /\ NoHistory

\* enqueue_migrated_task: resume and land in one call.
EnqueueMigrated(s, t) ==
  /\ Call("migrate")
  /\ CanResume(t)
  /\ Land([world EXCEPT !.t[t].owner = CONFIGURING], s, t)

\* The scheduler's Drop: ready tasks and the running task become virgin, the
\* throttled ones keep their owner word.
DropScheduler(s) ==
  LET q == Q(world, s)
      Freed(r) == [Cleared(r) EXCEPT !.rr = 0, !.owner = UNOWNED]
      gone == q.ready \union {q.run}
  IN  /\ Call("drop") /\ Live(s)
      /\ world' = [world EXCEPT
                     !.t = [t \in Tasks |-> IF t \in gone THEN Freed(@[t]) ELSE @[t]],
                     !.q[s] = [NewSched EXCEPT !.live = FALSE]]
      /\ stale' = stale \ gone
      /\ Quiet /\ UNCHANGED <<token, saved>>

(***************************************************************************)
(* Specification.                                                          *)
(***************************************************************************)
Enqueued(X, s, t) == LinkNew(Admitted(X, s, t, NewEntity(X, s, T(X, t))), s, t)

\* A profile names the parameters and configurations of its tasks, the tasks
\* already queued on the home queue, the calls made, how many, and the
\* parameters that calls change to.
Start(p) ==
  LET fresh == [t |-> [t \in Tasks |-> NewTask(p.par[t], p.cfg[t])],
                q |-> [s \in Scheds |-> NewSched], dom |-> 0, panic |-> FALSE]
  IN  FoldSet(LAMBDA t, X : Enqueued(X, Home, t), fresh, p.start)

InitIn(S) ==
  /\ profile \in S
  /\ world = Start(profile)
  /\ token = [t \in Tasks |-> [kind |-> "none"]]
  /\ answer = <<>>
  /\ saved = [t \in Tasks |-> None]
  /\ stale = {}
  /\ calls = 0

Init == InitIn(Profiles)

Next ==
  \/ \E t \in Tasks, p \in profile.to : Configure(t, p)
  \/ \E t \in Tasks, c \in Configs : ConfigureDeadline(t, c)
  \/ \E t \in Tasks, n \in Runtimes : ConfigureFairRuntime(t, n)
  \/ \E s \in Scheds, t, u \in Tasks : ForkSeed(s, t, u)
  \/ \E s \in Scheds, t \in Tasks : EnqueueNew(s, t)
  \/ \E s \in Scheds, t \in Tasks : ReserveNewTask(s, t)
  \/ \E t \in Tasks : CommitReserved(t)
  \/ \E t \in Tasks : CancelReservation(t)
  \/ \E s \in Scheds : PickNext(s)
  \/ \E s \in Scheds, t \in Tasks, b \in BOOLEAN : PutPrev(s, t, b)
  \/ \E s \in Scheds, t \in Tasks : Sleep(s, t)
  \/ \E s \in Scheds, t \in Tasks : Exit(s, t)
  \/ \E s \in Scheds, t \in Tasks : Wakeup(s, t)
  \/ \E s \in Scheds, t \in Tasks : RemoveReady(s, t)
  \/ \E s \in Scheds, t \in Tasks : TaskTick(s, t)
  \/ \E s \in Scheds, t \in Tasks, n \in Elapsed : AccountRuntime(s, t, n)
  \/ \E s \in Scheds, n \in Elapsed : RebaseDeadlineClock(s, n)
  \/ \E s \in Scheds, t \in Tasks, p \in profile.to, b \in BOOLEAN : SetTaskParams(s, t, p, b)
  \/ \E s \in Scheds, t \in Tasks, p \in profile.to : SetPriority(s, t, p)
  \/ \E s \in Scheds, t \in Tasks, c \in Configs : SetDeadlineConfig(s, t, c)
  \/ \E s \in Scheds, t \in Tasks, p \in profile.to, c \in Configs : SetTaskDeadline(s, t, p, c)
  \/ \E s \in Scheds, t \in Tasks, n \in Runtimes : SetFairRuntime(s, t, n)
  \/ \E s \in Scheds, t \in Tasks : BeginReadyMigration(s, t)
  \/ \E s \in Scheds, t \in Tasks : BeginRunningMigration(s, t)
  \/ \E t \in Tasks : ParkMigration(t)
  \/ \E t \in Tasks : ResumeMigration(t)
  \/ \E s \in Scheds, t \in Tasks : CommitMigration(s, t)
  \/ \E s \in Scheds, t \in Tasks : RollbackMigration(s, t)
  \/ \E s \in Scheds, t \in Tasks : RefuseMigration(s, t)
  \/ \E s \in Scheds, t \in Tasks : EnqueueMigrated(s, t)
  \/ \E s \in Scheds : DropScheduler(s)

Spec == Init /\ [][Next]_vars

(***************************************************************************)
(* Properties.                                                             *)
(***************************************************************************)
Owned(X, s) == {t \in Tasks : T(X, t).owner = s}
FairOf(X, s) == {t \in Owned(X, s) : T(X, t).ent # None}
SumOver(S, f(_)) == FoldSet(LAMBDA x, n : n + f(x), 0, S)
LiveScheds(X) == {s \in Scheds : Q(X, s).live}

\* A sleeping server keeps its reservation on the queue it sleeps on.
Reserves(X, s, t) ==
  \/ T(X, t).owner = s
  \/ T(X, t).owner = UNOWNED /\ T(X, t).rtsleep /\ T(X, t).cpu = s
UtilOf(X, t) == Util(T(X, t).par, T(X, t).cfg)

QueueConsistent(X, s) ==
  LET q == Q(X, s)
  IN  /\ q.clk.W = SumOver(FairOf(X, s), LAMBDA t : T(X, t).par.weight)
      /\ q.clk.rem >= 0 /\ (q.clk.rem < q.clk.W \/ q.clk.rem = 0)
      /\ q.util = SumOver({t \in Tasks : Reserves(X, s, t)}, LAMBDA t : UtilOf(X, t))
      /\ q.util <= UTIL_SCALE
      /\ q.ready \union q.thr \union ({q.run} \ {NoTask}) = Owned(X, s)
      /\ q.ready \intersect q.thr = {} /\ q.run \notin q.ready \union q.thr
      /\ \A t \in q.ready \union q.thr : Detachable(X, s, t)
      /\ \A t, u \in q.ready : t # u => T(X, t).key # T(X, u).key
      /\ \A t \in q.ready \ stale :
           /\ T(X, t).key = KeyOf(T(X, t), T(X, t).key[3])
           /\ T(X, t).elig = EligOf(T(X, t))
      /\ \A t \in Owned(X, s) : (T(X, t).ent # None) = ~is_rt_class(T(X, t).par.class)

DomainConsistent(X) ==
  X.dom = SumOver({t \in Tasks : \/ \E s \in InDomain : Reserves(X, s, t)
                                 \/ T(X, t).mig # None /\ T(X, t).mig[1].dom},
                  LAMBDA t : UtilOf(X, t))

\* The queue a fair sleeper will be woken on accepts the wake-up: its virtual
\* time has reached the instant the task fell asleep at (enqueue_wakeup, and
\* bounded_sleeper_decay's refusal of a negative sleep).
SleeperCanWake ==
  \A t \in Tasks :
    LET r == T(world, t)
    IN  (r.owner = UNOWNED /\ r.ent # None /\ is_sleeping(r.ent[1]))
          => CanWakeAt(r.ent[1], Q(world, r.cpu).clk.v)

\* No expect() of the scheduler fails: runtime accounting finds the running
\* server with a budget to charge, and the domain holds what is given back.
NoPanic == ~world.panic


\* Lag plus the clock's residue, over the runnable fair tasks of a queue.
Balance(X, s) ==
  Q(X, s).clk.rem + SumOver(FairOf(X, s), LAMBDA t : lag_at(T(X, t).ent[1], Q(X, s).clk.v))

SameFair(X, Y, s) ==
  /\ FairOf(X, s) = FairOf(Y, s)
  /\ \A t \in FairOf(X, s) : T(X, t).par.weight = T(Y, t).par.weight

\* Service only moves lag between the tasks of a queue: ticks, runtime
\* samples, settlements, yields, renewals and changes of request size leave
\* the sum of the lags and the clock's residue as they were.  (Arrivals and
\* departures change the set, and an idle clock may jump to the first
\* eligible task when it picks.)
LagConserved ==
  [][\A s \in Scheds :
       \/ ~SameFair(world, world', s)
       \/ Q(world, s).run = NoTask /\ Q(world', s).run # NoTask
       \/ Balance(world, s) = Balance(world', s)]_vars

\* A migration delivers what it took: the task lands, on any queue and after
\* any detour through parking, refusals and retries, with the lag, request
\* position and progress, runtime remainder, slice and server state it had
\* when it was detached, relative to the clock it lands on.
StateCarried ==
  [][\A t \in Tasks :
       (saved[t] # None /\ saved'[t] = None) =>
         LET now == Carried(T(world', t), Q(world', T(world', t).owner).clk)
             was == saved[t][1]
         IN  \/ now = was
             \/ was.rr = None /\ [now EXCEPT !.rr = None] = was]_vars

\* t outranks the running task r: by class, by real-time priority or
\* deadline, by the end of a served slice or request, or (both fair) by
\* being eligible with an earlier deadline.  v is the virtual time eligibility of
\* the waiting tasks is judged at.
Outranks(X, s, t, v, served) ==
  LET r == T(X, Q(X, s).run)
      k == T(X, t).key
      e == r.ent[1]
  IN  IF is_deadline_class(r.par.class) THEN k[1] = DEADLINE_RANK /\ k[2] < r.dabs
      ELSE IF is_rt_class(r.par.class)
      THEN \/ k[1] = DEADLINE_RANK
           \/ k[1] = RT_RANK /\ k[2] < rt_order(r.par.prio)
           \/ k[1] = RT_RANK /\ k[2] = rt_order(r.par.prio) /\ served /\ r.par.class = "rr" /\ r.rr = 0
      ELSE \/ k[1] # FAIR_RANK
           \/ served /\ is_exhausted(e.req)
           \/ is_eligible(e, Q(X, s).clk.v) /\ T(X, t).elig <= v /\ k[2] < e.req.deadline
           \/ ~is_eligible(e, Q(X, s).clk.v) /\ T(X, t).elig <= Q(X, s).clk.v

\* When a tick, a runtime sample of at least a period or a parameter change
\* answers that the running task may go on, no waiting task outranks it.  A
\* service step judges the waiting tasks at the virtual time it started from.
AnswerRight ==
  [][(answer' # <<>> /\ ~answer'[3]) =>
       LET s == answer'[2]
           served == answer'[1] = "serve"
           v == IF served THEN Q(world, s).clk.v ELSE Q(world', s).clk.v
       IN  Q(world', s).run # NoTask =>
             \A t \in Q(world', s).ready \ stale : ~Outranks(world', s, t, v, served)]_vars
=============================================================================
