------------------------------- MODULE MCUnits -------------------------------
(* Small instances of the units that are whole in themselves: the CFS      *)
(* scheduler (Cfs), the list schedulers (ReadyList), the EEVDF ready tree  *)
(* and its arithmetic (EevdfTree, EevdfArith), the end of a task           *)
(* (Recycler), the classic-BPF verifier (CbpfProgram), the PMU session     *)
(* (Pmu) and a CPU's event trace (EventTrace).  They share no state: a     *)
(* behaviour steps one of them, `part`, chosen at the start, and the       *)
(* variables of the others stay 0.                                         *)
EXTENDS CbpfOpcodes, Integers, TLC

CONSTANTS
  t1, t2, t3, j1, Tasks, Queues, NoTask, Params, Setup, NICE_0, RR_SLICE, RT_PRIORITY_MAX,
  SEQ_MAX, MaxTicks, MaxCalls, ListTasks, MAX_TIME_SLICE,
  Nodes, Key, Times, Home, Roaming, MaxEarly,
  LimbBits, WordSet, Factors,
  Joiners, target, RetryMax,
  W, SCRATCH_WORDS, MAX_INSTRUCTIONS, Ancillary, Programs, Lengths,
  Counters, Events, Requestable, Capacity, Recorders, MaxCount, MaxRecords, MaxResets,
  TRACE_DEPTH, SEQUENCES, Script, MaxTimers

VARIABLES
  part, task, queue, run, phase, token, moved, calls, tree, op, args, out, policy, list, owner, slice, lrun, asked,
  state, code, oncpu, wait, exiting, head, tail, len, next, queued, faults,
  pending, waiter, ticks, delay, gc, awake, jpc, woken, answer,
  program, at, plen, pc, steps, accumulator, index, scratch, written, value,
  held, counting, open, slots, running, refused, started,
  enabled, count, saturated, rpc, records, added, read, resets, half,
  counters, sequence, published, slot, recorded, writer, reading, reader

C == INSTANCE Cfs
T == INSTANCE EevdfTree WITH s <- tree, Trees <- Queues
A == INSTANCE EevdfArith
L == INSTANCE ReadyList WITH Tasks <- ListTasks, run <- lrun
R == INSTANCE Recycler WITH None <- NoTask
B == INSTANCE CbpfProgram WITH len <- plen
P == INSTANCE Pmu
E == INSTANCE EventTrace

cfsVars == <<task, queue, run, phase, token, moved, calls>>
treeVars == <<tree>>
arithVars == <<op, args, out>>
listVars == <<policy, list, owner, slice, lrun, asked>>
exitVars == <<state, code, oncpu, wait, exiting, head, tail, len, next, queued, faults,
              pending, waiter, ticks, delay, gc, awake, jpc, woken, answer>>
cbpfVars == <<program, at, plen, pc, steps, accumulator, index, scratch, written, value>>
pmuVars == <<held, counting, open, slots, running, refused, started,
             enabled, count, saturated, rpc, records, added, read, resets, half>>
traceVars == <<counters, sequence, published, slot, recorded, writer, reading, reader>>
all == <<part, cfsVars, treeVars, arithVars, listVars, exitVars, cbpfVars, pmuVars, traceVars>>

-----------------------------------------------------------------------------
(* The instances.                                                           *)

Par(class, w, n) == [class |-> class, weight |-> w, prio |-> n]
MCParams == {Par("normal", 2, 0), Par("normal", 4, 0), Par("rr", 2, 1)}
MCSetup == (t1 :> [par |-> Par("normal", 2, 0), phase |-> "fresh", v |-> 0])
        @@ (t2 :> [par |-> Par("idle", 1, 0), phase |-> "asleep", v |-> 3])

\* Two nodes share a structural key.
MCKey == [n \in Nodes |-> IF n = 8 THEN 7 ELSE n]

\* Eight events: the ring of three is overwritten and the sequences wrap.
Rec(kind, depth) == [kind |-> kind, depth |-> depth]
MCScript ==
    <<Rec("preempt_disable", 1), Rec("preempt_enable", 2), Rec("preempt_enable", 1),
      Rec("preempt_check", 0), Rec("yield_enter", 1), Rec("context_switch", 1),
      Rec("preempt_enable", 1), Rec("idle_after_yield", 0)>>

MCTarget == j1 :> t1

Op(o, x) == Statement(o, x)
Operands == 0 .. 2 ^ W - 1

\* Programs about control flow and scratch memory, and programs that run any one
\* instruction, whatever its operand, on any accumulator and a chosen index.
Flow == {Op("LD_B_ABS", 0), Op("ST", 0), Op("STX", 1), Op("LD_MEM", 0), Op("LDX_MEM", 1),
         Op("JA", 0), Op("JA", 1), Branch("JEQ_K", 1, 1, 0), Branch("JGT_X", 0, 0, 2),
         Op("RET_A", 0)}
\* What the fourth instruction does after any three: read what they wrote, or jump.
Use == {Op("LD_MEM", 0), Op("LDX_MEM", 1), Op("JA", 0)}
AnyOp == {Op(o, x) : o \in (Supported \ (Jumps \cup {"JA"})) \cup {"BAD"}, x \in Operands}
         \cup {Branch(o, x, 0, 1) : o \in Jumps, x \in Operands}
SetIndex == {Op("LDX_B_MSH", 0), Op("LDX_IMM", 3), Op("LDX_LEN", 0), Op("TAX", 0)}
MCPrograms ==
    {<<p, q, r, u, Op("RET_A", 0)>> : p \in Flow, q \in Flow, r \in Flow, u \in Use}
    \cup {<<p, q, r>> : p \in Flow, q \in Flow, r \in {Op("RET_K", 3), Op("LD_LEN", 0)}}
    \cup {<<Op("LD_B_ABS", 0), p, q, Op("ST", 1), Op("RET_A", 0), Op("RET_K", 1)>> :
            p \in SetIndex, q \in AnyOp}
    \cup {<<>>}

-----------------------------------------------------------------------------
Parts == {"cfs", "tree", "arith", "list", "exit", "cbpf", "pmu", "trace"}

CfsOff == /\ task = 0 /\ queue = 0 /\ run = 0 /\ phase = 0 /\ token = 0 /\ moved = 0 /\ calls = 0
ArithOff == op = 0 /\ args = 0 /\ out = 0
ListOff == policy = 0 /\ list = 0 /\ owner = 0 /\ slice = 0 /\ lrun = 0 /\ asked = 0
ExitOff ==
    /\ state = 0 /\ code = 0 /\ oncpu = 0 /\ wait = 0 /\ exiting = 0
    /\ head = 0 /\ tail = 0 /\ len = 0 /\ next = 0 /\ queued = 0 /\ faults = 0
    /\ pending = 0 /\ waiter = 0 /\ ticks = 0 /\ delay = 0 /\ gc = 0 /\ awake = 0
    /\ jpc = 0 /\ woken = 0 /\ answer = 0
CbpfOff ==
    /\ program = 0 /\ at = 0 /\ plen = 0 /\ pc = 0 /\ steps = 0 /\ accumulator = 0
    /\ index = 0 /\ scratch = 0 /\ written = 0 /\ value = 0
PmuOff ==
    /\ held = 0 /\ counting = 0 /\ open = 0 /\ slots = 0 /\ running = 0 /\ refused = 0
    /\ started = 0 /\ enabled = 0 /\ count = 0 /\ saturated = 0 /\ rpc = 0 /\ records = 0
    /\ added = 0 /\ read = 0 /\ resets = 0 /\ half = 0

TraceOff ==
    /\ counters = 0 /\ sequence = 0 /\ published = 0 /\ slot = 0 /\ recorded = 0
    /\ writer = 0 /\ reading = 0 /\ reader = 0

MCInit ==
    /\ part \in Parts
    /\ IF part = "cfs" THEN C!Init ELSE CfsOff
    /\ IF part = "tree" THEN T!Init ELSE tree = 0
    /\ IF part = "arith" THEN A!Init ELSE ArithOff
    /\ IF part = "list" THEN L!Init ELSE ListOff
    /\ IF part = "exit" THEN R!Init ELSE ExitOff
    /\ IF part = "cbpf" THEN B!Init ELSE CbpfOff
    /\ IF part = "pmu" THEN P!Init ELSE PmuOff
    /\ IF part = "trace" THEN E!Init ELSE TraceOff

\* What a step of one part leaves alone.
InCfs == /\ part = "cfs" /\ UNCHANGED part
         /\ UNCHANGED <<treeVars, arithVars, listVars, exitVars, cbpfVars, pmuVars, traceVars>>
InTree == /\ part = "tree" /\ UNCHANGED part
          /\ UNCHANGED <<cfsVars, arithVars, listVars, exitVars, cbpfVars, pmuVars, traceVars>>
InArith == /\ part = "arith" /\ UNCHANGED part
           /\ UNCHANGED <<cfsVars, treeVars, listVars, exitVars, cbpfVars, pmuVars, traceVars>>
InList == /\ part = "list" /\ UNCHANGED part
          /\ UNCHANGED <<cfsVars, treeVars, arithVars, exitVars, cbpfVars, pmuVars, traceVars>>
InExit == /\ part = "exit" /\ UNCHANGED part
          /\ UNCHANGED <<cfsVars, treeVars, arithVars, listVars, cbpfVars, pmuVars, traceVars>>
InCbpf == /\ part = "cbpf" /\ UNCHANGED part
          /\ UNCHANGED <<cfsVars, treeVars, arithVars, listVars, exitVars, pmuVars, traceVars>>
InPmu == /\ part = "pmu" /\ UNCHANGED part
         /\ UNCHANGED <<cfsVars, treeVars, arithVars, listVars, exitVars, cbpfVars, traceVars>>
InTrace == /\ part = "trace" /\ UNCHANGED part
           /\ UNCHANGED <<cfsVars, treeVars, arithVars, listVars, exitVars, cbpfVars, pmuVars>>

MCNext ==
    \/ (InCfs /\ C!Next) \/ (InTree /\ T!Next) \/ (InArith /\ A!Next) \/ (InList /\ L!Next)
    \/ (InExit /\ R!Next) \/ (InCbpf /\ B!Next) \/ (InPmu /\ P!Next) \/ (InTrace /\ E!Next)

\* The fairness of ReadyList and of Recycler.  As a behaviour keeps its part, one
\* condition on a step of either is the same as one on each.
MCSpec ==
    /\ MCInit /\ [][MCNext]_all
    /\ WF_all((InList /\ L!PickNextTask(1)) \/ (InExit /\ R!Gc))
    /\ WF_all((InList /\ L!PickNextTask(2)) \/ (InExit /\ R!RetryTimerTick))
    /\ WF_all((InList /\ asked[1] /\ L!PutPrevTask(1, TRUE)) \/ (InExit /\ R!ExitStep(t1)))
    /\ WF_all((InList /\ asked[2] /\ L!PutPrevTask(2, TRUE)) \/ (InExit /\ R!ExitStep(t2)))
    /\ \A h \in Joiners : WF_all(InExit /\ jpc[h] # "holds" /\ R!JoinStep(h))
    /\ \A q \in Queues : SF_all(InList /\ L!TaskTick(q))

-----------------------------------------------------------------------------
(* The properties of the parts, under this module's names.                 *)

\* Every queue of tasks keeps its representation under any sequence of calls: the
\* ready tree is a red-black tree with right augmentation whose searches answer
\* right (eevdf_tree.rs), a CFS task is linked once, in the queue and under the key
\* its fields say (cfs.rs), a FIFO or round-robin task is in the list its owner
\* word names (fifo.rs, round_robin.rs), and an exited task is in the exited queue
\* or in the recycler's hand until it is freed, with the recycler never asleep over
\* it for good and every join answered with the code the task left (run_queue.rs).
QueuesSound ==
    /\ part = "tree" => T!TreeOK
    /\ part = "cfs" => C!CfsSound
    /\ part = "list" => L!ListSound
    /\ part = "exit" => R!Held /\ R!JoinsAnswer

\* The fixed-width arithmetic of the EEVDF model (128-bit products, 129-bit
\* divisions, ratios of five factors, half-to-even rounding) gives the integer
\* result, and fails exactly when it does not fit (eevdf_model.rs).
ArithExact == part = "arith" => A!ArithExact

\* The verifier and the interpreter of classic BPF agree (program.rs).
CbpfSound == part = "cbpf" => B!CbpfSound

\* A PMU session never leaves counters behind silently and its software counters
\* lose no event (axpmu lib.rs); a reader of a CPU's event trace gets an event whole
\* and as it was recorded, although the ring is written meanwhile
\* (irq_continuation_diagnostics.rs).
CountersSound ==
    /\ part = "pmu" => P!PmuSound
    /\ part = "trace" => E!TraceSound

\* A fair task that moves between run queues keeps its distance to the floor
\* (stage_migration_vruntime_offset, take_migration_vruntime).
CfsKeepsDistance == [][part = "cfs" => C!DistanceKept]_all

\* A round-robin task in a ready list gets to run (round_robin.rs task_tick).
RrEveryoneRuns ==
    \A t \in ListTasks :
      (IF part = "list" THEN policy = "rr" /\ owner[t] \in Queues ELSE FALSE)
        ~> (part = "list" => owner[t] \notin Queues)

=============================================================================
