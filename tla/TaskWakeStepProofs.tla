------------------------- MODULE TaskWakeStepProofs -------------------------
(***************************************************************************)
(* The inductive invariant of TaskWake, and why the steps of wakers and of *)
(* the task itself keep it; TaskWakeProofs has the affinity calls, the     *)
(* CPUs and the theorems.                                                  *)
(*                                                                         *)
(* The argument.  At any time one context may act on the task's place.  A  *)
(* Ready task is in one run queue, or exactly one actor or CPU owes it     *)
(* that link (LinkInv), and the wake handoff is one way of owing it: the   *)
(* slot is reserved by one waker and taken by the epilogue or withdrawn    *)
(* (SlotInv).  Who may start such work is settled by the mutation word,    *)
(* which names the one holder of the claim (MutationInv), and by the owner *)
(* token, which is the live stack's until the epilogue of its CPU releases *)
(* it (StackInv, TokenInv).  cpu_id then names the queue of every link,    *)
(* present or owed (PlaceInv), and the mask contains it except while an    *)
(* affinity call has still to move the task (MaskInv, PreemptInv,          *)
(* SelfInv).  No occurrence is lost because one published after the poll   *)
(* is marked in the block word, or about to be, and a marked Blocked task  *)
(* has a waker on its way (SessionInv).                                    *)
(*                                                                         *)
(* The invariant is written as one predicate per actor and per CPU         *)
(* wherever it can be: a step moves one of them, and the others keep       *)
(* theirs.                                                                 *)
(***************************************************************************)
EXTENDS TaskWake, TLAPS

-----------------------------------------------------------------------------
(* The inductive invariant.                                                *)

\* The words, records and labels of TypeOK, by name, and the used bounds.
BlockWords == [gen : Nat, active : BOOLEAN, woken : BOOLEAN, owner : BOOLEAN]
MutationWords == [owner : {"none", "affinity", "block", "steal"}, wake : BOOLEAN]
TaskWords == [state : {"Running", "Ready", "Blocked", "Exited"},
              cpu : Cpus, mask : SUBSET Cpus,
              helper : Setters \cup {Task, NoCpu}, resched : BOOLEAN]
HandWords == [token : Nat, cpu : Cpus \cup {NoCpu}, pending : BOOLEAN,
              slot : BOOLEAN, gen : Nat]
CpuRecords == [pc : CpuLabels, prev : Nat, helper : BOOLEAN, from : Cpus, to : Cpus]
Locals == [cpu : Cpus, seen : Nat, mask : SUBSET Cpus]
Labels == WakeLabels \cup TaskLabels \cup SetterLabels
Returns == TaskLabels \cup {"idle", "finish"}
Typed ==
    /\ bw \in BlockWords /\ mutation \in MutationWords /\ task \in TaskWords
    /\ hand \in HandWords /\ ready \subseteq Cpus /\ locked \subseteq Cpus
    /\ cur \in Cpus \cup {NoCpu} /\ cpu \in [Cpus -> CpuRecords]
    /\ pc \in [Actors -> Labels] /\ ret \in [Actors -> Returns]
    /\ loc \in [Actors -> Locals] /\ events \in [made : Nat, taken : Nat]
    /\ fault \in BOOLEAN
    /\ budget \in [sessions : Nat, contention : Nat, self : Nat, refused : Nat,
                   calls : [Wakers \cup Setters -> Nat]]

\* Labels at which an actor holds the wake claim, and those at which it also
\* owes the link of the task it made Ready.
LinkLabels == {"handoff", "store", "arm", "reclaim", "enqueue"}
ClaimLabels == {"select", "unblock", "release"} \cup LinkLabels

\* Labels of the scheduler entry that returns to ret[Task].
SchedLabels == {"claimmigration", "migrate", "put", "pick", "running", "resumed"}

\* Labels at which the task runs as an ordinary Running task.
RunLabels == {"begin", "prepare", "poll", "end", "check", "claimblock",
              "beginblock", "abort", "publish", "woken", "yield",
              "claimmigration", "migrate", "put", "selfclaim", "selfpublish",
              "selfmigrate", "selffinish"}

\* Where each actor may be, and where it returns to.
RoleWaker(w) ==
    pc[w] \in {"idle", "mark", "claim"} \cup ClaimLabels /\ ret[w] = "idle"
RoleSetter(s) ==
    /\ pc[s] \in SetterLabels \cup {"mark", "claim"} \cup ClaimLabels
    /\ pc[s] \in {"mark", "claim"} => ret[s] = "finish"
    /\ pc[s] \in ClaimLabels => ret[s] = "idle"
RoleTask ==
    /\ pc[Task] \in TaskLabels \cup ClaimLabels
    /\ pc[Task] = "finishblock" => ret[Task] \in {"woken", "resched"}
    /\ pc[Task] \in ClaimLabels => ret[Task] \in {"woken", "resched", "begin"}
    /\ pc[Task] \in SchedLabels => ret[Task] \in SafePoints
RoleInv ==
    RoleTask /\ (\A w \in Wakers : RoleWaker(w)) /\ (\A s \in Setters : RoleSetter(s))

\* The task's stack is live on one CPU, which does nothing else, or the task is
\* parked; its state word follows its own control.
StackInv ==
    /\ cur = NoCpu => pc[Task] \in {"resumed", "exited"}
    /\ cur # NoCpu => cpu[cur].pc = "run" /\ pc[Task] # "exited"
    /\ pc[Task] \in RunLabels => task.state = "Running"
    /\ pc[Task] = "commit" => task.state = "Blocked"
    /\ pc[Task] = "exited" => task.state = "Exited"
    /\ pc[Task] = "pick" => task.state = "Ready" /\ ready = {cur}
    /\ pc[Task] = "running" => task.state = "Ready"
    /\ pc[Task] = "resched" => task.state \in {"Blocked", "Ready"}
    /\ pc[Task] = "finishblock" =>
          task.state = IF ret[Task] = "woken" THEN "Running" ELSE "Blocked"
    /\ pc[Task] \in ClaimLabels =>
          IF ret[Task] = "resched" THEN task.state \in {"Blocked", "Ready"}
                                   ELSE task.state = "Running"
    /\ pc[Task] = "resumed" =>
          IF cur = NoCpu THEN task.state \in {"Blocked", "Ready"}
                         ELSE task.state = "Running"
    /\ pc[Task] = "resumed" /\ task.state = "Blocked" => ret[Task] = "prepare"

\* The owner token is held by the CPU of the live stack, and after a switch by
\* the epilogue on that CPU that will release it.
TokenTask ==
    /\ cur # NoCpu => hand.token # 0 /\ hand.cpu = cur
    /\ hand.token # 0 /\ cur = NoCpu =>
          hand.cpu \in Cpus /\ cpu[hand.cpu].pc = "epilogue"
    /\ \A q \in ready : hand.token # 0 => q = hand.cpu
TokenActor(a) ==
    /\ pc[a] \in {"store", "arm"} => loc[a].seen # 0 /\ hand.token \in {0, loc[a].seen}
    /\ pc[a] \in {"reclaim", "enqueue", "attach", "restore"} => hand.token = 0
TokenCpu(c) ==
    /\ cpu[c].pc = "epilogue" =>
          cur = NoCpu /\ hand.token # 0 /\ hand.token = cpu[c].prev /\ hand.cpu = c
    /\ cpu[c].pc \in {"take", "delegated", "switchin", "helper", "reroute",
                      "attach", "restore"} => hand.token = 0
TokenInv ==
    TokenTask /\ (\A a \in Actors : TokenActor(a)) /\ (\A c \in Cpus : TokenCpu(c))

\* The CPUs and actors that owe the task a link in a run queue.
CpuLinks(c) ==
    \/ cpu[c].pc \in {"take", "delegated", "switchin"}
    \/ cpu[c].helper /\ cpu[c].pc # "run"
ActorLinks(a) == pc[a] \in LinkLabels \cup {"attach", "restore", "running"}

\* A Ready task is linked once, or exactly one context owes the link; any other
\* task is linked nowhere and nobody links it.
LinkOnce ==
    /\ \A q, r \in ready : q = r
    /\ \A c, d \in Cpus : CpuLinks(c) /\ CpuLinks(d) => c = d
    /\ \A a, b \in Actors : ActorLinks(a) /\ ActorLinks(b) => a = b
    /\ \A a \in Actors : \A c \in Cpus : ~(ActorLinks(a) /\ CpuLinks(c))
LinkTask ==
    /\ ready # {} \/ hand.pending => task.state = "Ready"
    /\ hand.pending => ready = {}
LinkActor(a) ==
    ActorLinks(a) => ready = {} /\ ~hand.pending /\ task.state = "Ready"
LinkCpu(c) ==
    CpuLinks(c) => ready = {} /\ ~hand.pending /\ task.state = "Ready"
LinkHeld ==
    task.state = "Ready" =>
        \/ ready # {} \/ hand.pending
        \/ \E c \in Cpus : CpuLinks(c)
        \/ \E a \in Actors : ActorLinks(a)
LinkInv ==
    /\ LinkOnce /\ LinkTask /\ LinkHeld
    /\ (\A a \in Actors : LinkActor(a)) /\ (\A c \in Cpus : LinkCpu(c))

\* Who marks its CPU record as a migration helper, and what the slot means.
HelperCpu(c) ==
    /\ cpu[c].pc \in {"helper", "reroute", "attach", "restore"} => cpu[c].helper
    /\ cpu[c].helper =>
          cpu[c].pc \in {"epilogue", "helper", "reroute", "attach", "restore"}
HelperInv == \A c \in Cpus : HelperCpu(c)
SlotTask == hand.pending => hand.slot /\ hand.token # 0
SlotActor(a) == pc[a] \in {"arm", "reclaim"} => hand.slot
SlotCpu(c) == cpu[c].pc = "take" => hand.slot
SlotHeld ==
    hand.slot => \/ hand.pending
                 \/ \E a \in Actors : pc[a] \in {"arm", "reclaim"}
                 \/ \E c \in Cpus : cpu[c].pc = "take"
SlotInv ==
    /\ SlotTask /\ SlotHeld
    /\ (\A a \in Actors : SlotActor(a)) /\ (\A c \in Cpus : SlotCpu(c))

\* The actors that hold the affinity claim.
SelfLabels == {"selfpublish", "selfmigrate", "selffinish"}
HoldsAffinity(a) ==
    \/ /\ a \in Setters
       /\ pc[a] \in (SetterLabels \ {"idle"}) \cup {"mark", "claim"}
    \/ /\ a = Task
       /\ pc[a] \in SelfLabels \/ (pc[a] \in SchedLabels /\ ret[a] \in SelfLabels)

\* The mutation word names the one context that holds the claim.
MutationTask ==
    /\ pc[Task] \in {"publish", "commit", "finishblock"} <=> mutation.owner = "block"
    /\ hand.pending => mutation = WakeOwned
MutationActor(a) ==
    /\ HoldsAffinity(a) => mutation.owner = "affinity"
    /\ pc[a] \in ClaimLabels =>
          /\ mutation = WakeOwned /\ ~hand.pending
          /\ \A c \in Cpus : cpu[c].pc \notin {"take", "delegated"}
    /\ pc[a] = "release" => task.state # "Blocked"
MutationCpu(c) ==
    /\ cpu[c].pc \in {"stealmove", "stealdone"} => mutation.owner = "steal"
    /\ cpu[c].pc \in {"take", "delegated"} => mutation = WakeOwned
MutationOnce ==
    /\ \A a, b \in Actors : HoldsAffinity(a) /\ HoldsAffinity(b) => a = b
    /\ \A a, b \in Actors : pc[a] \in ClaimLabels /\ pc[b] \in ClaimLabels => a = b
MutationHeld ==
    /\ mutation.owner = "steal" =>
          \E c \in Cpus : cpu[c].pc \in {"stealmove", "stealdone"}
    /\ mutation = WakeOwned /\ task.state = "Blocked" =>
          \E a \in Actors : pc[a] \in {"select", "unblock"}
MutationInv ==
    /\ MutationTask /\ MutationOnce /\ MutationHeld
    /\ (\A a \in Actors : MutationActor(a)) /\ (\A c \in Cpus : MutationCpu(c))

\* A steal holds both queue locks over the queued task it moves.
StealLabels == {"stealclaim", "stealmove", "stealdone"}
StealCpu(d) ==
    cpu[d].pc \in StealLabels =>
        /\ {d, cpu[d].from} \subseteq locked
        /\ ready # {} /\ ready \subseteq {d, cpu[d].from}
        /\ hand.token = 0 /\ ~hand.slot
        /\ cpu[d].pc # "stealdone" => ready = {cpu[d].from}
StealOnce ==
    \A d, e \in Cpus : cpu[d].pc \in StealLabels /\ cpu[e].pc \in StealLabels => d = e
StealInv == StealOnce /\ \A d \in Cpus : StealCpu(d)

\* cpu_id names the queue the task is in, or will be put in, or runs on.
PlaceTask ==
    /\ task.state = "Running" => task.cpu = cur
    /\ \A q \in ready : task.cpu = q
    /\ pc[Task] = "running" => task.cpu = cur
PlaceActor(a) ==
    /\ pc[a] \in LinkLabels => loc[a].cpu = task.cpu
    /\ pc[a] = "restore" => loc[a].cpu = task.cpu
    /\ pc[a] = "unblock" /\ task.state = "Blocked" => loc[a].cpu = task.cpu
PlaceCpu(c) ==
    /\ cpu[c].pc = "switchin" => task.cpu = c
    /\ cpu[c].pc \in {"delegated", "attach"} => task.cpu = cpu[c].to
    /\ cpu[c].pc = "restore" => task.cpu = cpu[c].from
PlaceInv ==
    /\ PlaceTask /\ (\A a \in Actors : PlaceActor(a)) /\ (\A c \in Cpus : PlaceCpu(c))

\* The frozen wake owner follows the mask.
MaskTask ==
    /\ task.state = "Blocked" /\ mutation.owner # "affinity" => task.cpu \in task.mask
    /\ hand.pending => task.cpu \in task.mask
MaskSetter(s) ==
    /\ pc[s] \in {"admit", "finish"} /\ task.state = "Blocked" => task.cpu \in task.mask
    /\ pc[s] \in {"inspect", "detach", "attach", "restore", "nudge",
                  "retire", "mark", "claim"} => task.state # "Blocked"
    /\ pc[s] = "route" => loc[s].mask = task.mask
MaskActor(a) == pc[a] \in LinkLabels => task.cpu \in task.mask
MaskCpu(c) == cpu[c].pc \in {"take", "delegated"} => task.cpu \in task.mask
MaskInv ==
    /\ MaskTask /\ (\A s \in Setters : MaskSetter(s))
    /\ (\A a \in Actors : MaskActor(a)) /\ (\A c \in Cpus : MaskCpu(c))

\* Some affinity call has still to see the task on its excluded CPU.
MoveUnderway ==
    \/ \E s \in Setters : \/ pc[s] \in {"route", "nudge"}
                          \/ pc[s] \in {"inspect", "detach"} /\ loc[s].cpu = task.cpu
    \/ pc[Task] \in {"selfmigrate", "migrate"}
    \/ pc[Task] = "claimmigration" /\ ret[Task] = "selfmigrate"
Picked == \/ task.state = "Running" \/ pc[Task] = "running"
          \/ \E c \in Cpus : cpu[c].pc = "switchin"
PreemptInv ==
    /\ Picked /\ task.cpu \notin task.mask => task.resched \/ MoveUnderway
    /\ pc[Task] = "commit" /\ cur \notin task.mask => task.resched

\* set_current_affinity, with no refusal, is on its way to an allowed CPU.
Continues(ls) == pc[Task] \in ls \/ (pc[Task] \in SchedLabels /\ ret[Task] \in ls)
SelfMoves ==
    /\ Continues({"selfmigrate", "selffinish"})
    /\ pc[Task] \in {"put", "pick", "running", "resumed"}
SelfTask ==
    budget.refused = 0 =>
        /\ Continues({"selfmigrate"}) /\ pc[Task] \in {"selfmigrate", "claimmigration"} =>
              cur \in task.mask \/ task.helper # NoCpu
        /\ Continues({"selffinish"}) /\ pc[Task] \in {"selffinish", "claimmigration"} =>
              cur \in task.mask
        /\ SelfMoves => (cur # NoCpu => cur \in task.mask) /\ ready \subseteq task.mask
SelfCpu(c) ==
    budget.refused = 0 /\ SelfMoves =>
        /\ cpu[c].pc = "switchin" => c \in task.mask
        /\ cpu[c].pc \in {"reroute", "attach"} => cpu[c].to \in task.mask
        /\ cpu[c].pc # "restore"
SelfInv == SelfTask /\ \A c \in Cpus : SelfCpu(c)

\* A session is active from begin_block_wait to end_block_wait.
SessionLabels == {"prepare", "poll", "end", "check", "claimblock", "beginblock",
                  "abort", "publish", "commit", "finishblock", "woken", "resched",
                  "yield"}
InSession ==
    \/ pc[Task] \in SessionLabels
    \/ pc[Task] \in SchedLabels \cup ClaimLabels /\ ret[Task] \in SessionLabels
ActiveInv == InSession => bw.active

\* An occurrence published since the session polled Pending is marked, or about
\* to be; OWNER is set during the publication of Blocked only.
Polled == \/ task.state = "Blocked"
          \/ pc[Task] \in {"claimblock", "beginblock", "publish", "commit"}
          \/ Continues({"check"})
SessionInv ==
    /\ bw.owner <=> pc[Task] \in {"beginblock", "abort", "publish", "commit"}
    /\ Polled /\ events.made > events.taken =>
          bw.woken \/ \E w \in Wakers : pc[w] = "mark"
    /\ task.state = "Blocked" /\ bw.woken /\ ~bw.owner => WakeUnderway

Inv ==
    /\ Typed /\ ~fault /\ RoleInv /\ StackInv /\ TokenInv /\ LinkInv
    /\ HelperInv /\ SlotInv /\ MutationInv /\ StealInv /\ PlaceInv /\ MaskInv
    /\ PreemptInv /\ SelfInv /\ ActiveInv /\ SessionInv

-----------------------------------------------------------------------------
(* Steps of control, and what an update of a word leaves alone.            *)

\* A leaf that names no prover is one for Zenon.
USE ZenonT(180)

\* TypeOK is the typing with the bounds left out.
LEMMA TypedTypeOK == Typed => TypeOK
  BY DEF Typed, TypeOK, BlockWords, MutationWords, TaskWords, HandWords, CpuRecords,
         Locals, Labels, Returns

\* Every place a step returns to is a label.
LEMMA ReturnsAreLabels == Returns \subseteq Labels
  BY DEF Returns, Labels, SetterLabels

\* An actor that goes to a label leaves the others where they are.
LEMMA Goes ==
    ASSUME pc \in [Actors -> Labels], NEW a \in Actors, NEW l \in Labels, Goto(a, l)
    PROVE  /\ pc'[a] = l /\ pc' \in [Actors -> Labels]
           /\ \A b \in Actors \ {a} : pc'[b] = pc[b]
  BY DEF Goto

\* ... and so does one that returns.
LEMMA GoesBack ==
    ASSUME Typed, NEW a \in Actors, Return(a)
    PROVE  /\ pc'[a] = ret[a] /\ pc' \in [Actors -> Labels]
           /\ \A b \in Actors \ {a} : pc'[b] = pc[b]
<1>1. pc \in [Actors -> Labels] /\ ret[a] \in Labels
  BY ReturnsAreLabels DEF Typed
<1>2. Goto(a, ret[a])  BY DEF Return
<1>3. QED  BY <1>1, <1>2, Goes

\* The mutation word is its owner and its wake bit.
LEMMA MutationIs ==
    ASSUME NEW m \in MutationWords
    PROVE  /\ m = Idle <=> m.owner = "none" /\ ~m.wake
           /\ m = WakeOwned <=> m.owner = "none" /\ m.wake
           /\ m.wake \in BOOLEAN /\ m.owner \in {"none", "affinity", "block", "steal"}
<1>1. m = [owner |-> m.owner, wake |-> m.wake]  BY DEF MutationWords
<1>2. /\ m.wake \in BOOLEAN /\ m.owner \in {"none", "affinity", "block", "steal"}
  BY DEF MutationWords
<1>3. CASE m.wake = TRUE
  BY SMTT(30), Z3T(30), <1>1, <1>2, <1>3 DEF Idle, WakeOwned, Mut
<1>4. CASE m.wake = FALSE
  BY SMTT(30), Z3T(30), <1>1, <1>2, <1>4 DEF Idle, WakeOwned, Mut
<1>5. QED  BY <1>2, <1>3, <1>4

\* An update of one bit of the block_wait word.
LEMMA BlockUpdates ==
    ASSUME NEW r \in BlockWords, NEW x \in BOOLEAN
    PROVE  /\ [r EXCEPT !.woken = x] \in BlockWords
           /\ [r EXCEPT !.woken = x].woken = x
           /\ [r EXCEPT !.woken = x].active = r.active
           /\ [r EXCEPT !.woken = x].owner = r.owner
           /\ [r EXCEPT !.owner = x] \in BlockWords
           /\ [r EXCEPT !.owner = x].woken = r.woken
           /\ [r EXCEPT !.owner = x].active = r.active
           /\ [r EXCEPT !.owner = x].owner = x
  BY DEF BlockWords

\* A word with a named owner is one of two.
LEMMA OwnedIs ==
    ASSUME NEW m \in MutationWords, NEW o, m.owner = o
    PROVE  m = Mut(o, FALSE) \/ m = Mut(o, TRUE)
<1>1. m = [owner |-> m.owner, wake |-> m.wake] /\ m.wake \in BOOLEAN
  BY DEF MutationWords
<1>2. QED  BY <1>1 DEF Mut

\* What the words the code writes are.
LEMMA MutIs ==
    ASSUME NEW o \in {"none", "affinity", "block", "steal"}, NEW b \in BOOLEAN
    PROVE  /\ Mut(o, b) \in MutationWords /\ Mut(o, b).owner = o
           /\ Mut(o, b).wake = b
           /\ o # "none" => Mut(o, b) # Idle /\ Mut(o, b) # WakeOwned
           /\ Idle # WakeOwned /\ Idle \in MutationWords /\ WakeOwned \in MutationWords
           /\ Idle.owner = "none" /\ WakeOwned.owner = "none"
           /\ Idle.wake = FALSE /\ WakeOwned.wake = TRUE
  BY DEF Mut, Idle, WakeOwned, MutationWords

\* Leaving a CPU parks the task and starts that CPU's epilogue.
LEMMA Switched ==
    ASSUME Typed, NEW d \in Cpus, NEW h \in BOOLEAN, SwitchOut(d, h)
    PROVE  /\ cur' = NoCpu /\ cpu' \in [Cpus -> CpuRecords]
           /\ cpu'[d].pc = "epilogue" /\ cpu'[d].prev = hand.token
           /\ cpu'[d].helper = h
           /\ \A c \in Cpus \ {d} : cpu'[c] = cpu[c]
<1>1. /\ cpu' = [cpu EXCEPT ![d] = [pc |-> "epilogue", prev |-> hand.token,
                                    helper |-> h, from |-> d, to |-> d]]
      /\ cur' = NoCpu /\ cpu \in [Cpus -> CpuRecords] /\ hand \in HandWords
  BY DEF SwitchOut, Typed
<1>2. [pc |-> "epilogue", prev |-> hand.token, helper |-> h, from |-> d, to |-> d]
          \in CpuRecords
  BY <1>1 DEF HandWords, CpuRecords, CpuLabels
<1>3. QED  BY <1>1, <1>2

\* A task that is not Ready is linked nowhere, and nobody owes it a link.
MoverLabels == {"take", "delegated", "switchin", "helper", "reroute", "attach", "restore"}
LEMMA NoLinks ==
    ASSUME Inv, task.state # "Ready"
    PROVE  /\ ready = {} /\ ~hand.pending
           /\ \A c \in Cpus : /\ ~CpuLinks(c)
                              /\ cpu[c].pc \notin StealLabels
                              /\ cpu[c].pc \notin MoverLabels
           /\ \A a \in Actors : ~ActorLinks(a)
<1>1. /\ ready = {} /\ ~hand.pending
      /\ \A c \in Cpus : ~CpuLinks(c) /\ cpu[c].pc \notin StealLabels
      /\ \A a \in Actors : ~ActorLinks(a)
  BY DEF Inv, LinkInv, LinkOnce, LinkTask, LinkHeld, LinkActor, LinkCpu, StealInv,
     StealOnce, StealCpu
<1>2. \A c \in Cpus : cpu[c].pc \notin MoverLabels
  BY <1>1 DEF Inv, HelperInv, HelperCpu, CpuLinks, MoverLabels
<1>3. QED  BY <1>1, <1>2

\* While the mutation word has no owner, no context claims the task.
LEMMA NoClaims ==
    ASSUME Inv, mutation = Idle
    PROVE  /\ ~hand.pending /\ \A a \in Actors : pc[a] \notin ClaimLabels
           /\ \A a \in Actors : ~HoldsAffinity(a)
           /\ \A c \in Cpus : cpu[c].pc \notin {"take", "delegated", "stealmove", "stealdone"}
           /\ pc[Task] \notin {"publish", "commit", "finishblock"}
<1>1. mutation.owner = "none" /\ mutation # WakeOwned  BY MutIs
<1>2. QED  BY <1>1
              DEF Inv, MutationInv, MutationTask, MutationOnce, MutationHeld,
                  MutationActor, MutationCpu

\* While it has another owner, nobody holds the wake claim.
LEMMA NoWakeClaim ==
    ASSUME Inv, mutation.owner # "none"
    PROVE  /\ ~hand.pending /\ \A a \in Actors : pc[a] \notin ClaimLabels
           /\ \A c \in Cpus : cpu[c].pc \notin {"take", "delegated"}
<1>1. mutation # WakeOwned  BY MutIs
<1>2. QED  BY <1>1
              DEF Inv, MutationInv, MutationTask, MutationOnce, MutationHeld,
                  MutationActor, MutationCpu

\* A task that polled Pending, or is blocked, is in an active session.
LEMMA PolledActive == ASSUME Inv, Polled PROVE bw.active
<1>1. pc[Task] \in TaskLabels \cup ClaimLabels
  BY DEF Inv, RoleInv, RoleTask, RoleWaker, RoleSetter
<1>2. CASE task.state = "Blocked"
  <2>1. \/ pc[Task] \in {"commit", "finishblock", "resched"}
        \/ pc[Task] \in ClaimLabels /\ ret[Task] = "resched"
        \/ pc[Task] = "resumed" /\ ret[Task] = "prepare"
    BY <1>1, <1>2 DEF Inv, StackInv, RunLabels, TaskLabels, ClaimLabels
  <2>2. QED  BY <2>1 DEF Inv, ActiveInv, InSession, SessionLabels, SchedLabels
<1>3. CASE task.state # "Blocked"
  BY <1>3 DEF Inv, Polled, Continues, ActiveInv, InSession, SessionLabels
<1>4. QED  BY <1>2, <1>3


\* While the task is linked in a queue, nobody owes it a link.
LEMMA Queued ==
    ASSUME Inv, ready # {}
    PROVE  /\ task.state = "Ready" /\ ~hand.pending
           /\ \A c \in Cpus : ~CpuLinks(c) /\ cpu[c].pc \notin MoverLabels
           /\ \A a \in Actors : ~ActorLinks(a)
<1>1. /\ task.state = "Ready" /\ ~hand.pending
      /\ \A c \in Cpus : ~CpuLinks(c)
      /\ \A a \in Actors : ~ActorLinks(a)
  BY DEF Inv, LinkInv, LinkOnce, LinkTask, LinkHeld, LinkActor, LinkCpu
<1>2. \A c \in Cpus : cpu[c].pc \notin MoverLabels
  BY <1>1 DEF Inv, HelperInv, HelperCpu, CpuLinks, MoverLabels
<1>3. QED  BY <1>1, <1>2

\* No CPU steals while the lock of the queue that links the task is free.
LEMMA NoStealer ==
    ASSUME Inv, NEW q \in ready, q \notin locked
    PROVE  \A c \in Cpus : cpu[c].pc \notin StealLabels
  BY DEF Inv, StealInv, StealOnce, StealCpu

\* A CPU that owes the link is alone in it.
LEMMA LinkingCpu ==
    ASSUME Inv, NEW c \in Cpus, CpuLinks(c)
    PROVE  /\ task.state = "Ready" /\ ~hand.pending /\ ready = {}
           /\ \A d \in Cpus \ {c} : ~CpuLinks(d) /\ cpu[d].pc \notin MoverLabels
           /\ \A d \in Cpus : cpu[d].pc \notin StealLabels
           /\ \A a \in Actors : ~ActorLinks(a)
<1>1. /\ task.state = "Ready" /\ ~hand.pending /\ ready = {}
      /\ \A d \in Cpus \ {c} : ~CpuLinks(d)
      /\ \A d \in Cpus : cpu[d].pc \notin StealLabels
      /\ \A a \in Actors : ~ActorLinks(a)
  BY DEF Inv, LinkInv, LinkOnce, LinkTask, LinkHeld, LinkActor, LinkCpu, StealInv,
     StealOnce, StealCpu
<1>2. \A d \in Cpus \ {c} : cpu[d].pc \notin MoverLabels
  BY <1>1 DEF Inv, HelperInv, HelperCpu, CpuLinks, MoverLabels
<1>3. QED  BY <1>1, <1>2

\* ... and so is an actor.
LEMMA LinkingActor ==
    ASSUME Inv, NEW a \in Actors, ActorLinks(a)
    PROVE  /\ task.state = "Ready" /\ ~hand.pending /\ ready = {}
           /\ \A c \in Cpus : /\ ~CpuLinks(c) /\ cpu[c].pc \notin MoverLabels
                              /\ cpu[c].pc \notin StealLabels
           /\ \A b \in Actors \ {a} : ~ActorLinks(b)
<1>1. /\ task.state = "Ready" /\ ~hand.pending /\ ready = {}
      /\ \A c \in Cpus : ~CpuLinks(c) /\ cpu[c].pc \notin StealLabels
      /\ \A b \in Actors \ {a} : ~ActorLinks(b)
  BY DEF Inv, LinkInv, LinkOnce, LinkTask, LinkHeld, LinkActor, LinkCpu, StealInv,
     StealOnce, StealCpu
<1>2. \A c \in Cpus : cpu[c].pc \notin MoverLabels
  BY <1>1 DEF Inv, HelperInv, HelperCpu, CpuLinks, MoverLabels
<1>3. QED  BY <1>1, <1>2

\* The CPU of the live stack runs nothing else, and no CPU is in an epilogue.
LEMMA LiveStack ==
    ASSUME Inv, cur # NoCpu
    PROVE  /\ cur \in Cpus /\ cpu[cur].pc = "run" /\ cpu[cur].helper = FALSE
           /\ hand.token # 0 /\ hand.cpu = cur
           /\ \A c \in Cpus : cpu[c].pc # "epilogue"
<1>1. cur \in Cpus /\ cpu[cur].helper \in BOOLEAN
  BY DEF Inv, Typed, CpuRecords
<1>2. cpu[cur].pc = "run" /\ ~cpu[cur].helper
  BY <1>1 DEF Inv, StackInv, HelperInv, HelperCpu
<1>3. QED  BY <1>1, <1>2 DEF Inv, TokenInv, TokenTask, TokenActor, TokenCpu

\* A CPU that goes to a label leaves the others where they are.
LEMMA CpuGoes ==
    ASSUME Typed, NEW c \in Cpus, NEW l \in CpuLabels, CpuGoto(c, l)
    PROVE  /\ cpu' \in [Cpus -> CpuRecords] /\ cpu'[c].pc = l
           /\ \A d \in Cpus \ {c} : cpu'[d] = cpu[d]
           /\ l = "run" => cpu'[c].helper = FALSE
           /\ l # "run" => /\ cpu'[c].helper = cpu[c].helper
                           /\ cpu'[c].from = cpu[c].from /\ cpu'[c].to = cpu[c].to
<1>1. cpu \in [Cpus -> CpuRecords]  BY DEF Typed
<1>2. CASE l = "run"
  <2>1. cpu' = [cpu EXCEPT ![c] = OtherWork(c)]  BY <1>2 DEF CpuGoto
  <2>2. OtherWork(c) \in CpuRecords /\ OtherWork(c).pc = "run"
        /\ OtherWork(c).helper = FALSE
    BY DEF OtherWork, CpuRecords, CpuLabels
  <2>3. QED  BY <1>1, <1>2, <2>1, <2>2
<1>3. CASE l # "run"
  <2>1. cpu' = [cpu EXCEPT ![c] = [cpu[c] EXCEPT !.pc = l]]
    BY <1>1, <1>3 DEF CpuGoto
  <2>2. /\ [cpu[c] EXCEPT !.pc = l] \in CpuRecords /\ [cpu[c] EXCEPT !.pc = l].pc = l
        /\ [cpu[c] EXCEPT !.pc = l].helper = cpu[c].helper
        /\ [cpu[c] EXCEPT !.pc = l].from = cpu[c].from
        /\ [cpu[c] EXCEPT !.pc = l].to = cpu[c].to
    BY SMTT(30), Z3T(30), <1>1 DEF CpuRecords
  <2>3. QED  BY <1>1, <1>3, <2>1, <2>2
<1>4. QED  BY <1>2, <1>3

\* While the owner word is clear the task's stack is parked.
LEMMA Parked ==
    ASSUME Inv, hand.token = 0
    PROVE  /\ cur = NoCpu /\ pc[Task] \in {"resumed", "exited"}
           /\ \A c \in Cpus : cpu[c].pc # "epilogue"
  BY DEF Inv, StackInv, TokenInv, TokenTask, TokenActor, TokenCpu
-----------------------------------------------------------------------------
(* wake_task, wake_task_claimed and the unblock they end in.               *)

\* LinkInv is about the links, the state and the pending word, and who owes a link.
LEMMA LinkFrame ==
    ASSUME LinkInv, ready' = ready, hand'.pending = hand.pending, task'.state = task.state,
           \A x \in Cpus : CpuLinks(x)' <=> CpuLinks(x),
           \A b \in Actors : ActorLinks(b)' <=> ActorLinks(b)
    PROVE  LinkInv'
    BY DEF LinkInv, LinkOnce, LinkTask, LinkHeld, LinkActor, LinkCpu

\* A waker that is called only announces an occurrence.
LEMMA CallWakeKeeps ==
    ASSUME Inv, NEW w \in Wakers, CallWake(w)
    PROVE  Inv'
<1> USE TaskWakeAssumption DEF Actors
<1>1. /\ pc[w] = "idle" /\ Goto(w, "mark")
      /\ UNCHANGED <<bw, mutation, task, hand, ready, cur, cpu, locked, ret, loc, fault>>
  BY DEF CallWake, Here, words, sched
<1>2. /\ pc'[w] = "mark" /\ pc' \in [Actors -> Labels]
      /\ \A b \in Actors \ {w} : pc'[b] = pc[b]
  BY <1>1, Goes DEF Inv, Typed, Labels, WakeLabels, TaskLabels, SetterLabels
<1>3. /\ events' \in [made : Nat, taken : Nat]
      /\ budget'.refused = budget.refused
      /\ budget' \in [sessions : Nat, contention : Nat, self : Nat, refused : Nat,
                    calls : [Wakers \cup Setters -> Nat]]
  BY SMTT(30), Z3T(30) DEF CallWake, Inv, Typed
<1> USE <1>1, <1>2, <1>3
<1>4. Typed'  BY DEF Inv, Typed
<1>5. ~fault'  BY DEF Inv
<1>6. RoleInv'
  <2>1. RoleTask'
    BY DEF Inv, RoleInv, RoleTask, ClaimLabels, LinkLabels, SetterLabels, TaskLabels,
           SchedLabels, SafePoints
  <2>2. ASSUME NEW y \in Wakers PROVE RoleWaker(y)'
    BY <2>2
       DEF Inv, RoleInv, RoleWaker, ClaimLabels, LinkLabels, SetterLabels, TaskLabels,
           SchedLabels, SafePoints
  <2>3. ASSUME NEW z \in Setters PROVE RoleSetter(z)'
    BY SMTT(30), Z3T(30), <2>3
       DEF Inv, RoleInv, RoleSetter, ClaimLabels, LinkLabels, SetterLabels, TaskLabels,
           SchedLabels, SafePoints
  <2> QED  BY <2>1, <2>2, <2>3 DEF RoleInv
<1>7. StackInv'  BY DEF Inv, StackInv, ClaimLabels, LinkLabels, RunLabels
<1>8. TokenInv'  BY DEF Inv, TokenInv, TokenTask, TokenActor, TokenCpu
<1>9. LinkInv'
  <2>1. \A x \in Cpus : CpuLinks(x)' <=> CpuLinks(x)  BY DEF CpuLinks
  <2>2. \A b \in Actors : ActorLinks(b)' <=> ActorLinks(b)  BY DEF ActorLinks, LinkLabels
  <2> QED  BY <2>1, <2>2, LinkFrame DEF Inv
<1>10. HelperInv'  BY DEF Inv, HelperInv, HelperCpu
<1>11. SlotInv'  BY DEF Inv, SlotInv, SlotTask, SlotHeld, SlotActor, SlotCpu
<1>12. MutationInv'
  <2>1. MutationTask'
    BY DEF Inv, MutationInv, MutationTask, HoldsAffinity, ClaimLabels, LinkLabels,
           SelfLabels, SchedLabels, SetterLabels
  <2>2. MutationOnce'
    BY SMTT(30), Z3T(30)
       DEF Inv, MutationInv, MutationOnce, HoldsAffinity, ClaimLabels, LinkLabels,
           SelfLabels, SchedLabels, SetterLabels
  <2>3. MutationHeld'
    BY DEF Inv, MutationInv, MutationHeld, HoldsAffinity, ClaimLabels, LinkLabels,
           SelfLabels, SchedLabels, SetterLabels
  <2>4. ASSUME NEW b \in Actors PROVE MutationActor(b)'
    BY SMTT(30), Z3T(30), <2>4
       DEF Inv, MutationInv, MutationActor, HoldsAffinity, ClaimLabels, LinkLabels,
           SelfLabels, SchedLabels, SetterLabels
  <2>5. ASSUME NEW x \in Cpus PROVE MutationCpu(x)'
    BY <2>5
       DEF Inv, MutationInv, MutationCpu, HoldsAffinity, ClaimLabels, LinkLabels,
           SelfLabels, SchedLabels, SetterLabels
  <2> QED  BY <2>1, <2>2, <2>3, <2>4, <2>5 DEF MutationInv
<1>13. StealInv'  BY DEF Inv, StealInv, StealOnce, StealCpu, StealLabels
<1>14. PlaceInv'  BY DEF Inv, PlaceInv, PlaceTask, PlaceActor, PlaceCpu, LinkLabels
<1>15. MaskInv'
  <2>1. MaskTask'  BY DEF Inv, MaskInv, MaskTask, LinkLabels
  <2>2. ASSUME NEW z \in Setters PROVE MaskSetter(z)'
    BY <2>2 DEF Inv, MaskInv, MaskSetter, LinkLabels
  <2>3. ASSUME NEW b \in Actors PROVE MaskActor(b)'
    BY <2>3 DEF Inv, MaskInv, MaskActor, LinkLabels
  <2>4. ASSUME NEW x \in Cpus PROVE MaskCpu(x)'
    BY <2>4 DEF Inv, MaskInv, MaskCpu, LinkLabels
  <2> QED  BY <2>1, <2>2, <2>3, <2>4 DEF MaskInv
<1>16. PreemptInv'  BY DEF Inv, PreemptInv, Picked, MoveUnderway
<1>17. SelfInv'  BY DEF Inv, SelfInv, SelfTask, SelfCpu, SelfMoves, Continues, SchedLabels
<1>18. ActiveInv'
  BY DEF Inv, ActiveInv, InSession, SessionLabels, SchedLabels, ClaimLabels,
     LinkLabels
<1>19. SessionInv'  BY DEF Inv, SessionInv, Polled, Continues, WakeUnderway, SchedLabels
<1>20. QED
  BY <1>4, <1>5, <1>6, <1>7, <1>8, <1>9, <1>10, <1>11, <1>12, <1>13, <1>14, <1>15,
     <1>16, <1>17, <1>18, <1>19 DEF Inv

\* Every step of wake_task and wake_task_claimed keeps the invariant.
LEMMA WakeStepKeeps == ASSUME Inv, NEW a \in Actors, WakeStep(a) PROVE Inv'
\* BlockWaitState::mark_woken: an active session that no block publication owns
\* is marked and its waker goes on to claim.
<1>1. CASE MarkWoken(a)
  <2> USE <1>1
  <2> USE TaskWakeAssumption DEF Actors
  <2>1. /\ pc[a] = "mark" /\ UNCHANGED <<mutation, task, hand, ready, cur, cpu, locked, ret, loc, events, budget, fault>>
    BY DEF MarkWoken, Here, sched, env
  <2>2. /\ a # Task /\ ret[a] \in {"idle", "finish"}
        /\ a \in Setters => ret[a] = "finish"
        /\ a \in Wakers => ret[a] = "idle"
    BY <2>1
       DEF Inv, RoleInv, RoleTask, RoleWaker, RoleSetter, TaskLabels, ClaimLabels,
           LinkLabels
  <2>3. Goto(a, IF bw.active /\ ~bw.owner THEN "claim" ELSE ret[a])
    BY DEF MarkWoken, Return
  <2>4. /\ pc' \in [Actors -> Labels] /\ pc'[a] \in {"claim", ret[a]}
        /\ bw.active /\ ~bw.owner => pc'[a] = "claim"
        /\ \A b \in Actors \ {a} : pc'[b] = pc[b]
    BY <2>3, <2>2, Goes DEF Inv, Typed, Labels, WakeLabels, TaskLabels, SetterLabels
  <2>5. bw \in BlockWords /\ bw' = IF bw.active THEN [bw EXCEPT !.woken = TRUE] ELSE bw
    BY DEF MarkWoken, Inv, Typed
  <2>6. /\ bw' \in BlockWords /\ bw'.active = bw.active /\ bw'.owner = bw.owner
        /\ bw.active => bw'.woken
        /\ ~bw.active => bw' = bw
    BY <2>5, BlockUpdates
  <2>7. Typed'  BY <2>1, <2>4, <2>6 DEF Inv, Typed
  <2> USE <2>1, <2>2, <2>4, <2>6
  <2>8. ~fault'  BY DEF Inv
  <2>9. RoleInv'
    <3>1. RoleTask'
      BY DEF Inv, RoleInv, RoleTask, ClaimLabels, LinkLabels, SetterLabels, TaskLabels,
             SchedLabels, SafePoints
    <3>2. ASSUME NEW y \in Wakers PROVE RoleWaker(y)'
      BY <3>2
         DEF Inv, RoleInv, RoleWaker, ClaimLabels, LinkLabels, SetterLabels,
             TaskLabels, SchedLabels, SafePoints
    <3>3. ASSUME NEW z \in Setters PROVE RoleSetter(z)'
      BY <3>3
         DEF Inv, RoleInv, RoleSetter, ClaimLabels, LinkLabels, SetterLabels,
             TaskLabels, SchedLabels, SafePoints
    <3> QED  BY <3>1, <3>2, <3>3 DEF RoleInv
  <2>10. StackInv'  BY DEF Inv, StackInv, ClaimLabels, LinkLabels, RunLabels
  <2>11. TokenInv'  BY DEF Inv, TokenInv, TokenTask, TokenActor, TokenCpu
  <2>12. LinkInv'
    <3>1. \A x \in Cpus : CpuLinks(x)' <=> CpuLinks(x)  BY DEF CpuLinks
    <3>2. \A b \in Actors : ActorLinks(b)' <=> ActorLinks(b)
      BY DEF ActorLinks, LinkLabels
    <3> QED  BY <3>1, <3>2, LinkFrame DEF Inv
  <2>13. HelperInv'  BY DEF Inv, HelperInv, HelperCpu
  <2>14. SlotInv'  BY DEF Inv, SlotInv, SlotTask, SlotHeld, SlotActor, SlotCpu
  <2>15. MutationInv'
    <3>1. MutationTask'
      BY DEF Inv, MutationInv, MutationTask, HoldsAffinity, ClaimLabels, LinkLabels,
             SelfLabels, SchedLabels, SetterLabels
    <3>2. MutationOnce'
      BY SMTT(30), Z3T(30)
         DEF Inv, MutationInv, MutationOnce, HoldsAffinity, ClaimLabels, LinkLabels,
             SelfLabels, SchedLabels, SetterLabels
    <3>3. MutationHeld'
      BY DEF Inv, MutationInv, MutationHeld, HoldsAffinity, ClaimLabels, LinkLabels,
             SelfLabels, SchedLabels, SetterLabels
    <3>4. ASSUME NEW b \in Actors PROVE MutationActor(b)'
      BY <3>4
         DEF Inv, MutationInv, MutationActor, HoldsAffinity, ClaimLabels, LinkLabels,
             SelfLabels, SchedLabels, SetterLabels
    <3>5. ASSUME NEW x \in Cpus PROVE MutationCpu(x)'
      BY <3>5
         DEF Inv, MutationInv, MutationCpu, HoldsAffinity, ClaimLabels, LinkLabels,
             SelfLabels, SchedLabels, SetterLabels
    <3> QED  BY <3>1, <3>2, <3>3, <3>4, <3>5 DEF MutationInv
  <2>16. StealInv'  BY DEF Inv, StealInv, StealOnce, StealCpu, StealLabels
  <2>17. PlaceInv'
    <3>1. PlaceTask'  BY DEF Inv, PlaceInv, PlaceTask
    <3>2. ASSUME NEW b \in Actors PROVE PlaceActor(b)'
      BY <3>2 DEF Inv, PlaceInv, PlaceActor, LinkLabels
    <3>3. ASSUME NEW x \in Cpus PROVE PlaceCpu(x)'
      BY <3>3 DEF Inv, PlaceInv, PlaceCpu
    <3> QED  BY <3>1, <3>2, <3>3 DEF PlaceInv
  <2>18. MaskInv'
    BY DEF Inv, MaskInv, MaskTask, MaskSetter, MaskActor, MaskCpu, LinkLabels
  <2>19. PreemptInv'  BY DEF Inv, PreemptInv, Picked, MoveUnderway
  <2>20. SelfInv'
    BY DEF Inv, SelfInv, SelfTask, SelfCpu, SelfMoves, Continues, SchedLabels
  <2>21. ActiveInv'
    BY DEF Inv, ActiveInv, InSession, SessionLabels, SchedLabels, ClaimLabels,
       LinkLabels
  <2>22. SessionInv'
    BY PolledActive DEF Inv, SessionInv, Polled, Continues, WakeUnderway, SchedLabels
  <2>23. QED
    BY <2>7, <2>8, <2>9, <2>10, <2>11, <2>12, <2>13, <2>14, <2>15, <2>16, <2>17, <2>18,
       <2>19, <2>20, <2>21, <2>22 DEF Inv
\* claim_wake_mutation on an idle word: the waker owns the wake.
<1>2. ASSUME ClaimWake(a), mutation = Idle PROVE Inv'
  <2> USE <1>2
  <2> USE TaskWakeAssumption DEF Actors
  <2>1. /\ pc[a] = "claim" /\ Goto(a, "select") /\ mutation' = WakeOwned
        /\ UNCHANGED <<bw, task, hand, ready, cur, cpu, locked, ret, loc, events, budget, fault>>
    BY DEF ClaimWake, Here, sched, env, Idle, WakeOwned, Mut
  <2>2. /\ pc'[a] = "select" /\ pc' \in [Actors -> Labels]
        /\ \A b \in Actors \ {a} : pc'[b] = pc[b]
    BY <2>1, Goes DEF Inv, Typed, Labels, WakeLabels, TaskLabels, SetterLabels
  <2>3. /\ mutation.owner = "none" /\ mutation # WakeOwned
        /\ mutation'.owner = "none" /\ mutation' \in MutationWords
    BY <2>1 DEF Idle, WakeOwned, Mut, MutationWords
  <2>4. a \in Wakers
    BY <2>1, <2>3
       DEF Inv, RoleInv, RoleTask, RoleWaker, RoleSetter, MutationInv, MutationTask,
           MutationOnce, MutationHeld, MutationActor, MutationCpu, HoldsAffinity,
           TaskLabels,
       ClaimLabels, LinkLabels
  <2>5. /\ ~hand.pending /\ \A b \in Actors : pc[b] \notin ClaimLabels
        /\ \A c \in Cpus : cpu[c].pc \notin {"take", "delegated"}
    BY <2>3
       DEF Inv, MutationInv, MutationTask, MutationOnce, MutationHeld, MutationActor,
           MutationCpu
  <2> USE <2>1, <2>2, <2>3, <2>4, <2>5
  <2>6. Typed'  BY DEF Inv, Typed
  <2>7. ~fault'  BY DEF Inv
  <2>8. RoleInv'
    <3>1. RoleTask'
      BY DEF Inv, RoleInv, RoleTask, ClaimLabels, LinkLabels, SetterLabels, TaskLabels,
             SchedLabels, SafePoints
    <3>2. ASSUME NEW y \in Wakers PROVE RoleWaker(y)'
      BY <3>2
         DEF Inv, RoleInv, RoleWaker, ClaimLabels, LinkLabels, SetterLabels,
             TaskLabels, SchedLabels, SafePoints
    <3>3. ASSUME NEW z \in Setters PROVE RoleSetter(z)'
      BY SMTT(30), Z3T(30), <3>3
         DEF Inv, RoleInv, RoleSetter, ClaimLabels, LinkLabels, SetterLabels,
             TaskLabels, SchedLabels, SafePoints
    <3> QED  BY <3>1, <3>2, <3>3 DEF RoleInv
  <2>9. StackInv'  BY DEF Inv, StackInv, ClaimLabels, LinkLabels, RunLabels
  <2>10. TokenInv'  BY DEF Inv, TokenInv, TokenTask, TokenActor, TokenCpu
  <2>11. LinkInv'
    <3>1. \A x \in Cpus : CpuLinks(x)' <=> CpuLinks(x)  BY DEF CpuLinks
    <3>2. \A b \in Actors : ActorLinks(b)' <=> ActorLinks(b)
      BY DEF ActorLinks, LinkLabels
    <3> QED  BY <3>1, <3>2, LinkFrame DEF Inv
  <2>12. HelperInv'  BY DEF Inv, HelperInv, HelperCpu
  <2>13. SlotInv'  BY DEF Inv, SlotInv, SlotTask, SlotHeld, SlotActor, SlotCpu
  <2>14. MutationInv'
    <3>1. MutationTask'
      BY DEF Inv, MutationInv, MutationTask, HoldsAffinity, ClaimLabels, LinkLabels,
             SelfLabels, SchedLabels, SetterLabels
    <3>2. MutationOnce'
      BY SMTT(30), Z3T(30)
         DEF Inv, MutationInv, MutationOnce, HoldsAffinity, ClaimLabels, LinkLabels,
             SelfLabels, SchedLabels, SetterLabels
    <3>3. MutationHeld'
      BY DEF Inv, MutationInv, MutationHeld, HoldsAffinity, ClaimLabels, LinkLabels,
             SelfLabels, SchedLabels, SetterLabels
    <3>4. ASSUME NEW b \in Actors PROVE MutationActor(b)'
      BY <3>4
         DEF Inv, MutationInv, MutationActor, HoldsAffinity, ClaimLabels, LinkLabels,
             SelfLabels, SchedLabels, SetterLabels
    <3>5. ASSUME NEW x \in Cpus PROVE MutationCpu(x)'
      BY <3>5
         DEF Inv, MutationInv, MutationCpu, HoldsAffinity, ClaimLabels, LinkLabels,
             SelfLabels, SchedLabels, SetterLabels
    <3> QED  BY <3>1, <3>2, <3>3, <3>4, <3>5 DEF MutationInv
  <2>15. StealInv'  BY DEF Inv, StealInv, StealOnce, StealCpu, StealLabels
  <2>16. PlaceInv'
    <3>1. PlaceTask'  BY DEF Inv, PlaceInv, PlaceTask
    <3>2. ASSUME NEW b \in Actors PROVE PlaceActor(b)'
      BY <3>2 DEF Inv, PlaceInv, PlaceActor, LinkLabels
    <3>3. ASSUME NEW x \in Cpus PROVE PlaceCpu(x)'
      BY <3>3 DEF Inv, PlaceInv, PlaceCpu
    <3> QED  BY <3>1, <3>2, <3>3 DEF PlaceInv
  <2>17. MaskInv'
    BY DEF Inv, MaskInv, MaskTask, MaskSetter, MaskActor, MaskCpu, LinkLabels
  <2>18. PreemptInv'  BY DEF Inv, PreemptInv, Picked, MoveUnderway
  <2>19. SelfInv'
    BY DEF Inv, SelfInv, SelfTask, SelfCpu, SelfMoves, Continues, SchedLabels
  <2>20. ActiveInv'
    BY DEF Inv, ActiveInv, InSession, SessionLabels, SchedLabels, ClaimLabels,
       LinkLabels
  <2>21. SessionInv'  BY DEF Inv, SessionInv, Polled, Continues, WakeUnderway, SchedLabels
  <2>22. QED
    BY <2>6, <2>7, <2>8, <2>9, <2>10, <2>11, <2>12, <2>13, <2>14, <2>15, <2>16, <2>17,
       <2>18, <2>19, <2>20, <2>21 DEF Inv
\* claim_wake_mutation on a word another context owns: the bit is left for it.
<1>3. ASSUME ClaimWake(a), mutation # Idle PROVE Inv'
  <2> USE <1>3
  <2> USE TaskWakeAssumption DEF Actors
  <2>1. /\ pc[a] = "claim" /\ Return(a)
        /\ UNCHANGED <<bw, task, hand, ready, cur, cpu, locked, ret, loc, events, budget, fault>>
    BY DEF ClaimWake, Here, sched, env
  <2>2. /\ pc'[a] = ret[a] /\ pc' \in [Actors -> Labels]
        /\ \A b \in Actors \ {a} : pc'[b] = pc[b]
    BY <2>1, GoesBack DEF Inv
  <2>3. /\ mutation \in MutationWords /\ mutation' = [mutation EXCEPT !.wake = TRUE]
    BY DEF ClaimWake, Inv, Typed
  <2>4. mutation'.owner = mutation.owner /\ mutation'.wake /\ mutation' \in MutationWords
    BY <2>3 DEF MutationWords
  <2>5. /\ mutation'.owner = mutation.owner /\ mutation'.wake
        /\ mutation' \in MutationWords
        /\ mutation' = WakeOwned <=> mutation = WakeOwned
        /\ mutation = WakeOwned => mutation.owner = "none"
        /\ mutation.owner \in {"affinity", "block", "steal"} \/ mutation = WakeOwned
    BY <2>3, <2>4, MutationIs
  <2>6. /\ a # Task /\ ret[a] \in {"idle", "finish"}
        /\ a \in Setters => ret[a] = "finish"
        /\ a \in Wakers => ret[a] = "idle"
    BY <2>1
       DEF Inv, RoleInv, RoleTask, RoleWaker, RoleSetter, TaskLabels, ClaimLabels,
           LinkLabels
  <2>7. task.state = "Blocked" =>
           \/ mutation.owner \in {"affinity", "block"}
           \/ \E b \in Actors \ {a} : pc[b] \in {"select", "unblock"}
    BY <2>1, <2>5
       DEF Inv, MutationInv, MutationTask, MutationOnce, MutationHeld, MutationActor,
           MutationCpu, StealInv, StealOnce, StealCpu, StealLabels, LinkInv, LinkOnce,
           LinkTask, LinkHeld, LinkActor, LinkCpu
  <2>8. SessionInv'
    BY SMTT(30), Z3T(30), <2>1, <2>2, <2>5, <2>6, <2>7
       DEF Inv, SessionInv, Polled, Continues,
       WakeUnderway, SchedLabels
  <2> USE <2>1, <2>2, <2>5, <2>6
  <2>9. Typed'  BY DEF Inv, Typed
  <2>10. ~fault'  BY DEF Inv
  <2>11. RoleInv'
    <3>1. RoleTask'
      BY DEF Inv, RoleInv, RoleTask, ClaimLabels, LinkLabels, SetterLabels, TaskLabels,
             SchedLabels, SafePoints
    <3>2. ASSUME NEW y \in Wakers PROVE RoleWaker(y)'
      BY <3>2
         DEF Inv, RoleInv, RoleWaker, ClaimLabels, LinkLabels, SetterLabels,
             TaskLabels, SchedLabels, SafePoints
    <3>3. ASSUME NEW z \in Setters PROVE RoleSetter(z)'
      BY <3>3
         DEF Inv, RoleInv, RoleSetter, ClaimLabels, LinkLabels, SetterLabels,
             TaskLabels, SchedLabels, SafePoints
    <3> QED  BY <3>1, <3>2, <3>3 DEF RoleInv
  <2>12. StackInv'  BY DEF Inv, StackInv, ClaimLabels, LinkLabels, RunLabels
  <2>13. TokenInv'  BY DEF Inv, TokenInv, TokenTask, TokenActor, TokenCpu
  <2>14. LinkInv'
    <3>1. \A x \in Cpus : CpuLinks(x)' <=> CpuLinks(x)  BY DEF CpuLinks
    <3>2. \A b \in Actors : ActorLinks(b)' <=> ActorLinks(b)
      BY DEF ActorLinks, LinkLabels
    <3> QED  BY <3>1, <3>2, LinkFrame DEF Inv
  <2>15. HelperInv'  BY DEF Inv, HelperInv, HelperCpu
  <2>16. SlotInv'  BY DEF Inv, SlotInv, SlotTask, SlotHeld, SlotActor, SlotCpu
  <2>17. MutationInv'
    <3>1. MutationTask'
      BY DEF Inv, MutationInv, MutationTask, HoldsAffinity, ClaimLabels, LinkLabels,
             SelfLabels, SchedLabels, SetterLabels
    <3>2. MutationOnce'
      BY SMTT(30), Z3T(30)
         DEF Inv, MutationInv, MutationOnce, HoldsAffinity, ClaimLabels, LinkLabels,
             SelfLabels, SchedLabels, SetterLabels
    <3>3. MutationHeld'
      BY DEF Inv, MutationInv, MutationHeld, HoldsAffinity, ClaimLabels, LinkLabels,
             SelfLabels, SchedLabels, SetterLabels
    <3>4. ASSUME NEW b \in Actors PROVE MutationActor(b)'
      BY <3>4
         DEF Inv, MutationInv, MutationActor, HoldsAffinity, ClaimLabels, LinkLabels,
             SelfLabels, SchedLabels, SetterLabels
    <3>5. ASSUME NEW x \in Cpus PROVE MutationCpu(x)'
      BY <3>5
         DEF Inv, MutationInv, MutationCpu, HoldsAffinity, ClaimLabels, LinkLabels,
             SelfLabels, SchedLabels, SetterLabels
    <3> QED  BY <3>1, <3>2, <3>3, <3>4, <3>5 DEF MutationInv
  <2>18. StealInv'
    <3>1. StealOnce'  BY DEF Inv, StealInv, StealOnce, StealLabels
    <3>2. ASSUME NEW x \in Cpus PROVE StealCpu(x)'
      BY <3>2 DEF Inv, StealInv, StealCpu, StealLabels
    <3> QED  BY <3>1, <3>2 DEF StealInv
  <2>19. PlaceInv'
    <3>1. PlaceTask'  BY DEF Inv, PlaceInv, PlaceTask
    <3>2. ASSUME NEW b \in Actors PROVE PlaceActor(b)'
      BY <3>2 DEF Inv, PlaceInv, PlaceActor, LinkLabels
    <3>3. ASSUME NEW x \in Cpus PROVE PlaceCpu(x)'
      BY <3>3 DEF Inv, PlaceInv, PlaceCpu
    <3> QED  BY <3>1, <3>2, <3>3 DEF PlaceInv
  <2>20. MaskInv'
    BY DEF Inv, MaskInv, MaskTask, MaskSetter, MaskActor, MaskCpu, LinkLabels
  <2>21. PreemptInv'  BY DEF Inv, PreemptInv, Picked, MoveUnderway
  <2>22. SelfInv'
    BY DEF Inv, SelfInv, SelfTask, SelfCpu, SelfMoves, Continues, SchedLabels
  <2>23. ActiveInv'
    BY DEF Inv, ActiveInv, InSession, SessionLabels, SchedLabels, ClaimLabels,
       LinkLabels
  <2>24. QED
    BY <2>8, <2>9, <2>10, <2>11, <2>12, <2>13, <2>14, <2>15, <2>16, <2>17, <2>18,
       <2>19, <2>20, <2>21, <2>22, <2>23 DEF Inv
\* select_run_queue: the frozen owner of a blocked task, or any allowed queue.
<1>4. CASE SelectRunQueue(a)
  <2> USE <1>4
  <2> USE TaskWakeAssumption DEF Actors
  <2>1. /\ pc[a] = "select" /\ Goto(a, "unblock")
        /\ UNCHANGED <<bw, mutation, task, hand, ready, cur, cpu, locked, ret,
                       events, budget, fault>>
    BY DEF SelectRunQueue, Here, words, sched, env
  <2>2. /\ pc'[a] = "unblock" /\ pc' \in [Actors -> Labels]
        /\ \A b \in Actors \ {a} : pc'[b] = pc[b]
    BY <2>1, Goes DEF Inv, Typed, Labels, WakeLabels, TaskLabels, SetterLabels
  <2>3. PICK c \in IF task.state = "Blocked" THEN {task.cpu} ELSE task.mask :
           loc' = [loc EXCEPT ![a].cpu = c]
    BY DEF SelectRunQueue
  <2>4. c \in Cpus /\ loc \in [Actors -> Locals]  BY <2>3 DEF Inv, Typed, TaskWords
  <2>5. /\ task.state = "Blocked" => loc'[a].cpu = task.cpu
        /\ loc' \in [Actors -> Locals]
        /\ \A b \in Actors \ {a} : loc'[b] = loc[b]
    BY SMTT(30), Z3T(30), <2>3, <2>4 DEF Locals
  <2> USE <2>1, <2>2, <2>5
  <2>6. Typed'  BY DEF Inv, Typed
  <2>7. ~fault'  BY DEF Inv
  <2>8. RoleInv'
    <3>1. RoleTask'
      BY DEF Inv, RoleInv, RoleTask, ClaimLabels, LinkLabels, SetterLabels, TaskLabels,
             SchedLabels, SafePoints
    <3>2. ASSUME NEW y \in Wakers PROVE RoleWaker(y)'
      BY <3>2
         DEF Inv, RoleInv, RoleWaker, ClaimLabels, LinkLabels, SetterLabels,
             TaskLabels, SchedLabels, SafePoints
    <3>3. ASSUME NEW z \in Setters PROVE RoleSetter(z)'
      BY <3>3
         DEF Inv, RoleInv, RoleSetter, ClaimLabels, LinkLabels, SetterLabels,
             TaskLabels, SchedLabels, SafePoints
    <3> QED  BY <3>1, <3>2, <3>3 DEF RoleInv
  <2>9. StackInv'  BY DEF Inv, StackInv, ClaimLabels, LinkLabels, RunLabels
  <2>10. TokenInv'
    <3>1. TokenTask'  BY DEF Inv, TokenInv, TokenTask
    <3>2. ASSUME NEW b \in Actors PROVE TokenActor(b)'
      BY <3>2 DEF Inv, TokenInv, TokenActor
    <3>3. ASSUME NEW x \in Cpus PROVE TokenCpu(x)'
      BY <3>3 DEF Inv, TokenInv, TokenCpu
    <3> QED  BY <3>1, <3>2, <3>3 DEF TokenInv
  <2>11. LinkInv'
    <3>1. \A x \in Cpus : CpuLinks(x)' <=> CpuLinks(x)  BY DEF CpuLinks
    <3>2. \A b \in Actors : ActorLinks(b)' <=> ActorLinks(b)
      BY DEF ActorLinks, LinkLabels
    <3> QED  BY <3>1, <3>2, LinkFrame DEF Inv
  <2>12. HelperInv'  BY DEF Inv, HelperInv, HelperCpu
  <2>13. SlotInv'  BY DEF Inv, SlotInv, SlotTask, SlotHeld, SlotActor, SlotCpu
  <2>14. MutationInv'
    <3>1. MutationTask'
      BY DEF Inv, MutationInv, MutationTask, HoldsAffinity, ClaimLabels, LinkLabels,
             SelfLabels, SchedLabels, SetterLabels
    <3>2. MutationOnce'
      BY SMTT(30), Z3T(30)
         DEF Inv, MutationInv, MutationOnce, HoldsAffinity, ClaimLabels, LinkLabels,
             SelfLabels, SchedLabels, SetterLabels
    <3>3. MutationHeld'
      BY DEF Inv, MutationInv, MutationHeld, HoldsAffinity, ClaimLabels, LinkLabels,
             SelfLabels, SchedLabels, SetterLabels
    <3>4. ASSUME NEW b \in Actors PROVE MutationActor(b)'
      BY <3>4
         DEF Inv, MutationInv, MutationActor, HoldsAffinity, ClaimLabels, LinkLabels,
             SelfLabels, SchedLabels, SetterLabels
    <3>5. ASSUME NEW x \in Cpus PROVE MutationCpu(x)'
      BY <3>5
         DEF Inv, MutationInv, MutationCpu, HoldsAffinity, ClaimLabels, LinkLabels,
             SelfLabels, SchedLabels, SetterLabels
    <3> QED  BY <3>1, <3>2, <3>3, <3>4, <3>5 DEF MutationInv
  <2>15. StealInv'  BY DEF Inv, StealInv, StealOnce, StealCpu, StealLabels
  <2>16. PlaceInv'
    <3>1. PlaceTask'  BY DEF Inv, PlaceInv, PlaceTask
    <3>2. ASSUME NEW b \in Actors PROVE PlaceActor(b)'
      BY <3>2 DEF Inv, PlaceInv, PlaceActor, LinkLabels
    <3>3. ASSUME NEW x \in Cpus PROVE PlaceCpu(x)'
      BY <3>3 DEF Inv, PlaceInv, PlaceCpu
    <3> QED  BY <3>1, <3>2, <3>3 DEF PlaceInv
  <2>17. MaskInv'
    <3>1. MaskTask'  BY DEF Inv, MaskInv, MaskTask, LinkLabels
    <3>2. ASSUME NEW z \in Setters PROVE MaskSetter(z)'
      BY <3>2 DEF Inv, MaskInv, MaskSetter, LinkLabels
    <3>3. ASSUME NEW b \in Actors PROVE MaskActor(b)'
      BY <3>3 DEF Inv, MaskInv, MaskActor, LinkLabels
    <3>4. ASSUME NEW x \in Cpus PROVE MaskCpu(x)'
      BY <3>4 DEF Inv, MaskInv, MaskCpu, LinkLabels
    <3> QED  BY <3>1, <3>2, <3>3, <3>4 DEF MaskInv
  <2>18. PreemptInv'  BY DEF Inv, PreemptInv, Picked, MoveUnderway
  <2>19. SelfInv'
    BY DEF Inv, SelfInv, SelfTask, SelfCpu, SelfMoves, Continues, SchedLabels
  <2>20. ActiveInv'
    BY DEF Inv, ActiveInv, InSession, SessionLabels, SchedLabels, ClaimLabels,
       LinkLabels
  <2>21. SessionInv'  BY DEF Inv, SessionInv, Polled, Continues, WakeUnderway, SchedLabels
  <2>22. QED
    BY <2>6, <2>7, <2>8, <2>9, <2>10, <2>11, <2>12, <2>13, <2>14, <2>15, <2>16, <2>17,
       <2>18, <2>19, <2>20, <2>21 DEF Inv
\* put_task_with_state(Blocked): the claimed wake makes the blocked task Ready.
<1>5. ASSUME Unblock(a), task.state = "Blocked" PROVE Inv'
  <2> USE <1>5
  <2> USE TaskWakeAssumption DEF Actors
  <2>1. /\ pc[a] = "unblock" /\ Goto(a, "handoff")
        /\ UNCHANGED <<bw, mutation, hand, ready, cur, cpu, locked, ret, loc,
                       events, budget, fault>>
    BY DEF Unblock, Here, sched, env
  <2>2. /\ pc'[a] = "handoff" /\ pc' \in [Actors -> Labels]
        /\ \A b \in Actors \ {a} : pc'[b] = pc[b]
    BY <2>1, Goes DEF Inv, Typed, Labels, WakeLabels, TaskLabels, SetterLabels
  <2>3. loc[a].cpu \in Cpus  BY DEF Inv, Typed, Locals
  <2>4. /\ task \in TaskWords /\ task' = [task EXCEPT !.state = "Ready", !.cpu = loc[a].cpu]
    BY DEF Inv, Typed, Unblock
  <2>5. /\ task'.state = "Ready" /\ task'.cpu = loc[a].cpu
        /\ task'.mask = task.mask /\ task'.helper = task.helper
        /\ task'.resched = task.resched
        /\ task' \in TaskWords
    BY <2>4, <2>3 DEF TaskWords
  <2>6. /\ mutation = WakeOwned /\ mutation.owner = "none" /\ ~hand.pending
        /\ \A b \in Actors : pc[b] \in ClaimLabels => b = a
        /\ loc[a].cpu = task.cpu /\ task.cpu \in task.mask
    BY SMTT(30), Z3T(30), <2>1
       DEF Inv, MutationInv, MutationTask, MutationOnce, MutationHeld, MutationActor,
           MutationCpu, ClaimLabels, WakeOwned, Mut, MaskInv, MaskTask, MaskSetter,
           MaskActor, MaskCpu, PlaceInv, PlaceTask, PlaceActor, PlaceCpu
  <2>7. /\ ready = {} /\ \A c \in Cpus : ~CpuLinks(c)
        /\ \A b \in Actors : ~ActorLinks(b)
    BY DEF Inv, LinkInv, LinkOnce, LinkTask, LinkHeld, LinkActor, LinkCpu
  <2>8. /\ pc[Task] \in ClaimLabels => ret[Task] = "resched"
        /\ pc[Task] \notin {"publish", "commit", "finishblock"}
    BY <2>6
       DEF Inv, StackInv, MutationInv, MutationTask, MutationOnce, MutationHeld,
           MutationActor, MutationCpu
  <2>9. \A b \in Actors : ~HoldsAffinity(b)
    BY <2>6
       DEF Inv, MutationInv, MutationTask, MutationOnce, MutationHeld, MutationActor,
           MutationCpu
  <2>10. StackInv'
    BY <2>1, <2>2, <2>5, <2>8 DEF Inv, StackInv, ClaimLabels, LinkLabels, RunLabels
  <2>11. MaskInv'
    BY <2>1, <2>2, <2>5, <2>6, <2>9
       DEF Inv, MaskInv, MaskTask, MaskSetter, MaskActor, MaskCpu, HoldsAffinity,
           SetterLabels
  <2> USE <2>1, <2>2, <2>5, <2>6, <2>7, <2>9
  <2>12. Typed'  BY DEF Inv, Typed
  <2>13. ~fault'  BY DEF Inv
  <2>14. RoleInv'
    <3>1. RoleTask'
      BY DEF Inv, RoleInv, RoleTask, ClaimLabels, LinkLabels, SetterLabels, TaskLabels,
             SchedLabels, SafePoints
    <3>2. ASSUME NEW y \in Wakers PROVE RoleWaker(y)'
      BY <3>2
         DEF Inv, RoleInv, RoleWaker, ClaimLabels, LinkLabels, SetterLabels,
             TaskLabels, SchedLabels, SafePoints
    <3>3. ASSUME NEW z \in Setters PROVE RoleSetter(z)'
      BY <3>3
         DEF Inv, RoleInv, RoleSetter, ClaimLabels, LinkLabels, SetterLabels,
             TaskLabels, SchedLabels, SafePoints
    <3> QED  BY <3>1, <3>2, <3>3 DEF RoleInv
  <2>15. TokenInv'
    <3>1. TokenTask'  BY DEF Inv, TokenInv, TokenTask
    <3>2. ASSUME NEW b \in Actors PROVE TokenActor(b)'
      BY <3>2 DEF Inv, TokenInv, TokenActor
    <3>3. ASSUME NEW x \in Cpus PROVE TokenCpu(x)'
      BY <3>3 DEF Inv, TokenInv, TokenCpu
    <3> QED  BY <3>1, <3>2, <3>3 DEF TokenInv
  <2>16. LinkInv'
    <3>1. LinkOnce'
      BY SMTT(30), Z3T(30) DEF Inv, LinkInv, LinkOnce, CpuLinks, ActorLinks, LinkLabels
    <3>2. LinkTask'  BY DEF Inv, LinkInv, LinkTask, CpuLinks, ActorLinks, LinkLabels
    <3>3. LinkHeld'  BY DEF Inv, LinkInv, LinkHeld, CpuLinks, ActorLinks, LinkLabels
    <3>4. ASSUME NEW b \in Actors PROVE LinkActor(b)'
      BY <3>4 DEF Inv, LinkInv, LinkActor, CpuLinks, ActorLinks, LinkLabels
    <3>5. ASSUME NEW x \in Cpus PROVE LinkCpu(x)'
      BY <3>5 DEF Inv, LinkInv, LinkCpu, CpuLinks, ActorLinks, LinkLabels
    <3> QED  BY <3>1, <3>2, <3>3, <3>4, <3>5 DEF LinkInv
  <2>17. HelperInv'  BY DEF Inv, HelperInv, HelperCpu
  <2>18. SlotInv'  BY DEF Inv, SlotInv, SlotTask, SlotHeld, SlotActor, SlotCpu
  <2>19. MutationInv'
    <3>1. MutationTask'
      BY DEF Inv, MutationInv, MutationTask, HoldsAffinity, ClaimLabels, LinkLabels,
             SelfLabels, SchedLabels, SetterLabels
    <3>2. MutationOnce'
      BY SMTT(30), Z3T(30)
         DEF Inv, MutationInv, MutationOnce, HoldsAffinity, ClaimLabels, LinkLabels,
             SelfLabels, SchedLabels, SetterLabels
    <3>3. MutationHeld'
      BY DEF Inv, MutationInv, MutationHeld, HoldsAffinity, ClaimLabels, LinkLabels,
             SelfLabels, SchedLabels, SetterLabels
    <3>4. ASSUME NEW b \in Actors PROVE MutationActor(b)'
      BY <3>4
         DEF Inv, MutationInv, MutationActor, HoldsAffinity, ClaimLabels, LinkLabels,
             SelfLabels, SchedLabels, SetterLabels
    <3>5. ASSUME NEW x \in Cpus PROVE MutationCpu(x)'
      BY <3>5
         DEF Inv, MutationInv, MutationCpu, HoldsAffinity, ClaimLabels, LinkLabels,
             SelfLabels, SchedLabels, SetterLabels
    <3> QED  BY <3>1, <3>2, <3>3, <3>4, <3>5 DEF MutationInv
  <2>20. StealInv'  BY DEF Inv, StealInv, StealOnce, StealCpu, StealLabels
  <2>21. PlaceInv'
    <3>1. PlaceTask'  BY DEF Inv, PlaceInv, PlaceTask
    <3>2. ASSUME NEW b \in Actors PROVE PlaceActor(b)'
      BY <3>2 DEF Inv, PlaceInv, PlaceActor, LinkLabels
    <3>3. ASSUME NEW x \in Cpus PROVE PlaceCpu(x)'
      BY <3>3 DEF Inv, PlaceInv, PlaceCpu
    <3> QED  BY <3>1, <3>2, <3>3 DEF PlaceInv
  <2>22. PreemptInv'  BY DEF Inv, PreemptInv, Picked, MoveUnderway, CpuLinks
  <2>23. SelfInv'
    BY DEF Inv, SelfInv, SelfTask, SelfCpu, SelfMoves, Continues, SchedLabels
  <2>24. ActiveInv'
    BY DEF Inv, ActiveInv, InSession, SessionLabels, SchedLabels, ClaimLabels,
       LinkLabels
  <2>25. SessionInv'  BY DEF Inv, SessionInv, Polled, Continues, WakeUnderway, SchedLabels
  <2>26. QED
    BY <2>10, <2>11, <2>12, <2>13, <2>14, <2>15, <2>16, <2>17, <2>18, <2>19, <2>20,
       <2>21, <2>22, <2>23, <2>24, <2>25 DEF Inv
\* ... and leaves a task in any other state to the release of the claim.
<1>6. ASSUME Unblock(a), task.state # "Blocked" PROVE Inv'
  <2> USE <1>6
  <2> USE TaskWakeAssumption DEF Actors
  <2>1. /\ pc[a] = "unblock" /\ Goto(a, "release")
        /\ UNCHANGED <<bw, mutation, task, hand, ready, cur, cpu, locked, ret,
                       loc, events, budget, fault>>
    BY DEF Unblock, Here, sched, env
  <2>2. /\ pc'[a] = "release" /\ pc' \in [Actors -> Labels]
        /\ \A b \in Actors \ {a} : pc'[b] = pc[b]
    BY <2>1, Goes DEF Inv, Typed, Labels, WakeLabels, TaskLabels, SetterLabels
  <2> USE <2>1, <2>2
  <2>3. Typed'  BY DEF Inv, Typed
  <2>4. ~fault'  BY DEF Inv
  <2>5. RoleInv'
    <3>1. RoleTask'
      BY DEF Inv, RoleInv, RoleTask, ClaimLabels, LinkLabels, SetterLabels, TaskLabels,
             SchedLabels, SafePoints
    <3>2. ASSUME NEW y \in Wakers PROVE RoleWaker(y)'
      BY <3>2
         DEF Inv, RoleInv, RoleWaker, ClaimLabels, LinkLabels, SetterLabels,
             TaskLabels, SchedLabels, SafePoints
    <3>3. ASSUME NEW z \in Setters PROVE RoleSetter(z)'
      BY <3>3
         DEF Inv, RoleInv, RoleSetter, ClaimLabels, LinkLabels, SetterLabels,
             TaskLabels, SchedLabels, SafePoints
    <3> QED  BY <3>1, <3>2, <3>3 DEF RoleInv
  <2>6. StackInv'  BY DEF Inv, StackInv, ClaimLabels, LinkLabels, RunLabels
  <2>7. TokenInv'  BY DEF Inv, TokenInv, TokenTask, TokenActor, TokenCpu
  <2>8. LinkInv'
    <3>1. \A x \in Cpus : CpuLinks(x)' <=> CpuLinks(x)  BY DEF CpuLinks
    <3>2. \A b \in Actors : ActorLinks(b)' <=> ActorLinks(b)
      BY DEF ActorLinks, LinkLabels
    <3> QED  BY <3>1, <3>2, LinkFrame DEF Inv
  <2>9. HelperInv'  BY DEF Inv, HelperInv, HelperCpu
  <2>10. SlotInv'  BY DEF Inv, SlotInv, SlotTask, SlotHeld, SlotActor, SlotCpu
  <2>11. MutationInv'
    <3>1. MutationTask'
      BY DEF Inv, MutationInv, MutationTask, HoldsAffinity, ClaimLabels, LinkLabels,
             SelfLabels, SchedLabels, SetterLabels
    <3>2. MutationOnce'
      BY SMTT(30), Z3T(30)
         DEF Inv, MutationInv, MutationOnce, HoldsAffinity, ClaimLabels, LinkLabels,
             SelfLabels, SchedLabels, SetterLabels
    <3>3. MutationHeld'
      BY DEF Inv, MutationInv, MutationHeld, HoldsAffinity, ClaimLabels, LinkLabels,
             SelfLabels, SchedLabels, SetterLabels
    <3>4. ASSUME NEW b \in Actors PROVE MutationActor(b)'
      BY <3>4
         DEF Inv, MutationInv, MutationActor, HoldsAffinity, ClaimLabels, LinkLabels,
             SelfLabels, SchedLabels, SetterLabels
    <3>5. ASSUME NEW x \in Cpus PROVE MutationCpu(x)'
      BY <3>5
         DEF Inv, MutationInv, MutationCpu, HoldsAffinity, ClaimLabels, LinkLabels,
             SelfLabels, SchedLabels, SetterLabels
    <3> QED  BY <3>1, <3>2, <3>3, <3>4, <3>5 DEF MutationInv
  <2>12. StealInv'  BY DEF Inv, StealInv, StealOnce, StealCpu, StealLabels
  <2>13. PlaceInv'  BY DEF Inv, PlaceInv, PlaceTask, PlaceActor, PlaceCpu, LinkLabels
  <2>14. MaskInv'
    BY DEF Inv, MaskInv, MaskTask, MaskSetter, MaskActor, MaskCpu, LinkLabels
  <2>15. PreemptInv'  BY DEF Inv, PreemptInv, Picked, MoveUnderway
  <2>16. SelfInv'
    BY DEF Inv, SelfInv, SelfTask, SelfCpu, SelfMoves, Continues, SchedLabels
  <2>17. ActiveInv'
    BY DEF Inv, ActiveInv, InSession, SessionLabels, SchedLabels, ClaimLabels,
       LinkLabels
  <2>18. SessionInv'  BY DEF Inv, SessionInv, Polled, Continues, WakeUnderway, SchedLabels
  <2>19. QED
    BY <2>3, <2>4, <2>5, <2>6, <2>7, <2>8, <2>9, <2>10, <2>11, <2>12, <2>13, <2>14,
       <2>15, <2>16, <2>17, <2>18 DEF Inv
\* publish_wake_handoff reads the owner word; nobody else can have delegated.
<1>7. CASE LoadOwner(a)
  <2> USE <1>7
  <2> USE TaskWakeAssumption DEF Actors
  <2>1. pc[a] = "handoff" /\ ~hand.pending
    BY DEF LoadOwner, Here, Inv, MutationInv, MutationTask, MutationOnce, MutationHeld,
       MutationActor, MutationCpu, ClaimLabels, LinkLabels
  <2>2. /\ pc[a] = "handoff"
        /\ UNCHANGED <<bw, mutation, task, hand, ready, cur, cpu, locked, ret,
                       events, budget, fault>>
    BY <2>1 DEF LoadOwner, Here, words, sched, env
  <2>3. /\ hand.token = 0 => Goto(a, "enqueue") /\ loc' = loc
        /\ hand.token # 0 => Goto(a, "store") /\ loc' = [loc EXCEPT ![a].seen = hand.token]
    BY <2>1 DEF LoadOwner
  <2>4. /\ pc' \in [Actors -> Labels] /\ pc'[a] \in {"enqueue", "store"}
        /\ pc'[a] = "enqueue" <=> hand.token = 0
        /\ \A b \in Actors \ {a} : pc'[b] = pc[b]
    BY SMTT(30), Z3T(30), <2>3, Goes
       DEF Inv, Typed, Labels, WakeLabels, TaskLabels, SetterLabels
  <2>5. loc \in [Actors -> Locals] /\ hand.token \in Nat  BY DEF Inv, Typed, HandWords
  <2>6. /\ pc'[a] = "store" => loc'[a].seen = hand.token
        /\ loc' \in [Actors -> Locals] /\ loc'[a].cpu = loc[a].cpu
        /\ \A b \in Actors \ {a} : loc'[b] = loc[b]
    BY SMTT(30), Z3T(30), <2>3, <2>5, <2>4 DEF Locals
  <2>7. pc[a] \in LinkLabels /\ pc'[a] \in LinkLabels  BY <2>2, <2>4 DEF LinkLabels
  <2> USE <2>2, <2>4, <2>6, <2>7
  <2>8. Typed'  BY DEF Inv, Typed
  <2>9. ~fault'  BY DEF Inv
  <2>10. RoleInv'
    <3>1. RoleTask'
      BY DEF Inv, RoleInv, RoleTask, ClaimLabels, LinkLabels, SetterLabels, TaskLabels,
             SchedLabels, SafePoints
    <3>2. ASSUME NEW y \in Wakers PROVE RoleWaker(y)'
      BY <3>2
         DEF Inv, RoleInv, RoleWaker, ClaimLabels, LinkLabels, SetterLabels,
             TaskLabels, SchedLabels, SafePoints
    <3>3. ASSUME NEW z \in Setters PROVE RoleSetter(z)'
      BY <3>3
         DEF Inv, RoleInv, RoleSetter, ClaimLabels, LinkLabels, SetterLabels,
             TaskLabels, SchedLabels, SafePoints
    <3> QED  BY <3>1, <3>2, <3>3 DEF RoleInv
  <2>11. StackInv'  BY DEF Inv, StackInv, ClaimLabels, LinkLabels, RunLabels
  <2>12. TokenInv'
    <3>1. TokenTask'  BY DEF Inv, TokenInv, TokenTask
    <3>2. ASSUME NEW b \in Actors PROVE TokenActor(b)'
      BY <3>2 DEF Inv, TokenInv, TokenActor
    <3>3. ASSUME NEW x \in Cpus PROVE TokenCpu(x)'
      BY <3>3 DEF Inv, TokenInv, TokenCpu
    <3> QED  BY <3>1, <3>2, <3>3 DEF TokenInv
  <2>13. LinkInv'
    <3>1. \A x \in Cpus : CpuLinks(x)' <=> CpuLinks(x)  BY DEF CpuLinks
    <3>2. \A b \in Actors : ActorLinks(b)' <=> ActorLinks(b)
      BY DEF ActorLinks, LinkLabels
    <3> QED  BY <3>1, <3>2, LinkFrame DEF Inv
  <2>14. HelperInv'  BY DEF Inv, HelperInv, HelperCpu
  <2>15. SlotInv'  BY DEF Inv, SlotInv, SlotTask, SlotHeld, SlotActor, SlotCpu
  <2>16. MutationInv'
    <3>1. MutationTask'
      BY DEF Inv, MutationInv, MutationTask, HoldsAffinity, ClaimLabels, LinkLabels,
             SelfLabels, SchedLabels, SetterLabels
    <3>2. MutationOnce'
      BY SMTT(30), Z3T(30)
         DEF Inv, MutationInv, MutationOnce, HoldsAffinity, ClaimLabels, LinkLabels,
             SelfLabels, SchedLabels, SetterLabels
    <3>3. MutationHeld'
      BY DEF Inv, MutationInv, MutationHeld, HoldsAffinity, ClaimLabels, LinkLabels,
             SelfLabels, SchedLabels, SetterLabels
    <3>4. ASSUME NEW b \in Actors PROVE MutationActor(b)'
      BY <3>4
         DEF Inv, MutationInv, MutationActor, HoldsAffinity, ClaimLabels, LinkLabels,
             SelfLabels, SchedLabels, SetterLabels
    <3>5. ASSUME NEW x \in Cpus PROVE MutationCpu(x)'
      BY <3>5
         DEF Inv, MutationInv, MutationCpu, HoldsAffinity, ClaimLabels, LinkLabels,
             SelfLabels, SchedLabels, SetterLabels
    <3> QED  BY <3>1, <3>2, <3>3, <3>4, <3>5 DEF MutationInv
  <2>17. StealInv'  BY DEF Inv, StealInv, StealOnce, StealCpu, StealLabels
  <2>18. PlaceInv'
    <3>1. PlaceTask'  BY DEF Inv, PlaceInv, PlaceTask
    <3>2. ASSUME NEW b \in Actors PROVE PlaceActor(b)'
      BY <3>2 DEF Inv, PlaceInv, PlaceActor, LinkLabels
    <3>3. ASSUME NEW x \in Cpus PROVE PlaceCpu(x)'
      BY <3>3 DEF Inv, PlaceInv, PlaceCpu
    <3> QED  BY <3>1, <3>2, <3>3 DEF PlaceInv
  <2>19. MaskInv'
    <3>1. MaskTask'  BY DEF Inv, MaskInv, MaskTask, LinkLabels
    <3>2. ASSUME NEW z \in Setters PROVE MaskSetter(z)'
      BY <3>2 DEF Inv, MaskInv, MaskSetter, LinkLabels
    <3>3. ASSUME NEW b \in Actors PROVE MaskActor(b)'
      BY <3>3 DEF Inv, MaskInv, MaskActor, LinkLabels
    <3>4. ASSUME NEW x \in Cpus PROVE MaskCpu(x)'
      BY <3>4 DEF Inv, MaskInv, MaskCpu, LinkLabels
    <3> QED  BY <3>1, <3>2, <3>3, <3>4 DEF MaskInv
  <2>20. PreemptInv'  BY DEF Inv, PreemptInv, Picked, MoveUnderway
  <2>21. SelfInv'
    BY DEF Inv, SelfInv, SelfTask, SelfCpu, SelfMoves, Continues, SchedLabels
  <2>22. ActiveInv'
    BY DEF Inv, ActiveInv, InSession, SessionLabels, SchedLabels, ClaimLabels,
       LinkLabels
  <2>23. SessionInv'  BY DEF Inv, SessionInv, Polled, Continues, WakeUnderway, SchedLabels
  <2>24. QED
    BY <2>8, <2>9, <2>10, <2>11, <2>12, <2>13, <2>14, <2>15, <2>16, <2>17, <2>18,
       <2>19, <2>20, <2>21, <2>22, <2>23 DEF Inv
\* publish_wake_handoff stores the pointer in a slot that is empty.
<1>8. CASE StoreHandoff(a)
  <2> USE <1>8
  <2> USE TaskWakeAssumption DEF Actors
  <2>1. pc[a] = "store" /\ ActorLinks(a)
    BY DEF StoreHandoff, Here, ActorLinks, LinkLabels
  <2>2. ~hand.slot
    BY <2>1
       DEF Inv, SlotInv, SlotTask, SlotHeld, SlotActor, SlotCpu, LinkInv, LinkOnce,
           LinkTask, LinkHeld, LinkActor, LinkCpu, ActorLinks, CpuLinks, LinkLabels
  <2>3. /\ pc[a] = "store" /\ Goto(a, "arm")
        /\ UNCHANGED <<bw, mutation, task, ready, cur, cpu, locked, ret, loc,
                       events, budget, fault>>
    BY <2>2 DEF StoreHandoff, Here, sched, env
  <2>4. /\ pc'[a] = "arm" /\ pc' \in [Actors -> Labels]
        /\ \A b \in Actors \ {a} : pc'[b] = pc[b]
    BY <2>3, Goes DEF Inv, Typed, Labels, WakeLabels, TaskLabels, SetterLabels
  <2>5. /\ hand \in HandWords /\ hand' = [hand EXCEPT !.slot = TRUE]
    BY <2>2 DEF Inv, Typed, StoreHandoff
  <2>6. /\ hand'.token = hand.token /\ hand'.cpu = hand.cpu
        /\ hand'.pending = hand.pending /\ hand'.slot = TRUE
        /\ hand'.gen = hand.gen
        /\ hand' \in HandWords
    BY <2>5 DEF HandWords
  <2>7. StealInv'
    BY <2>1, <2>3, <2>6
       DEF Inv, StealInv, StealOnce, StealCpu, LinkInv, LinkOnce, LinkTask, LinkHeld,
           LinkActor, LinkCpu
  <2> USE <2>2, <2>3, <2>4, <2>6
  <2>8. Typed'  BY DEF Inv, Typed
  <2>9. ~fault'  BY DEF Inv
  <2>10. RoleInv'
    <3>1. RoleTask'
      BY DEF Inv, RoleInv, RoleTask, ClaimLabels, LinkLabels, SetterLabels, TaskLabels,
             SchedLabels, SafePoints
    <3>2. ASSUME NEW y \in Wakers PROVE RoleWaker(y)'
      BY <3>2
         DEF Inv, RoleInv, RoleWaker, ClaimLabels, LinkLabels, SetterLabels,
             TaskLabels, SchedLabels, SafePoints
    <3>3. ASSUME NEW z \in Setters PROVE RoleSetter(z)'
      BY <3>3
         DEF Inv, RoleInv, RoleSetter, ClaimLabels, LinkLabels, SetterLabels,
             TaskLabels, SchedLabels, SafePoints
    <3> QED  BY <3>1, <3>2, <3>3 DEF RoleInv
  <2>11. StackInv'  BY DEF Inv, StackInv, ClaimLabels, LinkLabels, RunLabels
  <2>12. TokenInv'  BY DEF Inv, TokenInv, TokenTask, TokenActor, TokenCpu
  <2>13. LinkInv'
    <3>1. \A x \in Cpus : CpuLinks(x)' <=> CpuLinks(x)  BY DEF CpuLinks
    <3>2. \A b \in Actors : ActorLinks(b)' <=> ActorLinks(b)
      BY DEF ActorLinks, LinkLabels
    <3> QED  BY <3>1, <3>2, LinkFrame DEF Inv
  <2>14. HelperInv'  BY DEF Inv, HelperInv, HelperCpu
  <2>15. SlotInv'  BY DEF Inv, SlotInv, SlotTask, SlotHeld, SlotActor, SlotCpu
  <2>16. MutationInv'
    <3>1. \A b \in Actors : HoldsAffinity(b)' => HoldsAffinity(b)
      BY DEF HoldsAffinity, SelfLabels, SchedLabels, SetterLabels, ClaimLabels,
         LinkLabels
    <3>2. MutationTask'
      BY <3>1 DEF Inv, MutationInv, MutationTask, ClaimLabels, LinkLabels
    <3>3. MutationOnce'
      BY <3>1 DEF Inv, MutationInv, MutationOnce, ClaimLabels, LinkLabels
    <3>4. MutationHeld'
      BY <3>1 DEF Inv, MutationInv, MutationHeld, ClaimLabels, LinkLabels
    <3>5. ASSUME NEW b \in Actors PROVE MutationActor(b)'
      BY <3>1, <3>5 DEF Inv, MutationInv, MutationActor, ClaimLabels, LinkLabels
    <3>6. ASSUME NEW x \in Cpus PROVE MutationCpu(x)'
      BY <3>1, <3>6 DEF Inv, MutationInv, MutationCpu, ClaimLabels, LinkLabels
    <3> QED  BY <3>2, <3>3, <3>4, <3>5, <3>6 DEF MutationInv
  <2>17. PlaceInv'
    <3>1. PlaceTask'  BY DEF Inv, PlaceInv, PlaceTask
    <3>2. ASSUME NEW b \in Actors PROVE PlaceActor(b)'
      BY <3>2 DEF Inv, PlaceInv, PlaceActor, LinkLabels
    <3>3. ASSUME NEW x \in Cpus PROVE PlaceCpu(x)'
      BY <3>3 DEF Inv, PlaceInv, PlaceCpu
    <3> QED  BY <3>1, <3>2, <3>3 DEF PlaceInv
  <2>18. MaskInv'
    BY DEF Inv, MaskInv, MaskTask, MaskSetter, MaskActor, MaskCpu, LinkLabels
  <2>19. PreemptInv'  BY DEF Inv, PreemptInv, Picked, MoveUnderway
  <2>20. SelfInv'
    BY DEF Inv, SelfInv, SelfTask, SelfCpu, SelfMoves, Continues, SchedLabels
  <2>21. ActiveInv'
    BY DEF Inv, ActiveInv, InSession, SessionLabels, SchedLabels, ClaimLabels,
       LinkLabels
  <2>22. SessionInv'  BY DEF Inv, SessionInv, Polled, Continues, WakeUnderway, SchedLabels
  <2>23. QED
    BY <2>7, <2>8, <2>9, <2>10, <2>11, <2>12, <2>13, <2>14, <2>15, <2>16, <2>17, <2>18,
       <2>19, <2>20, <2>21, <2>22 DEF Inv
\* publish_wake_handoff delegates the link to the CPU whose token it sampled.
<1>9. ASSUME ArmHandoff(a), hand.token = loc[a].seen PROVE Inv'
  <2> USE <1>9
  <2> USE TaskWakeAssumption DEF Actors
  <2>1. pc[a] = "arm" /\ ActorLinks(a)  BY DEF ArmHandoff, Here, ActorLinks, LinkLabels
  <2>2. /\ ~hand.pending /\ ready = {} /\ task.state = "Ready"
        /\ \A b \in Actors \ {a} : ~ActorLinks(b)
        /\ \A c \in Cpus : ~CpuLinks(c)
        /\ hand.token # 0 /\ hand.slot /\ task.cpu \in task.mask
        /\ mutation = WakeOwned
    BY <2>1
       DEF Inv, LinkInv, LinkOnce, LinkTask, LinkHeld, LinkActor, LinkCpu, TokenInv,
           TokenTask, TokenActor, TokenCpu, SlotInv, SlotTask, SlotHeld, SlotActor,
           SlotCpu, MaskInv, MaskTask, MaskSetter, MaskActor, MaskCpu, MutationInv,
           MutationTask, MutationOnce, MutationHeld, MutationActor, MutationCpu,
           LinkLabels,
       ClaimLabels
  <2>3. /\ pc[a] = "arm" /\ Return(a)
        /\ UNCHANGED <<bw, mutation, task, ready, cur, cpu, locked, ret, loc,
                       events, budget, fault>>
    BY <2>2 DEF ArmHandoff, Here, sched, env
  <2>4. /\ pc'[a] = ret[a] /\ pc' \in [Actors -> Labels]
        /\ \A b \in Actors \ {a} : pc'[b] = pc[b]
    BY <2>3, GoesBack DEF Inv
  <2>5. /\ a # Task => ret[a] = "idle"
        /\ a = Task => ret[a] = "resched"
    BY <2>3, <2>2
       DEF Inv, RoleInv, RoleTask, RoleWaker, RoleSetter, StackInv, ClaimLabels,
           LinkLabels
  <2>6. /\ hand \in HandWords /\ hand' = [hand EXCEPT !.pending = TRUE]
    BY <2>2 DEF Inv, Typed, ArmHandoff
  <2>7. /\ hand'.token = hand.token /\ hand'.cpu = hand.cpu
        /\ hand'.pending = TRUE /\ hand'.slot = hand.slot
        /\ hand'.gen = hand.gen
        /\ hand' \in HandWords
    BY <2>6 DEF HandWords
  <2> USE <2>2, <2>3, <2>4, <2>5, <2>7
  <2>8. Typed'  BY DEF Inv, Typed
  <2>9. ~fault'  BY DEF Inv
  <2>10. RoleInv'
    <3>1. RoleTask'
      BY DEF Inv, RoleInv, RoleTask, ClaimLabels, LinkLabels, SetterLabels, TaskLabels,
             SchedLabels, SafePoints
    <3>2. ASSUME NEW y \in Wakers PROVE RoleWaker(y)'
      BY <3>2
         DEF Inv, RoleInv, RoleWaker, ClaimLabels, LinkLabels, SetterLabels,
             TaskLabels, SchedLabels, SafePoints
    <3>3. ASSUME NEW z \in Setters PROVE RoleSetter(z)'
      BY <3>3
         DEF Inv, RoleInv, RoleSetter, ClaimLabels, LinkLabels, SetterLabels,
             TaskLabels, SchedLabels, SafePoints
    <3> QED  BY <3>1, <3>2, <3>3 DEF RoleInv
  <2>11. StackInv'  BY DEF Inv, StackInv, ClaimLabels, LinkLabels, RunLabels
  <2>12. TokenInv'
    <3>1. TokenTask'  BY DEF Inv, TokenInv, TokenTask
    <3>2. ASSUME NEW b \in Actors PROVE TokenActor(b)'
      BY <3>2 DEF Inv, TokenInv, TokenActor
    <3>3. ASSUME NEW x \in Cpus PROVE TokenCpu(x)'
      BY <3>3 DEF Inv, TokenInv, TokenCpu
    <3> QED  BY <3>1, <3>2, <3>3 DEF TokenInv
  <2>13. LinkInv'
    <3>1. LinkOnce'  BY DEF Inv, LinkInv, LinkOnce, CpuLinks, ActorLinks, LinkLabels
    <3>2. LinkTask'  BY DEF Inv, LinkInv, LinkTask, CpuLinks, ActorLinks, LinkLabels
    <3>3. LinkHeld'  BY DEF Inv, LinkInv, LinkHeld, CpuLinks, ActorLinks, LinkLabels
    <3>4. ASSUME NEW b \in Actors PROVE LinkActor(b)'
      BY <3>4 DEF Inv, LinkInv, LinkActor, CpuLinks, ActorLinks, LinkLabels
    <3>5. ASSUME NEW x \in Cpus PROVE LinkCpu(x)'
      BY <3>5 DEF Inv, LinkInv, LinkCpu, CpuLinks, ActorLinks, LinkLabels
    <3> QED  BY <3>1, <3>2, <3>3, <3>4, <3>5 DEF LinkInv
  <2>14. HelperInv'  BY DEF Inv, HelperInv, HelperCpu
  <2>15. SlotInv'  BY DEF Inv, SlotInv, SlotTask, SlotHeld, SlotActor, SlotCpu
  <2>16. MutationInv'
    <3>1. \A b \in Actors : HoldsAffinity(b)' => HoldsAffinity(b)
      BY DEF HoldsAffinity, SelfLabels, SchedLabels, SetterLabels, ClaimLabels,
         LinkLabels
    <3>2. MutationTask'
      BY <3>1
         DEF Inv, MutationInv, MutationTask, ClaimLabels, LinkLabels, ActorLinks,
             CpuLinks
    <3>3. MutationOnce'
      BY <3>1
         DEF Inv, MutationInv, MutationOnce, ClaimLabels, LinkLabels, ActorLinks,
             CpuLinks
    <3>4. MutationHeld'
      BY <3>1
         DEF Inv, MutationInv, MutationHeld, ClaimLabels, LinkLabels, ActorLinks,
             CpuLinks
    <3>5. ASSUME NEW b \in Actors PROVE MutationActor(b)'
      BY <3>1, <3>5
         DEF Inv, MutationInv, MutationOnce, MutationActor, ClaimLabels, LinkLabels,
             ActorLinks, CpuLinks
    <3>6. ASSUME NEW x \in Cpus PROVE MutationCpu(x)'
      BY <3>1, <3>6
         DEF Inv, MutationInv, MutationCpu, ClaimLabels, LinkLabels, ActorLinks, CpuLinks
    <3> QED  BY <3>2, <3>3, <3>4, <3>5, <3>6 DEF MutationInv
  <2>17. StealInv'  BY DEF Inv, StealInv, StealOnce, StealCpu, StealLabels
  <2>18. PlaceInv'
    <3>1. PlaceTask'  BY DEF Inv, PlaceInv, PlaceTask
    <3>2. ASSUME NEW b \in Actors PROVE PlaceActor(b)'
      BY <3>2 DEF Inv, PlaceInv, PlaceActor, LinkLabels
    <3>3. ASSUME NEW x \in Cpus PROVE PlaceCpu(x)'
      BY <3>3 DEF Inv, PlaceInv, PlaceCpu
    <3> QED  BY <3>1, <3>2, <3>3 DEF PlaceInv
  <2>19. MaskInv'
    BY DEF Inv, MaskInv, MaskTask, MaskSetter, MaskActor, MaskCpu, LinkLabels
  <2>20. PreemptInv'  BY DEF Inv, PreemptInv, Picked, MoveUnderway
  <2>21. SelfInv'
    BY DEF Inv, SelfInv, SelfTask, SelfCpu, SelfMoves, Continues, SchedLabels
  <2>22. ActiveInv'
    BY DEF Inv, ActiveInv, InSession, SessionLabels, SchedLabels, ClaimLabels,
       LinkLabels
  <2>23. SessionInv'  BY DEF Inv, SessionInv, Polled, Continues, WakeUnderway, SchedLabels
  <2>24. QED
    BY <2>8, <2>9, <2>10, <2>11, <2>12, <2>13, <2>14, <2>15, <2>16, <2>17, <2>18,
       <2>19, <2>20, <2>21, <2>22, <2>23 DEF Inv
\* ... or finds that the CPU has released the token meanwhile.
<1>10. ASSUME ArmHandoff(a), hand.token # loc[a].seen PROVE Inv'
  <2> USE <1>10
  <2> USE TaskWakeAssumption DEF Actors
  <2>1. pc[a] = "arm" /\ ~hand.pending
    BY DEF ArmHandoff, Here, Inv, MutationInv, MutationTask, MutationOnce,
       MutationHeld, MutationActor, MutationCpu, ClaimLabels, LinkLabels
  <2>2. /\ pc[a] = "arm" /\ Goto(a, "reclaim")
        /\ UNCHANGED <<bw, mutation, task, hand, ready, cur, cpu, locked, ret,
                       loc, events, budget, fault>>
    BY <2>1 DEF ArmHandoff, Here, sched, env
  <2>3. /\ pc'[a] = "reclaim" /\ pc' \in [Actors -> Labels]
        /\ \A b \in Actors \ {a} : pc'[b] = pc[b]
    BY <2>2, Goes DEF Inv, Typed, Labels, WakeLabels, TaskLabels, SetterLabels
  <2>4. hand.token = 0  BY <2>1 DEF Inv, TokenInv, TokenTask, TokenActor, TokenCpu
  <2> USE <2>2, <2>3, <2>4
  <2>5. Typed'  BY DEF Inv, Typed
  <2>6. ~fault'  BY DEF Inv
  <2>7. RoleInv'
    <3>1. RoleTask'
      BY DEF Inv, RoleInv, RoleTask, ClaimLabels, LinkLabels, SetterLabels, TaskLabels,
             SchedLabels, SafePoints
    <3>2. ASSUME NEW y \in Wakers PROVE RoleWaker(y)'
      BY <3>2
         DEF Inv, RoleInv, RoleWaker, ClaimLabels, LinkLabels, SetterLabels,
             TaskLabels, SchedLabels, SafePoints
    <3>3. ASSUME NEW z \in Setters PROVE RoleSetter(z)'
      BY <3>3
         DEF Inv, RoleInv, RoleSetter, ClaimLabels, LinkLabels, SetterLabels,
             TaskLabels, SchedLabels, SafePoints
    <3> QED  BY <3>1, <3>2, <3>3 DEF RoleInv
  <2>8. StackInv'  BY DEF Inv, StackInv, ClaimLabels, LinkLabels, RunLabels
  <2>9. TokenInv'  BY DEF Inv, TokenInv, TokenTask, TokenActor, TokenCpu
  <2>10. LinkInv'
    <3>1. \A x \in Cpus : CpuLinks(x)' <=> CpuLinks(x)  BY DEF CpuLinks
    <3>2. \A b \in Actors : ActorLinks(b)' <=> ActorLinks(b)
      BY DEF ActorLinks, LinkLabels
    <3> QED  BY <3>1, <3>2, LinkFrame DEF Inv
  <2>11. HelperInv'  BY DEF Inv, HelperInv, HelperCpu
  <2>12. SlotInv'  BY DEF Inv, SlotInv, SlotTask, SlotHeld, SlotActor, SlotCpu
  <2>13. MutationInv'
    <3>1. \A b \in Actors : HoldsAffinity(b)' => HoldsAffinity(b)
      BY DEF HoldsAffinity, SelfLabels, SchedLabels, SetterLabels, ClaimLabels,
         LinkLabels
    <3>2. QED  BY <3>1
                  DEF Inv, MutationInv, MutationTask, MutationOnce, MutationHeld,
                      MutationActor, MutationCpu, ClaimLabels, LinkLabels
  <2>14. StealInv'  BY DEF Inv, StealInv, StealOnce, StealCpu, StealLabels
  <2>15. PlaceInv'  BY DEF Inv, PlaceInv, PlaceTask, PlaceActor, PlaceCpu, LinkLabels
  <2>16. MaskInv'
    BY DEF Inv, MaskInv, MaskTask, MaskSetter, MaskActor, MaskCpu, LinkLabels
  <2>17. PreemptInv'  BY DEF Inv, PreemptInv, Picked, MoveUnderway
  <2>18. SelfInv'
    BY DEF Inv, SelfInv, SelfTask, SelfCpu, SelfMoves, Continues, SchedLabels
  <2>19. ActiveInv'
    BY DEF Inv, ActiveInv, InSession, SessionLabels, SchedLabels, ClaimLabels,
       LinkLabels
  <2>20. SessionInv'  BY DEF Inv, SessionInv, Polled, Continues, WakeUnderway, SchedLabels
  <2>21. QED
    BY <2>5, <2>6, <2>7, <2>8, <2>9, <2>10, <2>11, <2>12, <2>13, <2>14, <2>15, <2>16,
       <2>17, <2>18, <2>19, <2>20 DEF Inv
\* The failed publication takes its own pointer back.
<1>11. CASE ReclaimHandoff(a)
  <2> USE <1>11
  <2> USE TaskWakeAssumption DEF Actors
  <2>1. pc[a] = "reclaim"
    BY DEF ReclaimHandoff, Here, Inv, RoleInv, RoleTask, RoleWaker, RoleSetter,
       TaskLabels, SetterLabels, ClaimLabels,
       LinkLabels
  <2>2. hand.slot /\ hand.token = 0 /\ ActorLinks(a)
    BY <2>1
       DEF Inv, SlotInv, SlotTask, SlotHeld, SlotActor, SlotCpu, TokenInv, TokenTask,
           TokenActor, TokenCpu, ActorLinks, LinkLabels
  <2>3. /\ pc[a] = "reclaim" /\ Goto(a, "enqueue")
        /\ UNCHANGED <<bw, mutation, task, ready, cur, cpu, locked, ret, loc,
                       events, budget, fault>>
    BY <2>1, <2>2 DEF ReclaimHandoff, Here, sched, env
  <2>4. /\ pc'[a] = "enqueue" /\ pc' \in [Actors -> Labels]
        /\ \A b \in Actors \ {a} : pc'[b] = pc[b]
    BY <2>3, Goes DEF Inv, Typed, Labels, WakeLabels, TaskLabels, SetterLabels
  <2>5. pc[a] \in ClaimLabels /\ pc'[a] \in ClaimLabels
    BY <2>3, <2>4 DEF ClaimLabels, LinkLabels
  <2>6. /\ hand \in HandWords /\ hand' = [hand EXCEPT !.slot = FALSE]
    BY <2>2 DEF Inv, Typed, ReclaimHandoff
  <2>7. /\ hand'.token = hand.token /\ hand'.cpu = hand.cpu
        /\ hand'.pending = hand.pending /\ hand'.slot = FALSE
        /\ hand'.gen = hand.gen
        /\ hand' \in HandWords
    BY <2>6 DEF HandWords
  <2> USE <2>2, <2>3, <2>4, <2>7
  <2>8. Typed'  BY DEF Inv, Typed
  <2>9. ~fault'  BY DEF Inv
  <2>10. RoleInv'
    <3>1. RoleTask'
      BY DEF Inv, RoleInv, RoleTask, ClaimLabels, LinkLabels, SetterLabels, TaskLabels,
             SchedLabels, SafePoints
    <3>2. ASSUME NEW y \in Wakers PROVE RoleWaker(y)'
      BY <3>2
         DEF Inv, RoleInv, RoleWaker, ClaimLabels, LinkLabels, SetterLabels,
             TaskLabels, SchedLabels, SafePoints
    <3>3. ASSUME NEW z \in Setters PROVE RoleSetter(z)'
      BY <3>3
         DEF Inv, RoleInv, RoleSetter, ClaimLabels, LinkLabels, SetterLabels,
             TaskLabels, SchedLabels, SafePoints
    <3> QED  BY <3>1, <3>2, <3>3 DEF RoleInv
  <2>11. StackInv'  BY DEF Inv, StackInv, ClaimLabels, LinkLabels, RunLabels
  <2>12. TokenInv'  BY DEF Inv, TokenInv, TokenTask, TokenActor, TokenCpu
  <2>13. LinkInv'
    <3>1. \A x \in Cpus : CpuLinks(x)' <=> CpuLinks(x)  BY DEF CpuLinks
    <3>2. \A b \in Actors : ActorLinks(b)' <=> ActorLinks(b)
      BY DEF ActorLinks, LinkLabels
    <3> QED  BY <3>1, <3>2, LinkFrame DEF Inv
  <2>14. HelperInv'  BY DEF Inv, HelperInv, HelperCpu
  <2>15. SlotInv'
    <3>1. SlotTask'
      BY DEF Inv, SlotInv, SlotTask, LinkInv, ActorLinks, CpuLinks, LinkLabels
    <3>2. SlotHeld'
      BY DEF Inv, SlotInv, SlotHeld, LinkInv, ActorLinks, CpuLinks, LinkLabels
    <3>3. ASSUME NEW b \in Actors PROVE SlotActor(b)'
      BY SMTT(30), Z3T(30), <3>3
         DEF Inv, SlotInv, SlotTask, SlotHeld, SlotCpu, SlotActor, LinkInv, LinkOnce,
             LinkTask, LinkHeld, LinkActor, LinkCpu, ActorLinks, CpuLinks, LinkLabels
    <3>4. ASSUME NEW x \in Cpus PROVE SlotCpu(x)'
      BY <3>4
         DEF Inv, SlotInv, SlotTask, SlotHeld, SlotActor, SlotCpu, LinkInv, LinkOnce,
             LinkTask, LinkHeld, LinkActor, LinkCpu, ActorLinks, CpuLinks, LinkLabels
    <3> QED  BY <3>1, <3>2, <3>3, <3>4 DEF SlotInv
  <2>16. MutationInv'
    <3>1. \A b \in Actors : HoldsAffinity(b)' => HoldsAffinity(b)
      BY <2>5 DEF HoldsAffinity, SelfLabels, SchedLabels, SetterLabels, ClaimLabels,
         LinkLabels
    <3>2. MutationTask'  BY <3>1 DEF Inv, MutationInv, MutationTask
    <3>3. MutationOnce'  BY <2>5, <3>1 DEF Inv, MutationInv, MutationOnce
    <3>4. MutationHeld'  BY <3>1 DEF Inv, MutationInv, MutationHeld
    <3>5. ASSUME NEW b \in Actors PROVE MutationActor(b)'
      BY <2>5, <3>1, <3>5 DEF Inv, MutationInv, MutationActor
    <3>6. ASSUME NEW x \in Cpus PROVE MutationCpu(x)'
      BY <3>1, <3>6 DEF Inv, MutationInv, MutationCpu
    <3> QED  BY <3>2, <3>3, <3>4, <3>5, <3>6 DEF MutationInv
  <2>17. StealInv'  BY DEF Inv, StealInv, StealOnce, StealCpu, StealLabels
  <2>18. PlaceInv'
    <3>1. PlaceTask'  BY DEF Inv, PlaceInv, PlaceTask
    <3>2. ASSUME NEW b \in Actors PROVE PlaceActor(b)'
      BY <3>2 DEF Inv, PlaceInv, PlaceActor, LinkLabels
    <3>3. ASSUME NEW x \in Cpus PROVE PlaceCpu(x)'
      BY <3>3 DEF Inv, PlaceInv, PlaceCpu
    <3> QED  BY <3>1, <3>2, <3>3 DEF PlaceInv
  <2>19. MaskInv'
    BY DEF Inv, MaskInv, MaskTask, MaskSetter, MaskActor, MaskCpu, LinkLabels
  <2>20. PreemptInv'  BY DEF Inv, PreemptInv, Picked, MoveUnderway
  <2>21. SelfInv'
    BY DEF Inv, SelfInv, SelfTask, SelfCpu, SelfMoves, Continues, SchedLabels
  <2>22. ActiveInv'
    BY DEF Inv, ActiveInv, InSession, SessionLabels, SchedLabels, ClaimLabels,
       LinkLabels
  <2>23. SessionInv'  BY DEF Inv, SessionInv, Polled, Continues, WakeUnderway, SchedLabels
  <2>24. QED
    BY <2>8, <2>9, <2>10, <2>11, <2>12, <2>13, <2>14, <2>15, <2>16, <2>17, <2>18,
       <2>19, <2>20, <2>21, <2>22, <2>23 DEF Inv
\* enqueue_task(Wakeup) links a task that is linked nowhere and clears the claim.
<1>12. CASE EnqueueClaimed(a)
  <2> USE <1>12
  <2> USE TaskWakeAssumption DEF Actors
  <2>1. pc[a] = "enqueue" /\ ActorLinks(a)
    BY DEF EnqueueClaimed, Here, ActorLinks, LinkLabels
  <2>2. /\ mutation = WakeOwned /\ mutation.owner = "none"
        /\ \A b \in Actors \ {a} : pc[b] \notin ClaimLabels
    BY SMTT(30), Z3T(30), <2>1
       DEF Inv, MutationInv, MutationTask, MutationOnce, MutationHeld, MutationActor,
           MutationCpu, LinkLabels, ClaimLabels, WakeOwned, Mut
  <2>3. /\ ~hand.pending /\ ready = {} /\ task.state = "Ready"
        /\ \A b \in Actors \ {a} : ~ActorLinks(b) /\ pc[b] \notin ClaimLabels
        /\ \A c \in Cpus : ~CpuLinks(c)
        /\ hand.token = 0 /\ cur = NoCpu /\ mutation = WakeOwned /\ mutation.owner = "none"
        /\ loc[a].cpu = task.cpu
    BY <2>1, <2>2
       DEF Inv, LinkInv, LinkOnce, LinkTask, LinkHeld, LinkActor, LinkCpu, TokenInv,
           TokenTask, TokenActor, TokenCpu, PlaceInv, PlaceTask, PlaceActor, PlaceCpu,
           LinkLabels
  <2>4. /\ pc[a] = "enqueue" /\ Return(a) /\ ready' = {loc[a].cpu}
        /\ mutation' = Idle
        /\ UNCHANGED <<bw, task, hand, cur, cpu, locked, ret, loc, events,
                       budget, fault>>
    BY <2>1, <2>3 DEF EnqueueClaimed, EnqueueWakeup, Here, sched, env
  <2>5. /\ pc'[a] = ret[a] /\ pc' \in [Actors -> Labels]
        /\ \A b \in Actors \ {a} : pc'[b] = pc[b]
    BY <2>4, GoesBack DEF Inv
  <2>6. a # Task /\ ret[a] = "idle"
    BY <2>4, <2>3
       DEF Inv, RoleInv, RoleTask, RoleWaker, RoleSetter, StackInv, ClaimLabels,
           LinkLabels
  <2>7. /\ mutation'.owner = "none" /\ mutation' # WakeOwned
        /\ mutation' \in MutationWords /\ loc[a].cpu \in Cpus
    BY <2>4 DEF Idle, WakeOwned, Mut, MutationWords, Inv, Typed, Locals
  <2>8. /\ pc[Task] \notin SelfLabels
        /\ pc[Task] \in SchedLabels => ret[Task] \notin SelfLabels
    BY <2>3
       DEF Inv, MutationInv, MutationTask, MutationOnce, MutationHeld, MutationActor,
           MutationCpu, HoldsAffinity
  <2>9. SelfInv'
    BY <2>4, <2>5, <2>3, <2>6, <2>8
       DEF Inv, SelfInv, SelfTask, SelfCpu, SelfMoves, Continues, SelfLabels
  <2> USE <2>3, <2>4, <2>5, <2>6, <2>7
  <2>10. Typed'  BY DEF Inv, Typed
  <2>11. ~fault'  BY DEF Inv
  <2>12. RoleInv'
    <3>1. RoleTask'
      BY DEF Inv, RoleInv, RoleTask, ClaimLabels, LinkLabels, SetterLabels, TaskLabels,
             SchedLabels, SafePoints
    <3>2. ASSUME NEW y \in Wakers PROVE RoleWaker(y)'
      BY <3>2
         DEF Inv, RoleInv, RoleWaker, ClaimLabels, LinkLabels, SetterLabels,
             TaskLabels, SchedLabels, SafePoints
    <3>3. ASSUME NEW z \in Setters PROVE RoleSetter(z)'
      BY <3>3
         DEF Inv, RoleInv, RoleSetter, ClaimLabels, LinkLabels, SetterLabels,
             TaskLabels, SchedLabels, SafePoints
    <3> QED  BY <3>1, <3>2, <3>3 DEF RoleInv
  <2>13. StackInv'  BY DEF Inv, StackInv, ClaimLabels, LinkLabels, RunLabels
  <2>14. TokenInv'  BY DEF Inv, TokenInv, TokenTask, TokenActor, TokenCpu
  <2>15. LinkInv'
    <3>1. LinkOnce'  BY DEF Inv, LinkInv, LinkOnce, CpuLinks, ActorLinks, LinkLabels
    <3>2. LinkTask'  BY DEF Inv, LinkInv, LinkTask, CpuLinks, ActorLinks, LinkLabels
    <3>3. LinkHeld'  BY DEF Inv, LinkInv, LinkHeld, CpuLinks, ActorLinks, LinkLabels
    <3>4. ASSUME NEW b \in Actors PROVE LinkActor(b)'
      BY <3>4 DEF Inv, LinkInv, LinkActor, CpuLinks, ActorLinks, LinkLabels
    <3>5. ASSUME NEW x \in Cpus PROVE LinkCpu(x)'
      BY <3>5 DEF Inv, LinkInv, LinkCpu, CpuLinks, ActorLinks, LinkLabels
    <3> QED  BY <3>1, <3>2, <3>3, <3>4, <3>5 DEF LinkInv
  <2>16. HelperInv'  BY DEF Inv, HelperInv, HelperCpu
  <2>17. SlotInv'  BY DEF Inv, SlotInv, SlotTask, SlotHeld, SlotActor, SlotCpu
  <2>18. MutationInv'
    <3>1. \A b \in Actors : HoldsAffinity(b)' => HoldsAffinity(b)
      BY DEF HoldsAffinity, SelfLabels, SchedLabels, SetterLabels, ClaimLabels,
         LinkLabels
    <3>2. QED  BY <3>1
                  DEF Inv, MutationInv, MutationTask, MutationOnce, MutationHeld,
                      MutationActor, MutationCpu, ClaimLabels, LinkLabels, CpuLinks
  <2>19. StealInv'  BY DEF Inv, StealInv, StealOnce, StealCpu, StealLabels
  <2>20. PlaceInv'  BY DEF Inv, PlaceInv, PlaceTask, PlaceActor, PlaceCpu, LinkLabels
  <2>21. MaskInv'
    BY DEF Inv, MaskInv, MaskTask, MaskSetter, MaskActor, MaskCpu, LinkLabels
  <2>22. PreemptInv'  BY DEF Inv, PreemptInv, Picked, MoveUnderway
  <2>23. ActiveInv'
    BY DEF Inv, ActiveInv, InSession, SessionLabels, SchedLabels, ClaimLabels,
       LinkLabels
  <2>24. SessionInv'  BY DEF Inv, SessionInv, Polled, Continues, WakeUnderway, SchedLabels
  <2>25. QED
    BY <2>9, <2>10, <2>11, <2>12, <2>13, <2>14, <2>15, <2>16, <2>17, <2>18, <2>19,
       <2>20, <2>21, <2>22, <2>23, <2>24 DEF Inv
\* finish_wake_mutation releases the claim on a task that needs no link.
<1>13. CASE ReleaseWake(a)
  <2> USE <1>13
  <2> USE TaskWakeAssumption DEF Actors
  <2>1. pc[a] = "release"  BY DEF ReleaseWake, Here
  <2>2. WakeOwned.owner = "none"  BY DEF WakeOwned, Mut
  <2>3. /\ pc[a] = "release" /\ mutation = WakeOwned /\ mutation.owner = "none"
        /\ task.state # "Blocked" /\ ~hand.pending
        /\ \A b \in Actors \ {a} : pc[b] \notin ClaimLabels
        /\ \A c \in Cpus : cpu[c].pc \notin {"take", "delegated"}
    BY <2>1, <2>2
       DEF Inv, MutationInv, MutationTask, MutationOnce, MutationHeld, MutationActor,
           MutationCpu, ClaimLabels
  <2>4. /\ pc[a] = "release" /\ Return(a) /\ mutation' = Idle
        /\ UNCHANGED <<bw, task, hand, ready, cur, cpu, locked, ret, loc,
                       events, budget, fault>>
    BY <2>3 DEF ReleaseWake, Here, sched, env
  <2>5. /\ pc'[a] = ret[a] /\ pc' \in [Actors -> Labels]
        /\ \A b \in Actors \ {a} : pc'[b] = pc[b]
    BY <2>4, GoesBack DEF Inv
  <2>6. /\ a # Task => ret[a] = "idle"
        /\ a = Task => ret[a] \in {"woken", "resched", "begin"}
        /\ ret[a] \in {"idle", "woken", "resched", "begin"}
    BY <2>4 DEF Inv, RoleInv, RoleTask, RoleWaker, RoleSetter, ClaimLabels
  <2>7. /\ mutation'.owner = "none" /\ mutation' # WakeOwned
        /\ mutation' \in MutationWords
    BY <2>4 DEF Idle, WakeOwned, Mut, MutationWords
  <2> USE <2>3, <2>4, <2>5, <2>6, <2>7
  <2>8. Typed'  BY DEF Inv, Typed
  <2>9. ~fault'  BY DEF Inv
  <2>10. RoleInv'
    <3>1. RoleTask'
      BY DEF Inv, RoleInv, RoleTask, ClaimLabels, LinkLabels, SetterLabels, TaskLabels,
             SchedLabels, SafePoints
    <3>2. ASSUME NEW y \in Wakers PROVE RoleWaker(y)'
      BY <3>2
         DEF Inv, RoleInv, RoleWaker, ClaimLabels, LinkLabels, SetterLabels,
             TaskLabels, SchedLabels, SafePoints
    <3>3. ASSUME NEW z \in Setters PROVE RoleSetter(z)'
      BY <3>3
         DEF Inv, RoleInv, RoleSetter, ClaimLabels, LinkLabels, SetterLabels,
             TaskLabels, SchedLabels, SafePoints
    <3> QED  BY <3>1, <3>2, <3>3 DEF RoleInv
  <2>11. StackInv'  BY DEF Inv, StackInv, ClaimLabels, LinkLabels, RunLabels
  <2>12. TokenInv'
    <3>1. TokenTask'  BY DEF Inv, TokenInv, TokenTask
    <3>2. ASSUME NEW b \in Actors PROVE TokenActor(b)'
      BY <3>2 DEF Inv, TokenInv, TokenActor
    <3>3. ASSUME NEW x \in Cpus PROVE TokenCpu(x)'
      BY <3>3 DEF Inv, TokenInv, TokenCpu
    <3> QED  BY <3>1, <3>2, <3>3 DEF TokenInv
  <2>13. LinkInv'
    <3>1. \A x \in Cpus : CpuLinks(x)' <=> CpuLinks(x)  BY DEF CpuLinks
    <3>2. \A b \in Actors : ActorLinks(b)' <=> ActorLinks(b)
      BY DEF ActorLinks, LinkLabels
    <3> QED  BY <3>1, <3>2, LinkFrame DEF Inv
  <2>14. HelperInv'  BY DEF Inv, HelperInv, HelperCpu
  <2>15. SlotInv'  BY DEF Inv, SlotInv, SlotTask, SlotHeld, SlotActor, SlotCpu
  <2>16. MutationInv'
    <3>1. \A b \in Actors : HoldsAffinity(b)' => HoldsAffinity(b)
      BY DEF HoldsAffinity, SelfLabels, SchedLabels, SetterLabels, ClaimLabels,
         LinkLabels
    <3>2. QED  BY <3>1
                  DEF Inv, MutationInv, MutationTask, MutationOnce, MutationHeld,
                      MutationActor, MutationCpu, ClaimLabels, LinkLabels
  <2>17. StealInv'  BY DEF Inv, StealInv, StealOnce, StealCpu, StealLabels
  <2>18. PlaceInv'
    <3>1. PlaceTask'  BY DEF Inv, PlaceInv, PlaceTask, LinkLabels
    <3>2. ASSUME NEW b \in Actors PROVE PlaceActor(b)'
      BY <3>2 DEF Inv, PlaceInv, PlaceActor, LinkLabels
    <3>3. ASSUME NEW x \in Cpus PROVE PlaceCpu(x)'
      BY <3>3 DEF Inv, PlaceInv, PlaceCpu, LinkLabels
    <3> QED  BY <3>1, <3>2, <3>3 DEF PlaceInv
  <2>19. MaskInv'
    BY DEF Inv, MaskInv, MaskTask, MaskSetter, MaskActor, MaskCpu, LinkLabels
  <2>20. PreemptInv'  BY DEF Inv, PreemptInv, Picked, MoveUnderway
  <2>21. SelfInv'
    BY DEF Inv, SelfInv, SelfTask, SelfCpu, SelfMoves, Continues, SchedLabels
  <2>22. ActiveInv'
    BY DEF Inv, ActiveInv, InSession, SessionLabels, SchedLabels, ClaimLabels,
       LinkLabels
  <2>23. SessionInv'  BY DEF Inv, SessionInv, Polled, Continues, WakeUnderway, SchedLabels
  <2>24. QED
    BY <2>8, <2>9, <2>10, <2>11, <2>12, <2>13, <2>14, <2>15, <2>16, <2>17, <2>18,
       <2>19, <2>20, <2>21, <2>22, <2>23 DEF Inv
<1>14. QED
  BY <1>1, <1>2, <1>3, <1>4, <1>5, <1>6, <1>7, <1>8, <1>9, <1>10, <1>11, <1>12, <1>13
     DEF WakeStep

-----------------------------------------------------------------------------
(* The task's own steps: the wait session and its block.                   *)


\* Labels between which the task moves by itself, Running and owning no claim.
PlainLabels == {"begin", "prepare", "poll", "end", "check", "claimblock",
                "beginblock", "abort", "yield", "selfclaim"}

\* Everything but the session.
Inv0 ==
    /\ Typed /\ ~fault /\ RoleInv /\ StackInv /\ TokenInv /\ LinkInv
    /\ HelperInv /\ SlotInv /\ MutationInv /\ StealInv /\ PlaceInv /\ MaskInv
    /\ PreemptInv /\ SelfInv

\* A step of the task between such labels disturbs no more than its session.
LEMMA PlainStep ==
    ASSUME Inv, pc[Task] \in PlainLabels, NEW l \in PlainLabels, Goto(Task, l),
           bw' \in BlockWords, events' \in [made : Nat, taken : Nat],
           loc' \in [Actors -> Locals], \A b \in Actors \ {Task} : loc'[b] = loc[b],
           budget'.refused = budget.refused,
           budget' \in [sessions : Nat, contention : Nat, self : Nat, refused : Nat,
                        calls : [Wakers \cup Setters -> Nat]],
           UNCHANGED <<mutation, task, hand, ready, cur, cpu, locked, ret, fault>>
    PROVE  /\ Inv0' /\ pc'[Task] = l
           /\ \A b \in Actors \ {Task} : pc'[b] = pc[b]
<1> USE TaskWakeAssumption DEF Actors
<1>1. /\ pc'[Task] = l /\ pc' \in [Actors -> Labels]
      /\ \A b \in Actors \ {Task} : pc'[b] = pc[b]
  BY Goes DEF Inv, Typed, PlainLabels, Labels, TaskLabels
<1>2. Typed'  BY <1>1 DEF Inv, Typed
<1>3. RoleInv'
  <2>1. RoleTask'
    BY <1>1
       DEF Inv, RoleInv, RoleTask, PlainLabels, ClaimLabels, LinkLabels, SchedLabels,
           TaskLabels
  <2>2. ASSUME NEW y \in Wakers PROVE RoleWaker(y)'
    BY <1>1, <2>2
       DEF Inv, RoleInv, RoleWaker, PlainLabels, ClaimLabels, LinkLabels, SchedLabels,
           TaskLabels
  <2>3. ASSUME NEW z \in Setters PROVE RoleSetter(z)'
    BY <1>1, <2>3
       DEF Inv, RoleInv, RoleSetter, PlainLabels, ClaimLabels, LinkLabels, SchedLabels,
           TaskLabels
  <2> QED  BY <2>1, <2>2, <2>3 DEF RoleInv
<1>4. StackInv'
  BY <1>1 DEF Inv, StackInv, PlainLabels, ClaimLabels, LinkLabels, RunLabels
<1>5. TokenInv'
  <2>1. TokenTask'  BY <1>1 DEF Inv, TokenInv, TokenTask, PlainLabels
  <2>2. ASSUME NEW b \in Actors PROVE TokenActor(b)'
    BY <1>1, <2>2 DEF Inv, TokenInv, TokenActor, PlainLabels
  <2>3. ASSUME NEW x \in Cpus PROVE TokenCpu(x)'
    BY <1>1, <2>3 DEF Inv, TokenInv, TokenCpu, PlainLabels
  <2> QED  BY <2>1, <2>2, <2>3 DEF TokenInv
<1>6. LinkInv'
  <2>1. \A x \in Cpus : CpuLinks(x)' <=> CpuLinks(x)  BY <1>1 DEF CpuLinks, PlainLabels
  <2>2. \A b \in Actors : ActorLinks(b)' <=> ActorLinks(b)
    BY <1>1 DEF ActorLinks, LinkLabels, PlainLabels
  <2> QED  BY <1>1, <2>1, <2>2, LinkFrame DEF Inv
<1>7. HelperInv' /\ SlotInv'
  BY <1>1
     DEF Inv, HelperInv, HelperCpu, SlotInv, SlotTask, SlotHeld, SlotActor, SlotCpu,
         PlainLabels
<1>8. MutationInv'
  <2>1. \A b \in Actors : HoldsAffinity(b)' => HoldsAffinity(b)
    BY <1>1 DEF HoldsAffinity, SelfLabels, SchedLabels, SetterLabels, PlainLabels
  <2>2. pc[Task] \notin ClaimLabels /\ pc'[Task] \notin ClaimLabels
    BY <1>1 DEF PlainLabels, ClaimLabels, LinkLabels
  <2>3. MutationTask'
    BY <1>1, <2>1, <2>2 DEF Inv, MutationInv, MutationTask, PlainLabels, ClaimLabels
  <2>4. MutationOnce'
    BY <1>1, <2>1, <2>2 DEF Inv, MutationInv, MutationOnce, PlainLabels, ClaimLabels
  <2>5. MutationHeld'
    BY <1>1, <2>1, <2>2 DEF Inv, MutationInv, MutationHeld, PlainLabels, ClaimLabels
  <2>6. ASSUME NEW b \in Actors PROVE MutationActor(b)'
    BY <1>1, <2>1, <2>2, <2>6
       DEF Inv, MutationInv, MutationActor, PlainLabels, ClaimLabels
  <2>7. ASSUME NEW x \in Cpus PROVE MutationCpu(x)'
    BY <1>1, <2>1, <2>2, <2>7 DEF Inv, MutationInv, MutationCpu, PlainLabels, ClaimLabels
  <2> QED  BY <2>3, <2>4, <2>5, <2>6, <2>7 DEF MutationInv
<1>9. StealInv'  BY DEF Inv, StealInv, StealOnce, StealCpu
<1>10. PlaceInv'
  <2>1. PlaceTask'  BY <1>1 DEF Inv, PlaceInv, PlaceTask, PlainLabels
  <2>2. ASSUME NEW b \in Actors PROVE PlaceActor(b)'
    BY <1>1, <2>2 DEF Inv, PlaceInv, PlaceActor, LinkLabels, PlainLabels
  <2>3. ASSUME NEW x \in Cpus PROVE PlaceCpu(x)'
    BY <1>1, <2>3 DEF Inv, PlaceInv, PlaceCpu, PlainLabels
  <2> QED  BY <2>1, <2>2, <2>3 DEF PlaceInv
<1>11. MaskInv'
  BY <1>1
     DEF Inv, MaskInv, MaskTask, MaskSetter, MaskActor, MaskCpu, LinkLabels, PlainLabels
<1>12. PreemptInv'  BY <1>1 DEF Inv, PreemptInv, Picked, MoveUnderway, PlainLabels
<1>13. SelfInv'
  BY <1>1
     DEF Inv, SelfInv, SelfTask, SelfCpu, SelfMoves, Continues, SchedLabels, PlainLabels
<1>14. QED
  BY <1>1, <1>2, <1>3, <1>4, <1>5, <1>6, <1>7, <1>8, <1>9, <1>10, <1>11, <1>12, <1>13
     DEF Inv, Inv0

\* The steps of a wait session before its block publication keep the invariant.
LEMMA WaitKeeps ==
    ASSUME Inv,
           BeginBlockWait \/ PreparePoll \/ Poll \/ EndBlockWait \/ CheckWoken \/
           ClaimBlock \/ AbortBlock \/ SelfAffinity
    PROVE  Inv'
\* begin_block_wait opens a session.
<1>1. CASE BeginBlockWait
  <2> USE <1>1
  <2>1. /\ pc[Task] = "begin" /\ Goto(Task, "prepare") /\ cur # NoCpu
        /\ UNCHANGED <<mutation, task, hand, ready, cur, cpu, locked, ret, loc,
                       events, fault>>
    BY DEF BeginBlockWait, Own, Here, sched
  <2>2. /\ bw' \in BlockWords /\ bw'.owner = FALSE /\ bw'.active = TRUE
    BY SMTT(30), Z3T(30) DEF BeginBlockWait, Inv, Typed, BlockWords
  <2>3. /\ budget'.refused = budget.refused
        /\ budget' \in [sessions : Nat, contention : Nat, self : Nat, refused : Nat,
                        calls : [Wakers \cup Setters -> Nat]]
    BY SMTT(30), Z3T(30) DEF BeginBlockWait, Inv, Typed
  <2>4. Inv0' /\ pc'[Task] = "prepare"
    BY <2>1, <2>2, <2>3, PlainStep DEF PlainLabels, Inv, Typed
  <2>5. ActiveInv'
    BY <2>1, <2>2, <2>4 DEF Inv, ActiveInv, InSession, SessionLabels, SchedLabels,
       ClaimLabels, LinkLabels
  <2>6. SessionInv'
    BY <2>1, <2>2, <2>4 DEF Inv, SessionInv, Polled, Continues, SchedLabels, StackInv,
       RunLabels
  <2>7. QED  BY <2>4, <2>5, <2>6 DEF Inv, Inv0
\* prepare_block_poll forgets a wake the next poll will answer.
<1>2. CASE PreparePoll
  <2> USE <1>2
  <2>1. /\ pc[Task] = "prepare" /\ Goto(Task, "poll")
        /\ bw' = [bw EXCEPT !.woken = FALSE]
        /\ UNCHANGED <<mutation, task, hand, ready, cur, cpu, locked, ret, loc,
                       events, budget, fault>>
    BY DEF PreparePoll, Own, Here, sched, env
  <2>2. bw' \in BlockWords /\ bw'.owner = bw.owner /\ bw'.active = bw.active
    BY <2>1, BlockUpdates DEF Inv, Typed
  <2>3. Inv0' /\ pc'[Task] = "poll"  BY <2>1, <2>2, PlainStep DEF PlainLabels, Inv, Typed
  <2>4. ActiveInv'
    BY <2>1, <2>2, <2>3 DEF Inv, ActiveInv, InSession, SessionLabels, SchedLabels,
       ClaimLabels, LinkLabels
  <2>5. SessionInv'
    BY <2>1, <2>2, <2>3 DEF Inv, SessionInv, Polled, Continues, SchedLabels, StackInv,
       RunLabels
  <2>6. QED  BY <2>3, <2>4, <2>5 DEF Inv, Inv0
\* The poll consumes an occurrence, or finds none and the session goes to sleep.
<1>3. CASE Poll
  <2> USE <1>3
  <2>1. /\ pc[Task] = "poll"
        /\ UNCHANGED <<bw, mutation, task, hand, ready, cur, cpu, locked, ret, loc,
                       budget, fault>>
    BY DEF Poll, Own, Here, words, sched
  <2>2. CASE events.made > events.taken
    <3>1. Goto(Task, "end") /\ events' \in [made : Nat, taken : Nat]
      BY SMTT(30), Z3T(30), <2>2 DEF Poll, Inv, Typed
    <3>2. Inv0' /\ pc'[Task] = "end"  BY <2>1, <3>1, PlainStep DEF PlainLabels, Inv, Typed
    <3>3. ActiveInv'
      BY <2>1, <3>2 DEF Inv, ActiveInv, InSession, SessionLabels, SchedLabels,
         ClaimLabels, LinkLabels
    <3>4. SessionInv'
      BY <2>1, <3>2 DEF Inv, SessionInv, Polled, Continues, SchedLabels, StackInv,
         RunLabels
    <3>5. QED  BY <3>2, <3>3, <3>4 DEF Inv, Inv0
  <2>3. CASE ~(events.made > events.taken)
    <3>1. Goto(Task, "check") /\ events' = events  BY <2>3 DEF Poll
    <3>2. Inv0' /\ pc'[Task] = "check"
      BY <2>1, <3>1, PlainStep DEF PlainLabels, Inv, Typed
    <3>3. ActiveInv'
      BY <2>1, <2>3, <3>1, <3>2 DEF Inv, ActiveInv, InSession, SessionLabels,
         SchedLabels,
         ClaimLabels, LinkLabels
    <3>4. SessionInv'
      BY <2>1, <2>3, <3>1, <3>2 DEF Inv, SessionInv, Polled, Continues, SchedLabels,
         StackInv, RunLabels
    <3>5. QED  BY <3>2, <3>3, <3>4 DEF Inv, Inv0
  <2>4. QED  BY <2>2, <2>3
\* end_block_wait closes the session.
<1>4. CASE EndBlockWait
  <2> USE <1>4
  <2>1. /\ pc[Task] = "end" /\ Goto(Task, "begin")
        /\ UNCHANGED <<mutation, task, hand, ready, cur, cpu, locked, ret, loc,
                       events, budget, fault>>
    BY DEF EndBlockWait, Own, Here, sched, env
  <2>2. bw \in BlockWords /\ bw' = [bw EXCEPT !.active = FALSE, !.woken = FALSE]
    BY DEF EndBlockWait, Inv, Typed
  <2>3. bw' \in BlockWords /\ bw'.owner = bw.owner  BY <2>2 DEF BlockWords
  <2>4. Inv0' /\ pc'[Task] = "begin"  BY <2>1, <2>3, PlainStep DEF PlainLabels, Inv, Typed
  <2>5. ActiveInv'
    BY <2>1, <2>3, <2>4 DEF Inv, ActiveInv, InSession, SessionLabels, SchedLabels,
       ClaimLabels, LinkLabels
  <2>6. SessionInv'
    BY <2>1, <2>3, <2>4 DEF Inv, SessionInv, Polled, Continues, SchedLabels, StackInv,
       RunLabels
  <2>7. QED  BY <2>4, <2>5, <2>6 DEF Inv, Inv0
\* is_block_woken decides between another poll and the publication.
<1>5. CASE CheckWoken
  <2> USE <1>5
  <2>1. /\ pc[Task] = "check"
        /\ Goto(Task, IF bw.woken THEN "yield" ELSE "claimblock")
        /\ UNCHANGED <<bw, mutation, task, hand, ready, cur, cpu, locked, ret, loc,
                       events, budget, fault>>
    BY DEF CheckWoken, Own, Here, words, sched, env
  <2>2. /\ Inv0' /\ pc'[Task] \in {"yield", "claimblock"}
        /\ \A b \in Actors \ {Task} : pc'[b] = pc[b]
    BY <2>1, PlainStep DEF PlainLabels, Inv, Typed
  <2>3. ActiveInv'
    BY <2>1, <2>2, TaskWakeAssumption DEF Inv, ActiveInv, InSession, SessionLabels,
       SchedLabels,
       ClaimLabels, LinkLabels
  <2>4. SessionInv'
    BY <2>1, <2>2, TaskWakeAssumption DEF Inv, SessionInv, Polled, Continues,
       SchedLabels,
       StackInv, RunLabels, Actors
  <2>5. QED  BY <2>2, <2>3, <2>4 DEF Inv, Inv0
\* claim_block_wait takes OWNER of a session nobody has woken.
<1>6. CASE ClaimBlock
  <2> USE <1>6
  <2>1. /\ pc[Task] = "claimblock"
        /\ UNCHANGED <<mutation, task, hand, ready, cur, cpu, locked, ret, loc,
                       events, budget, fault>>
    BY DEF ClaimBlock, Own, Here, sched, env
  <2>2. CASE bw.woken
    <3>1. Goto(Task, "yield") /\ bw' = bw  BY <2>2 DEF ClaimBlock
    <3>2. Inv0' /\ pc'[Task] = "yield"
      BY <2>1, <3>1, PlainStep DEF PlainLabels, Inv, Typed
    <3>3. ActiveInv'
      BY <2>1, <3>1, <3>2 DEF Inv, ActiveInv, InSession, SessionLabels, SchedLabels,
         ClaimLabels, LinkLabels
    <3>4. SessionInv'
      BY <2>1, <3>1, <3>2 DEF Inv, SessionInv, Polled, Continues, SchedLabels, StackInv,
         RunLabels
    <3>5. QED  BY <3>2, <3>3, <3>4 DEF Inv, Inv0
  <2>3. CASE ~bw.woken
    <3>1. Goto(Task, "beginblock") /\ bw' = [bw EXCEPT !.owner = TRUE]
      BY <2>3 DEF ClaimBlock
    <3>2. /\ bw' \in BlockWords /\ bw'.owner = TRUE /\ bw'.woken = bw.woken
          /\ bw'.active = bw.active
      BY <3>1, BlockUpdates DEF Inv, Typed
    <3>3. /\ Inv0' /\ pc'[Task] = "beginblock"
          /\ \A b \in Actors \ {Task} : pc'[b] = pc[b]
      BY <2>1, <3>1, <3>2, PlainStep DEF PlainLabels, Inv, Typed
    <3>4. ActiveInv'
      BY <2>1, <3>2, <3>3, TaskWakeAssumption DEF Inv, ActiveInv, InSession,
         SessionLabels, SchedLabels,
         ClaimLabels, LinkLabels
    <3>5. SessionInv'
      BY <2>1, <3>2, <3>3, TaskWakeAssumption DEF Inv, SessionInv, Polled, Continues,
         SchedLabels, StackInv, RunLabels, Actors
    <3>6. QED  BY <3>3, <3>4, <3>5 DEF Inv, Inv0
  <2>4. QED  BY <2>2, <2>3
\* commit_block_wait of an aborted publication gives OWNER back.
<1>7. CASE AbortBlock
  <2> USE <1>7
  <2>1. /\ pc[Task] = "abort" /\ Goto(Task, "yield")
        /\ bw' = [bw EXCEPT !.owner = FALSE]
        /\ UNCHANGED <<mutation, hand, ready, cur, cpu, locked, ret, loc,
                       events, budget, fault>>
    BY DEF AbortBlock, Own, Here, sched, env
  <2>2. bw' \in BlockWords /\ bw'.owner = FALSE /\ bw'.active = bw.active
    BY <2>1, BlockUpdates DEF Inv, Typed
  <2>3. task.state = "Running"  BY <2>1 DEF Inv, StackInv, RunLabels
  <2>4. task' = task
    <3>1. task \in TaskWords /\ task' = [task EXCEPT !.state = "Running"]
      BY DEF AbortBlock, Inv, Typed
    <3>2. QED  BY <2>3, <3>1 DEF TaskWords
  <2>5. Inv0' /\ pc'[Task] = "yield"
    BY <2>1, <2>2, <2>4, PlainStep DEF PlainLabels, Inv, Typed
  <2>6. ActiveInv'
    BY <2>1, <2>2, <2>5 DEF Inv, ActiveInv, InSession, SessionLabels, SchedLabels,
       ClaimLabels, LinkLabels
  <2>7. SessionInv'
    BY <2>2, <2>3, <2>4, <2>5 DEF SessionInv, Polled, Continues, SchedLabels
  <2>8. QED  BY <2>5, <2>6, <2>7 DEF Inv, Inv0
\* set_current_affinity starts with a mask of the caller's.
<1>8. CASE SelfAffinity
  <2> USE <1>8
  <2>1. /\ pc[Task] = "begin" /\ Goto(Task, "selfclaim")
        /\ UNCHANGED <<bw, mutation, task, hand, ready, cur, cpu, locked, ret,
                       events, fault>>
    BY DEF SelfAffinity, Own, Here, words, sched
  <2>2. /\ budget'.refused = budget.refused
        /\ budget' \in [sessions : Nat, contention : Nat, self : Nat, refused : Nat,
                        calls : [Wakers \cup Setters -> Nat]]
    BY SMTT(30), Z3T(30) DEF SelfAffinity, Inv, Typed
  <2>3. PICK m \in Masks : loc' = [loc EXCEPT ![Task].mask = m]  BY DEF SelfAffinity
  <2>4. m \in SUBSET Cpus /\ loc \in [Actors -> Locals] /\ Task \in Actors
    BY TaskWakeAssumption DEF Inv, Typed, Actors
  <2>5. loc' \in [Actors -> Locals] /\ \A b \in Actors \ {Task} : loc'[b] = loc[b]
    BY <2>3, <2>4 DEF Locals
  <2>6. Inv0' /\ pc'[Task] = "selfclaim"
    BY <2>1, <2>2, <2>5, PlainStep DEF PlainLabels, Inv, Typed
  <2>7. ActiveInv'
    BY <2>1, <2>6 DEF Inv, ActiveInv, InSession, SessionLabels, SchedLabels,
       ClaimLabels, LinkLabels
  <2>8. SessionInv'
    BY <2>1, <2>6 DEF Inv, SessionInv, Polled, Continues, SchedLabels, StackInv,
       RunLabels
  <2>9. QED  BY <2>6, <2>7, <2>8 DEF Inv, Inv0
<1>9. QED  BY <1>1, <1>2, <1>3, <1>4, <1>5, <1>6, <1>7, <1>8

\* The steps of blocked_resched, up to its switch, keep the invariant.
LEMMA BlockKeeps ==
    ASSUME Inv,
           BeginBlock \/ PublishBlocked \/ CommitBlock \/ FinishBlock \/
           CommitWoken
    PROVE  Inv'
\* try_begin_block_mutation on an idle word: the block publication owns it.
<1>1. ASSUME BeginBlock, mutation = Idle PROVE Inv'
  <2> USE <1>1
  <2> USE TaskWakeAssumption DEF Actors
  <2>1. mutation.owner = "none" /\ mutation # WakeOwned  BY MutIs
  <2>2. /\ pc[Task] = "beginblock" /\ Goto(Task, "publish")
        /\ mutation' = Mut("block", FALSE) /\ mutation = Idle
        /\ UNCHANGED <<bw, task, hand, ready, cur, cpu, locked, ret, loc,
                       events, budget, fault>>
    BY <2>1 DEF BeginBlock, Own, Here, sched, env
  <2>3. /\ pc'[Task] = "publish" /\ pc' \in [Actors -> Labels]
        /\ \A b \in Actors \ {Task} : pc'[b] = pc[b]
    BY <2>2, Goes DEF Inv, Typed, Labels, WakeLabels, TaskLabels, SetterLabels
  <2>4. /\ mutation'.owner = "block" /\ mutation' # WakeOwned
        /\ mutation' \in MutationWords /\ mutation.owner = "none" /\ mutation # WakeOwned
    BY <2>2, <2>1, MutIs
  <2>5. /\ ~hand.pending /\ \A a \in Actors : pc[a] \notin ClaimLabels
        /\ \A a \in Actors : ~HoldsAffinity(a)
        /\ \A c \in Cpus : cpu[c].pc \notin {"take", "delegated", "stealmove", "stealdone"}
    BY <2>2, NoClaims
  <2> USE <2>2, <2>3, <2>4, <2>5
  <2>6. Typed'  BY DEF Inv, Typed
  <2>7. ~fault'  BY DEF Inv
  <2>8. RoleInv'
    <3>1. RoleTask'
      BY DEF Inv, RoleInv, RoleTask, ClaimLabels, LinkLabels, SetterLabels, TaskLabels,
             SchedLabels, SafePoints
    <3>2. ASSUME NEW y \in Wakers PROVE RoleWaker(y)'
      BY <3>2
         DEF Inv, RoleInv, RoleWaker, ClaimLabels, LinkLabels, SetterLabels,
             TaskLabels, SchedLabels, SafePoints
    <3>3. ASSUME NEW z \in Setters PROVE RoleSetter(z)'
      BY <3>3
         DEF Inv, RoleInv, RoleSetter, ClaimLabels, LinkLabels, SetterLabels,
             TaskLabels, SchedLabels, SafePoints
    <3> QED  BY <3>1, <3>2, <3>3 DEF RoleInv
  <2>9. StackInv'  BY DEF Inv, StackInv, ClaimLabels, LinkLabels, RunLabels
  <2>10. TokenInv'  BY DEF Inv, TokenInv, TokenTask, TokenActor, TokenCpu
  <2>11. LinkInv'
    <3>1. \A x \in Cpus : CpuLinks(x)' <=> CpuLinks(x)  BY DEF CpuLinks
    <3>2. \A b \in Actors : ActorLinks(b)' <=> ActorLinks(b)
      BY DEF ActorLinks, LinkLabels
    <3> QED  BY <3>1, <3>2, LinkFrame DEF Inv
  <2>12. HelperInv'  BY DEF Inv, HelperInv, HelperCpu
  <2>13. SlotInv'  BY DEF Inv, SlotInv, SlotTask, SlotHeld, SlotActor, SlotCpu
  <2>14. MutationInv'
    <3>1. \A b \in Actors : HoldsAffinity(b)' => HoldsAffinity(b)
      BY DEF HoldsAffinity, SelfLabels, SchedLabels, SetterLabels, ClaimLabels,
         LinkLabels
    <3>2. QED  BY <3>1
                  DEF Inv, MutationInv, MutationTask, MutationOnce, MutationHeld,
                      MutationActor, MutationCpu, ClaimLabels, LinkLabels
  <2>15. StealInv'  BY DEF Inv, StealInv, StealOnce, StealCpu, StealLabels
  <2>16. PlaceInv'
    <3>1. PlaceTask'  BY DEF Inv, PlaceInv, PlaceTask, LinkLabels
    <3>2. ASSUME NEW b \in Actors PROVE PlaceActor(b)'
      BY <3>2 DEF Inv, PlaceInv, PlaceActor, LinkLabels
    <3>3. ASSUME NEW x \in Cpus PROVE PlaceCpu(x)'
      BY <3>3 DEF Inv, PlaceInv, PlaceCpu, LinkLabels
    <3> QED  BY <3>1, <3>2, <3>3 DEF PlaceInv
  <2>17. MaskInv'
    BY DEF Inv, MaskInv, MaskTask, MaskSetter, MaskActor, MaskCpu, LinkLabels
  <2>18. PreemptInv'  BY DEF Inv, PreemptInv, Picked, MoveUnderway
  <2>19. SelfInv'
    BY DEF Inv, SelfInv, SelfTask, SelfCpu, SelfMoves, Continues, SchedLabels
  <2>20. ActiveInv'
    BY DEF Inv, ActiveInv, InSession, SessionLabels, SchedLabels, ClaimLabels,
       LinkLabels
  <2>21. SessionInv'  BY DEF Inv, SessionInv, Polled, Continues, WakeUnderway, SchedLabels
  <2>22. QED
    BY <2>6, <2>7, <2>8, <2>9, <2>10, <2>11, <2>12, <2>13, <2>14, <2>15, <2>16, <2>17,
       <2>18, <2>19, <2>20, <2>21 DEF Inv
\* ... and on a busy one: the publication is aborted as a spurious wake.
<1>2. ASSUME BeginBlock, mutation # Idle PROVE Inv'
  <2> USE <1>2
  <2> USE TaskWakeAssumption DEF Actors
  <2>1. /\ pc[Task] = "beginblock" /\ mutation.owner # "block"
    BY DEF BeginBlock, Own, Here, Inv, MutationInv, MutationTask, MutationOnce,
       MutationHeld, MutationActor, MutationCpu
  <2>2. /\ pc[Task] = "beginblock" /\ Goto(Task, "abort")
        /\ bw' = [bw EXCEPT !.woken = TRUE]
        /\ UNCHANGED <<mutation, task, hand, ready, cur, cpu, locked, ret, loc,
                       events, budget, fault>>
    BY <2>1 DEF BeginBlock, Own, Here, sched, env
  <2>3. /\ pc'[Task] = "abort" /\ pc' \in [Actors -> Labels]
        /\ \A b \in Actors \ {Task} : pc'[b] = pc[b]
    BY <2>2, Goes DEF Inv, Typed, Labels, WakeLabels, TaskLabels, SetterLabels
  <2>4. /\ bw' \in BlockWords /\ bw'.active = bw.active /\ bw'.owner = bw.owner
        /\ bw'.woken = TRUE
    BY <2>2, BlockUpdates DEF Inv, Typed
  <2>5. task.state = "Running"  BY <2>2 DEF Inv, StackInv, RunLabels
  <2> USE <2>2, <2>3, <2>4, <2>5
  <2>6. Typed'  BY DEF Inv, Typed
  <2>7. ~fault'  BY DEF Inv
  <2>8. RoleInv'
    <3>1. RoleTask'
      BY DEF Inv, RoleInv, RoleTask, ClaimLabels, LinkLabels, SetterLabels, TaskLabels,
             SchedLabels, SafePoints
    <3>2. ASSUME NEW y \in Wakers PROVE RoleWaker(y)'
      BY <3>2
         DEF Inv, RoleInv, RoleWaker, ClaimLabels, LinkLabels, SetterLabels,
             TaskLabels, SchedLabels, SafePoints
    <3>3. ASSUME NEW z \in Setters PROVE RoleSetter(z)'
      BY <3>3
         DEF Inv, RoleInv, RoleSetter, ClaimLabels, LinkLabels, SetterLabels,
             TaskLabels, SchedLabels, SafePoints
    <3> QED  BY <3>1, <3>2, <3>3 DEF RoleInv
  <2>9. StackInv'  BY DEF Inv, StackInv, ClaimLabels, LinkLabels, RunLabels
  <2>10. TokenInv'
    <3>1. TokenTask'  BY DEF Inv, TokenInv, TokenTask
    <3>2. ASSUME NEW b \in Actors PROVE TokenActor(b)'
      BY <3>2 DEF Inv, TokenInv, TokenActor
    <3>3. ASSUME NEW x \in Cpus PROVE TokenCpu(x)'
      BY <3>3 DEF Inv, TokenInv, TokenCpu
    <3> QED  BY <3>1, <3>2, <3>3 DEF TokenInv
  <2>11. LinkInv'
    <3>1. LinkOnce'
      BY DEF Inv, LinkInv, LinkTask, LinkHeld, LinkActor, LinkCpu, LinkOnce, CpuLinks,
             ActorLinks, LinkLabels
    <3>2. LinkTask'  BY DEF Inv, LinkInv, LinkTask, CpuLinks, ActorLinks, LinkLabels
    <3>3. LinkHeld'  BY DEF Inv, LinkInv, LinkHeld, CpuLinks, ActorLinks, LinkLabels
    <3>4. ASSUME NEW b \in Actors PROVE LinkActor(b)'
      BY <3>4 DEF Inv, LinkInv, LinkActor, CpuLinks, ActorLinks, LinkLabels
    <3>5. ASSUME NEW x \in Cpus PROVE LinkCpu(x)'
      BY <3>5 DEF Inv, LinkInv, LinkCpu, CpuLinks, ActorLinks, LinkLabels
    <3> QED  BY <3>1, <3>2, <3>3, <3>4, <3>5 DEF LinkInv
  <2>12. HelperInv'  BY DEF Inv, HelperInv, HelperCpu
  <2>13. SlotInv'  BY DEF Inv, SlotInv, SlotTask, SlotHeld, SlotActor, SlotCpu
  <2>14. MutationInv'
    <3>1. \A b \in Actors : HoldsAffinity(b)' => HoldsAffinity(b)
      BY DEF HoldsAffinity, SelfLabels, SchedLabels, SetterLabels, ClaimLabels,
         LinkLabels
    <3>2. MutationTask'
      BY <3>1 DEF Inv, MutationInv, MutationTask, ClaimLabels, LinkLabels
    <3>3. MutationOnce'
      BY <3>1 DEF Inv, MutationInv, MutationOnce, ClaimLabels, LinkLabels
    <3>4. MutationHeld'
      BY <3>1 DEF Inv, MutationInv, MutationHeld, ClaimLabels, LinkLabels
    <3>5. ASSUME NEW b \in Actors PROVE MutationActor(b)'
      BY <3>1, <3>5 DEF Inv, MutationInv, MutationActor, ClaimLabels, LinkLabels
    <3>6. ASSUME NEW x \in Cpus PROVE MutationCpu(x)'
      BY <3>1, <3>6 DEF Inv, MutationInv, MutationCpu, ClaimLabels, LinkLabels
    <3> QED  BY <3>2, <3>3, <3>4, <3>5, <3>6 DEF MutationInv
  <2>15. StealInv'
    <3>1. StealOnce'  BY DEF Inv, StealInv, StealOnce, StealLabels
    <3>2. ASSUME NEW x \in Cpus PROVE StealCpu(x)'
      BY <3>2 DEF Inv, StealInv, StealCpu, StealLabels
    <3> QED  BY <3>1, <3>2 DEF StealInv
  <2>16. PlaceInv'
    <3>1. PlaceTask'  BY DEF Inv, PlaceInv, PlaceTask
    <3>2. ASSUME NEW b \in Actors PROVE PlaceActor(b)'
      BY <3>2 DEF Inv, PlaceInv, PlaceActor, LinkLabels
    <3>3. ASSUME NEW x \in Cpus PROVE PlaceCpu(x)'
      BY <3>3 DEF Inv, PlaceInv, PlaceCpu
    <3> QED  BY <3>1, <3>2, <3>3 DEF PlaceInv
  <2>17. MaskInv'
    BY DEF Inv, MaskInv, MaskTask, MaskSetter, MaskActor, MaskCpu, LinkLabels
  <2>18. PreemptInv'  BY DEF Inv, PreemptInv, Picked, MoveUnderway
  <2>19. SelfInv'
    BY DEF Inv, SelfInv, SelfTask, SelfCpu, SelfMoves, Continues, SchedLabels
  <2>20. ActiveInv'
    BY DEF Inv, ActiveInv, InSession, SessionLabels, SchedLabels, ClaimLabels,
       LinkLabels
  <2>21. SessionInv'  BY DEF Inv, SessionInv, Polled, Continues, WakeUnderway, SchedLabels
  <2>22. QED
    BY <2>6, <2>7, <2>8, <2>9, <2>10, <2>11, <2>12, <2>13, <2>14, <2>15, <2>16, <2>17,
       <2>18, <2>19, <2>20, <2>21 DEF Inv
\* Under the source lock the wake owner is frozen and Blocked published.
<1>3. CASE PublishBlocked
  <2> USE <1>3
  <2> USE TaskWakeAssumption DEF Actors
  <2>1. PICK d \in IF cur \in task.mask THEN {cur} ELSE task.mask :
           task' = [task EXCEPT !.cpu = d, !.state = "Blocked"]
    BY DEF PublishBlocked
  <2>2. d \in Cpus /\ d \in task.mask  BY <2>1 DEF Inv, Typed, TaskWords
  <2>3. /\ pc[Task] = "publish" /\ Goto(Task, "commit") /\ cur # NoCpu
        /\ locked' = locked \cup {cur}
        /\ UNCHANGED <<bw, mutation, hand, ready, cur, cpu, ret, loc, events,
                       budget, fault>>
    BY DEF PublishBlocked, Own, Here, sched, env
  <2>4. /\ pc'[Task] = "commit" /\ pc' \in [Actors -> Labels]
        /\ \A b \in Actors \ {Task} : pc'[b] = pc[b]
    BY <2>3, Goes DEF Inv, Typed, Labels, WakeLabels, TaskLabels, SetterLabels
  <2>5. /\ task \in TaskWords /\ task' = [task EXCEPT !.state = "Blocked", !.cpu = d]
        /\ d \in Cpus
    BY <2>1, <2>2 DEF Inv, Typed
  <2>6. /\ task'.state = "Blocked" /\ task'.cpu = d /\ task'.mask = task.mask
        /\ task'.helper = task.helper /\ task'.resched = task.resched
        /\ task' \in TaskWords
    BY <2>5 DEF TaskWords
  <2>7. /\ ready = {} /\ ~hand.pending /\ task.state = "Running" /\ task.cpu = cur
        /\ \A c \in Cpus : /\ ~CpuLinks(c) /\ cpu[c].pc \notin StealLabels
                           /\ cpu[c].pc \notin MoverLabels
        /\ \A a \in Actors : ~ActorLinks(a)
    BY <2>3, NoLinks
       DEF Inv, StackInv, RunLabels, PlaceInv, PlaceTask, PlaceActor, PlaceCpu
  <2>8. mutation.owner = "block" /\ mutation # WakeOwned
    BY <2>3, MutIs
       DEF Inv, MutationInv, MutationTask, MutationOnce, MutationHeld, MutationActor,
           MutationCpu
  <2>9. /\ ~hand.pending /\ \A a \in Actors : pc[a] \notin ClaimLabels
        /\ \A a \in Actors : ~HoldsAffinity(a)
        /\ \A c \in Cpus : cpu[c].pc \notin {"take", "delegated"}
    BY <2>8, NoWakeClaim
       DEF Inv, MutationInv, MutationTask, MutationOnce, MutationHeld, MutationActor,
           MutationCpu
  <2>10. d \in task.mask  BY <2>2
  <2>11. cur \notin task.mask => task.resched
    BY <2>3, <2>7, <2>9 DEF Inv, PreemptInv, Picked, MoveUnderway, HoldsAffinity,
       SetterLabels
  <2>12. Typed'  BY <2>3, <2>4, <2>6 DEF Inv, Typed
  <2>13. RoleInv'
    <3>1. RoleTask'
      BY <2>3, <2>4
         DEF Inv, RoleInv, RoleTask, TaskLabels, ClaimLabels, LinkLabels, SchedLabels
    <3>2. ASSUME NEW y \in Wakers PROVE RoleWaker(y)'
      BY <2>3, <2>4, <3>2
         DEF Inv, RoleInv, RoleWaker, TaskLabels, ClaimLabels, LinkLabels, SchedLabels
    <3>3. ASSUME NEW z \in Setters PROVE RoleSetter(z)'
      BY <2>3, <2>4, <3>3
         DEF Inv, RoleInv, RoleSetter, TaskLabels, ClaimLabels, LinkLabels, SchedLabels
    <3> QED  BY <3>1, <3>2, <3>3 DEF RoleInv
  <2>14. StealInv'  BY <2>3, <2>7 DEF StealInv, StealOnce, StealCpu
  <2>15. PlaceInv'
    <3>1. PlaceTask'
      BY <2>3, <2>4, <2>6, <2>7, <2>9
         DEF Inv, PlaceInv, PlaceTask, ClaimLabels, ActorLinks, MoverLabels
    <3>2. ASSUME NEW b \in Actors PROVE PlaceActor(b)'
      BY SMTT(30), Z3T(30), <2>3, <2>4, <2>6, <2>7, <2>9, <3>2
         DEF Inv, PlaceInv, PlaceActor, LinkLabels, ClaimLabels, ActorLinks, MoverLabels
    <3>3. ASSUME NEW x \in Cpus PROVE PlaceCpu(x)'
      BY <2>3, <2>4, <2>6, <2>7, <2>9, <3>3
         DEF Inv, PlaceInv, PlaceCpu, ClaimLabels, ActorLinks, MoverLabels
    <3> QED  BY <3>1, <3>2, <3>3 DEF PlaceInv
  <2>16. SessionInv'
    BY <2>3, <2>4, <2>6, <2>7 DEF Inv, SessionInv, Polled, Continues, SchedLabels
  <2> USE <2>3, <2>4, <2>6, <2>7, <2>8, <2>9, <2>10, <2>11
  <2>17. ~fault'  BY DEF Inv
  <2>18. StackInv'  BY DEF Inv, StackInv, ClaimLabels, LinkLabels, RunLabels
  <2>19. TokenInv'  BY DEF Inv, TokenInv, TokenTask, TokenActor, TokenCpu
  <2>20. LinkInv'
    BY DEF Inv, LinkInv, LinkOnce, LinkTask, LinkHeld, LinkActor, LinkCpu, CpuLinks,
           ActorLinks, LinkLabels
  <2>21. HelperInv'  BY DEF Inv, HelperInv, HelperCpu
  <2>22. SlotInv'  BY DEF Inv, SlotInv, SlotTask, SlotHeld, SlotActor, SlotCpu
  <2>23. MutationInv'
    <3>1. \A b \in Actors : HoldsAffinity(b)' => HoldsAffinity(b)
      BY DEF HoldsAffinity, SelfLabels, SchedLabels, SetterLabels, ClaimLabels,
         LinkLabels
    <3>2. MutationTask'
      BY <3>1 DEF Inv, MutationInv, MutationTask, ClaimLabels, LinkLabels
    <3>3. MutationOnce'
      BY <3>1 DEF Inv, MutationInv, MutationOnce, ClaimLabels, LinkLabels
    <3>4. MutationHeld'
      BY <3>1 DEF Inv, MutationInv, MutationHeld, ClaimLabels, LinkLabels
    <3>5. ASSUME NEW b \in Actors PROVE MutationActor(b)'
      BY <3>1, <3>5 DEF Inv, MutationInv, MutationActor, ClaimLabels, LinkLabels
    <3>6. ASSUME NEW x \in Cpus PROVE MutationCpu(x)'
      BY <3>1, <3>6 DEF Inv, MutationInv, MutationCpu, ClaimLabels, LinkLabels
    <3> QED  BY <3>2, <3>3, <3>4, <3>5, <3>6 DEF MutationInv
  <2>24. MaskInv'
    <3>1. MaskTask'
      BY DEF Inv, MaskInv, MaskTask, LinkLabels, HoldsAffinity, SetterLabels
    <3>2. ASSUME NEW z \in Setters PROVE MaskSetter(z)'
      BY <3>2 DEF Inv, MaskInv, MaskSetter, LinkLabels, HoldsAffinity, SetterLabels
    <3>3. ASSUME NEW b \in Actors PROVE MaskActor(b)'
      BY <3>3 DEF Inv, MaskInv, MaskActor, LinkLabels, HoldsAffinity, SetterLabels
    <3>4. ASSUME NEW x \in Cpus PROVE MaskCpu(x)'
      BY <3>4 DEF Inv, MaskInv, MaskCpu, LinkLabels, HoldsAffinity, SetterLabels
    <3> QED  BY <3>1, <3>2, <3>3, <3>4 DEF MaskInv
  <2>25. PreemptInv'  BY DEF Inv, PreemptInv, Picked, MoveUnderway
  <2>26. SelfInv'
    BY DEF Inv, SelfInv, SelfTask, SelfCpu, SelfMoves, Continues, SchedLabels
  <2>27. ActiveInv'
    BY DEF Inv, ActiveInv, InSession, SessionLabels, SchedLabels, ClaimLabels,
       LinkLabels
  <2>28. QED
    BY <2>12, <2>13, <2>14, <2>15, <2>16, <2>17, <2>18, <2>19, <2>20, <2>21, <2>22,
       <2>23, <2>24, <2>25, <2>26, <2>27 DEF Inv
\* commit_block_wait finds a wake that came under OWNER and restores Running.
<1>4. ASSUME CommitBlock, bw.woken PROVE Inv'
  <2> USE <1>4
  <2> USE TaskWakeAssumption DEF Actors
  <2>1. pc[Task] = "commit" /\ task.state = "Blocked" /\ mutation.owner = "block" /\ cur # NoCpu
    BY DEF CommitBlock, Own, Here, Inv, StackInv, MutationInv, MutationTask,
       MutationOnce, MutationHeld, MutationActor, MutationCpu
  <2>2. /\ ready = {} /\ ~hand.pending
        /\ \A c \in Cpus : /\ ~CpuLinks(c) /\ cpu[c].pc \notin StealLabels
                           /\ cpu[c].pc \notin MoverLabels
        /\ \A a \in Actors : ~ActorLinks(a)
    BY <2>1, NoLinks
  <2>3. /\ mutation.owner = "block" /\ mutation # WakeOwned
        /\ \A a \in Actors : pc[a] \notin ClaimLabels /\ ~HoldsAffinity(a)
    BY <2>1, NoWakeClaim, MutIs
       DEF Inv, MutationInv, MutationTask, MutationOnce, MutationHeld, MutationActor,
           MutationCpu
  <2>4. /\ pc[Task] = "commit" /\ Goto(Task, "finishblock") /\ cur # NoCpu
        /\ ret' = [ret EXCEPT ![Task] = "woken"] /\ task.state = "Blocked"
        /\ bw' = [bw EXCEPT !.owner = FALSE]
        /\ UNCHANGED <<mutation, hand, ready, cur, cpu, locked, loc, events,
                       budget, fault>>
    BY <2>1 DEF CommitBlock, Own, Here, sched, env
  <2>5. /\ pc'[Task] = "finishblock" /\ pc' \in [Actors -> Labels]
        /\ \A b \in Actors \ {Task} : pc'[b] = pc[b]
    BY <2>4, Goes DEF Inv, Typed, Labels, WakeLabels, TaskLabels, SetterLabels
  <2>6. /\ ret'[Task] = "woken" /\ ret' \in [Actors -> Returns]
        /\ \A b \in Actors \ {Task} : ret'[b] = ret[b]
    BY <2>4 DEF Inv, Typed, Returns, TaskLabels
  <2>7. /\ bw' \in BlockWords /\ bw'.active = bw.active /\ bw'.owner = FALSE
    BY <2>4, BlockUpdates DEF Inv, Typed
  <2>8. /\ task \in TaskWords /\ task' = [task EXCEPT !.state = "Running", !.cpu = cur]
        /\ cur \in Cpus
    BY <2>4 DEF Inv, Typed, CommitBlock
  <2>9. /\ task'.state = "Running" /\ task'.cpu = cur /\ task'.mask = task.mask
        /\ task'.helper = task.helper /\ task'.resched = task.resched
        /\ task' \in TaskWords
    BY <2>8 DEF TaskWords
  <2>10. PlaceInv'
    <3>1. PlaceTask'
      BY <2>4, <2>5, <2>9, <2>2, <2>3
         DEF Inv, PlaceInv, PlaceTask, ClaimLabels, ActorLinks, MoverLabels
    <3>2. ASSUME NEW b \in Actors PROVE PlaceActor(b)'
      BY <2>4, <2>5, <2>9, <2>2, <2>3, <3>2
         DEF Inv, PlaceInv, PlaceActor, LinkLabels, ClaimLabels, ActorLinks, MoverLabels
    <3>3. ASSUME NEW x \in Cpus PROVE PlaceCpu(x)'
      BY <2>4, <2>5, <2>9, <2>2, <2>3, <3>3
         DEF Inv, PlaceInv, PlaceCpu, ClaimLabels, ActorLinks, MoverLabels
    <3> QED  BY <3>1, <3>2, <3>3 DEF PlaceInv
  <2>11. MaskInv'
    <3>1. MaskTask'
      BY <2>4, <2>5, <2>9, <2>2, <2>3
         DEF Inv, MaskInv, MaskTask, HoldsAffinity, SetterLabels, ClaimLabels,
             LinkLabels, CpuLinks
    <3>2. ASSUME NEW z \in Setters PROVE MaskSetter(z)'
      BY <2>4, <2>5, <2>9, <2>2, <2>3, <3>2
         DEF Inv, MaskInv, MaskSetter, HoldsAffinity, SetterLabels, ClaimLabels,
             LinkLabels, CpuLinks
    <3>3. ASSUME NEW b \in Actors PROVE MaskActor(b)'
      BY <2>4, <2>5, <2>9, <2>2, <2>3, <3>3
         DEF Inv, MaskInv, MaskActor, HoldsAffinity, SetterLabels, ClaimLabels,
             LinkLabels, CpuLinks
    <3>4. ASSUME NEW x \in Cpus PROVE MaskCpu(x)'
      BY <2>4, <2>5, <2>9, <2>2, <2>3, <3>4
         DEF Inv, MaskInv, MaskCpu, HoldsAffinity, SetterLabels, ClaimLabels,
             LinkLabels, CpuLinks
    <3> QED  BY <3>1, <3>2, <3>3, <3>4 DEF MaskInv
  <2> USE <2>2, <2>3, <2>4, <2>5, <2>6, <2>7, <2>9
  <2>12. Typed'  BY DEF Inv, Typed
  <2>13. ~fault'  BY DEF Inv
  <2>14. RoleInv'
    <3>1. RoleTask'
      BY DEF Inv, RoleInv, RoleTask, ClaimLabels, LinkLabels, SetterLabels, TaskLabels,
             SchedLabels, SafePoints
    <3>2. ASSUME NEW y \in Wakers PROVE RoleWaker(y)'
      BY <3>2
         DEF Inv, RoleInv, RoleWaker, ClaimLabels, LinkLabels, SetterLabels,
             TaskLabels, SchedLabels, SafePoints
    <3>3. ASSUME NEW z \in Setters PROVE RoleSetter(z)'
      BY <3>3
         DEF Inv, RoleInv, RoleSetter, ClaimLabels, LinkLabels, SetterLabels,
             TaskLabels, SchedLabels, SafePoints
    <3> QED  BY <3>1, <3>2, <3>3 DEF RoleInv
  <2>15. StackInv'  BY DEF Inv, StackInv, ClaimLabels, LinkLabels, RunLabels
  <2>16. TokenInv'
    <3>1. TokenTask'  BY DEF Inv, TokenInv, TokenTask
    <3>2. ASSUME NEW b \in Actors PROVE TokenActor(b)'
      BY <3>2 DEF Inv, TokenInv, TokenActor
    <3>3. ASSUME NEW x \in Cpus PROVE TokenCpu(x)'
      BY <3>3 DEF Inv, TokenInv, TokenCpu
    <3> QED  BY <3>1, <3>2, <3>3 DEF TokenInv
  <2>17. LinkInv'
    <3>1. LinkOnce'
      BY SMTT(30), Z3T(30) DEF Inv, LinkInv, LinkOnce, CpuLinks, ActorLinks, LinkLabels
    <3>2. LinkTask'  BY DEF Inv, LinkInv, LinkTask, CpuLinks, ActorLinks, LinkLabels
    <3>3. LinkHeld'  BY DEF Inv, LinkInv, LinkHeld, CpuLinks, ActorLinks, LinkLabels
    <3>4. ASSUME NEW b \in Actors PROVE LinkActor(b)'
      BY <3>4 DEF Inv, LinkInv, LinkActor, CpuLinks, ActorLinks, LinkLabels
    <3>5. ASSUME NEW x \in Cpus PROVE LinkCpu(x)'
      BY <3>5 DEF Inv, LinkInv, LinkCpu, CpuLinks, ActorLinks, LinkLabels
    <3> QED  BY <3>1, <3>2, <3>3, <3>4, <3>5 DEF LinkInv
  <2>18. HelperInv'  BY DEF Inv, HelperInv, HelperCpu
  <2>19. SlotInv'  BY DEF Inv, SlotInv, SlotTask, SlotHeld, SlotActor, SlotCpu
  <2>20. MutationInv'
    <3>1. \A b \in Actors : HoldsAffinity(b)' => HoldsAffinity(b)
      BY DEF HoldsAffinity, SelfLabels, SchedLabels, SetterLabels, ClaimLabels,
         LinkLabels
    <3>2. MutationTask'
      BY <3>1 DEF Inv, MutationInv, MutationTask, ClaimLabels, LinkLabels
    <3>3. MutationOnce'
      BY <3>1 DEF Inv, MutationInv, MutationOnce, ClaimLabels, LinkLabels
    <3>4. MutationHeld'
      BY <3>1 DEF Inv, MutationInv, MutationHeld, ClaimLabels, LinkLabels
    <3>5. ASSUME NEW b \in Actors PROVE MutationActor(b)'
      BY <3>1, <3>5 DEF Inv, MutationInv, MutationActor, ClaimLabels, LinkLabels
    <3>6. ASSUME NEW x \in Cpus PROVE MutationCpu(x)'
      BY <3>1, <3>6 DEF Inv, MutationInv, MutationCpu, ClaimLabels, LinkLabels
    <3> QED  BY <3>2, <3>3, <3>4, <3>5, <3>6 DEF MutationInv
  <2>21. StealInv'  BY DEF Inv, StealInv, StealOnce, StealCpu, StealLabels
  <2>22. PreemptInv'  BY DEF Inv, PreemptInv, Picked, MoveUnderway
  <2>23. SelfInv'
    BY DEF Inv, SelfInv, SelfTask, SelfCpu, SelfMoves, Continues, SchedLabels, CpuLinks
  <2>24. ActiveInv'
    BY DEF Inv, ActiveInv, InSession, SessionLabels, SchedLabels, ClaimLabels,
       LinkLabels
  <2>25. SessionInv'  BY DEF Inv, SessionInv, Polled, Continues, WakeUnderway, SchedLabels
  <2>26. QED
    BY <2>10, <2>11, <2>12, <2>13, <2>14, <2>15, <2>16, <2>17, <2>18, <2>19, <2>20,
       <2>21, <2>22, <2>23, <2>24, <2>25 DEF Inv
\* ... or finds none and the task stays Blocked.
<1>5. ASSUME CommitBlock, ~bw.woken PROVE Inv'
  <2> USE <1>5
  <2> USE TaskWakeAssumption DEF Actors
  <2>1. pc[Task] = "commit" /\ task.state = "Blocked" /\ mutation.owner = "block" /\ cur # NoCpu
    BY DEF CommitBlock, Own, Here, Inv, StackInv, MutationInv, MutationTask,
       MutationOnce, MutationHeld, MutationActor, MutationCpu
  <2>2. /\ ready = {} /\ ~hand.pending
        /\ \A c \in Cpus : /\ ~CpuLinks(c) /\ cpu[c].pc \notin StealLabels
                           /\ cpu[c].pc \notin MoverLabels
        /\ \A a \in Actors : ~ActorLinks(a)
    BY <2>1, NoLinks
  <2>3. /\ mutation.owner = "block" /\ mutation # WakeOwned
        /\ \A a \in Actors : pc[a] \notin ClaimLabels /\ ~HoldsAffinity(a)
    BY <2>1, NoWakeClaim, MutIs
       DEF Inv, MutationInv, MutationTask, MutationOnce, MutationHeld, MutationActor,
           MutationCpu
  <2>4. /\ pc[Task] = "commit" /\ Goto(Task, "finishblock") /\ cur # NoCpu
        /\ ret' = [ret EXCEPT ![Task] = "resched"] /\ task.state = "Blocked"
        /\ bw' = [bw EXCEPT !.owner = FALSE]
        /\ UNCHANGED <<mutation, task, hand, ready, cur, cpu, locked, loc,
                       events, budget, fault>>
    BY <2>1 DEF CommitBlock, Own, Here, sched, env
  <2>5. /\ pc'[Task] = "finishblock" /\ pc' \in [Actors -> Labels]
        /\ \A b \in Actors \ {Task} : pc'[b] = pc[b]
    BY <2>4, Goes DEF Inv, Typed, Labels, WakeLabels, TaskLabels, SetterLabels
  <2>6. /\ ret'[Task] = "resched" /\ ret' \in [Actors -> Returns]
        /\ \A b \in Actors \ {Task} : ret'[b] = ret[b]
    BY <2>4 DEF Inv, Typed, Returns, TaskLabels
  <2>7. /\ bw' \in BlockWords /\ bw'.active = bw.active /\ bw'.owner = FALSE
        /\ bw'.woken = bw.woken
    BY <2>4, BlockUpdates DEF Inv, Typed
  <2> USE <2>2, <2>3, <2>4, <2>5, <2>6, <2>7
  <2>8. Typed'  BY DEF Inv, Typed
  <2>9. ~fault'  BY DEF Inv
  <2>10. RoleInv'
    <3>1. RoleTask'
      BY DEF Inv, RoleInv, RoleTask, ClaimLabels, LinkLabels, SetterLabels, TaskLabels,
             SchedLabels, SafePoints
    <3>2. ASSUME NEW y \in Wakers PROVE RoleWaker(y)'
      BY <3>2
         DEF Inv, RoleInv, RoleWaker, ClaimLabels, LinkLabels, SetterLabels,
             TaskLabels, SchedLabels, SafePoints
    <3>3. ASSUME NEW z \in Setters PROVE RoleSetter(z)'
      BY <3>3
         DEF Inv, RoleInv, RoleSetter, ClaimLabels, LinkLabels, SetterLabels,
             TaskLabels, SchedLabels, SafePoints
    <3> QED  BY <3>1, <3>2, <3>3 DEF RoleInv
  <2>11. StackInv'  BY DEF Inv, StackInv, ClaimLabels, LinkLabels, RunLabels
  <2>12. TokenInv'  BY DEF Inv, TokenInv, TokenTask, TokenActor, TokenCpu
  <2>13. LinkInv'
    <3>1. \A x \in Cpus : CpuLinks(x)' <=> CpuLinks(x)  BY DEF CpuLinks
    <3>2. \A b \in Actors : ActorLinks(b)' <=> ActorLinks(b)
      BY DEF ActorLinks, LinkLabels
    <3> QED  BY <3>1, <3>2, LinkFrame DEF Inv
  <2>14. HelperInv'  BY DEF Inv, HelperInv, HelperCpu
  <2>15. SlotInv'  BY DEF Inv, SlotInv, SlotTask, SlotHeld, SlotActor, SlotCpu
  <2>16. MutationInv'
    <3>1. \A b \in Actors : HoldsAffinity(b)' => HoldsAffinity(b)
      BY DEF HoldsAffinity, SelfLabels, SchedLabels, SetterLabels, ClaimLabels,
         LinkLabels
    <3>2. MutationTask'
      BY <3>1 DEF Inv, MutationInv, MutationTask, ClaimLabels, LinkLabels
    <3>3. MutationOnce'
      BY <3>1 DEF Inv, MutationInv, MutationOnce, ClaimLabels, LinkLabels
    <3>4. MutationHeld'
      BY <3>1 DEF Inv, MutationInv, MutationHeld, ClaimLabels, LinkLabels
    <3>5. ASSUME NEW b \in Actors PROVE MutationActor(b)'
      BY <3>1, <3>5 DEF Inv, MutationInv, MutationActor, ClaimLabels, LinkLabels
    <3>6. ASSUME NEW x \in Cpus PROVE MutationCpu(x)'
      BY <3>1, <3>6 DEF Inv, MutationInv, MutationCpu, ClaimLabels, LinkLabels
    <3> QED  BY <3>2, <3>3, <3>4, <3>5, <3>6 DEF MutationInv
  <2>17. StealInv'  BY DEF Inv, StealInv, StealOnce, StealCpu, StealLabels
  <2>18. PlaceInv'
    <3>1. PlaceTask'  BY DEF Inv, PlaceInv, PlaceTask
    <3>2. ASSUME NEW b \in Actors PROVE PlaceActor(b)'
      BY <3>2 DEF Inv, PlaceInv, PlaceActor, LinkLabels
    <3>3. ASSUME NEW x \in Cpus PROVE PlaceCpu(x)'
      BY <3>3 DEF Inv, PlaceInv, PlaceCpu
    <3> QED  BY <3>1, <3>2, <3>3 DEF PlaceInv
  <2>19. MaskInv'
    <3>1. MaskTask'  BY DEF Inv, MaskInv, MaskTask, LinkLabels
    <3>2. ASSUME NEW z \in Setters PROVE MaskSetter(z)'
      BY <3>2 DEF Inv, MaskInv, MaskSetter, LinkLabels
    <3>3. ASSUME NEW b \in Actors PROVE MaskActor(b)'
      BY <3>3 DEF Inv, MaskInv, MaskActor, LinkLabels
    <3>4. ASSUME NEW x \in Cpus PROVE MaskCpu(x)'
      BY <3>4 DEF Inv, MaskInv, MaskCpu, LinkLabels
    <3> QED  BY <3>1, <3>2, <3>3, <3>4 DEF MaskInv
  <2>20. PreemptInv'  BY DEF Inv, PreemptInv, Picked, MoveUnderway
  <2>21. SelfInv'
    BY DEF Inv, SelfInv, SelfTask, SelfCpu, SelfMoves, Continues, SchedLabels
  <2>22. ActiveInv'
    BY DEF Inv, ActiveInv, InSession, SessionLabels, SchedLabels, ClaimLabels,
       LinkLabels
  <2>23. SessionInv'
    BY SMTT(30), Z3T(30) DEF Inv, SessionInv, Polled, Continues, WakeUnderway, SchedLabels
  <2>24. QED
    BY <2>8, <2>9, <2>10, <2>11, <2>12, <2>13, <2>14, <2>15, <2>16, <2>17, <2>18,
       <2>19, <2>20, <2>21, <2>22, <2>23 DEF Inv
\* finish_block_mutation releases the claim.
<1>6. ASSUME FinishBlock, mutation = Mut("block", FALSE) PROVE Inv'
  <2> USE <1>6
  <2> USE TaskWakeAssumption DEF Actors
  <2>1. /\ pc[Task] = "finishblock" /\ task.state # "Ready" /\ mutation.owner = "block"
        /\ ret[Task] \in {"woken", "resched"}
    BY DEF FinishBlock, Own, Here, Inv, StackInv, MutationInv, MutationTask,
       MutationOnce, MutationHeld, MutationActor, MutationCpu, RoleInv, RoleTask,
       RoleWaker, RoleSetter
  <2>2. /\ ready = {} /\ ~hand.pending
        /\ \A c \in Cpus : /\ ~CpuLinks(c) /\ cpu[c].pc \notin StealLabels
                           /\ cpu[c].pc \notin MoverLabels
        /\ \A a \in Actors : ~ActorLinks(a)
    BY <2>1, NoLinks
  <2>3. /\ mutation.owner = "block" /\ mutation # WakeOwned
        /\ \A a \in Actors : pc[a] \notin ClaimLabels /\ ~HoldsAffinity(a)
        /\ \A c \in Cpus : cpu[c].pc \notin {"take", "delegated"}
        /\ ret[Task] \in {"woken", "resched"}
    BY <2>1, NoWakeClaim, MutIs
       DEF Inv, MutationInv, MutationTask, MutationOnce, MutationHeld, MutationActor,
           MutationCpu
  <2>4. mutation # Mut("block", TRUE) /\ mutation.owner = "block" /\ mutation.wake = FALSE
    BY MutIs DEF Mut
  <2>5. /\ pc[Task] = "finishblock" /\ Return(Task) /\ mutation' = Idle
        /\ locked' = locked \ {cur}
        /\ UNCHANGED <<bw, task, hand, ready, cur, cpu, ret, loc, events,
                       budget, fault>>
    BY <2>1, <2>4 DEF FinishBlock, Own, Here, sched, env
  <2>6. /\ pc'[Task] = ret[Task] /\ pc' \in [Actors -> Labels]
        /\ \A b \in Actors \ {Task} : pc'[b] = pc[b]
    BY <2>5, GoesBack DEF Inv
  <2>7. /\ mutation'.owner = "none" /\ mutation' # WakeOwned /\ mutation.wake = FALSE
        /\ mutation' \in MutationWords
    BY <2>5, <2>4, MutIs
  <2>8. StealInv'  BY <2>5, <2>2 DEF StealInv, StealOnce, StealCpu
  <2>9. PlaceInv'
    BY <2>5, <2>6, <2>3 DEF Inv, PlaceInv, PlaceTask, PlaceActor, PlaceCpu, LinkLabels
  <2> USE <2>2, <2>3, <2>5, <2>6, <2>7
  <2>10. Typed'  BY DEF Inv, Typed
  <2>11. ~fault'  BY DEF Inv
  <2>12. RoleInv'
    <3>1. RoleTask'
      BY DEF Inv, RoleInv, RoleTask, ClaimLabels, LinkLabels, SetterLabels, TaskLabels,
             SchedLabels, SafePoints
    <3>2. ASSUME NEW y \in Wakers PROVE RoleWaker(y)'
      BY <3>2
         DEF Inv, RoleInv, RoleWaker, ClaimLabels, LinkLabels, SetterLabels,
             TaskLabels, SchedLabels, SafePoints
    <3>3. ASSUME NEW z \in Setters PROVE RoleSetter(z)'
      BY <3>3
         DEF Inv, RoleInv, RoleSetter, ClaimLabels, LinkLabels, SetterLabels,
             TaskLabels, SchedLabels, SafePoints
    <3> QED  BY <3>1, <3>2, <3>3 DEF RoleInv
  <2>13. StackInv'  BY DEF Inv, StackInv, ClaimLabels, LinkLabels, RunLabels
  <2>14. TokenInv'  BY DEF Inv, TokenInv, TokenTask, TokenActor, TokenCpu
  <2>15. LinkInv'
    <3>1. \A x \in Cpus : CpuLinks(x)' <=> CpuLinks(x)  BY DEF CpuLinks
    <3>2. \A b \in Actors : ActorLinks(b)' <=> ActorLinks(b)
      BY DEF ActorLinks, LinkLabels
    <3> QED  BY <3>1, <3>2, LinkFrame DEF Inv
  <2>16. HelperInv'  BY DEF Inv, HelperInv, HelperCpu
  <2>17. SlotInv'  BY DEF Inv, SlotInv, SlotTask, SlotHeld, SlotActor, SlotCpu
  <2>18. MutationInv'
    <3>1. \A b \in Actors : HoldsAffinity(b)' => HoldsAffinity(b)
      BY DEF HoldsAffinity, SelfLabels, SchedLabels, SetterLabels, ClaimLabels,
         LinkLabels
    <3>2. MutationTask'
      BY <3>1 DEF Inv, MutationInv, MutationTask, ClaimLabels, LinkLabels
    <3>3. MutationOnce'
      BY <3>1 DEF Inv, MutationInv, MutationOnce, ClaimLabels, LinkLabels
    <3>4. MutationHeld'
      BY <3>1 DEF Inv, MutationInv, MutationHeld, ClaimLabels, LinkLabels
    <3>5. ASSUME NEW b \in Actors PROVE MutationActor(b)'
      BY <3>1, <3>5 DEF Inv, MutationInv, MutationActor, ClaimLabels, LinkLabels
    <3>6. ASSUME NEW x \in Cpus PROVE MutationCpu(x)'
      BY <3>1, <3>6 DEF Inv, MutationInv, MutationCpu, ClaimLabels, LinkLabels
    <3> QED  BY <3>2, <3>3, <3>4, <3>5, <3>6 DEF MutationInv
  <2>19. MaskInv'
    BY DEF Inv, MaskInv, MaskTask, MaskSetter, MaskActor, MaskCpu, LinkLabels,
           HoldsAffinity, SetterLabels
  <2>20. PreemptInv'  BY DEF Inv, PreemptInv, Picked, MoveUnderway
  <2>21. SelfInv'
    BY DEF Inv, SelfInv, SelfTask, SelfCpu, SelfMoves, Continues, SchedLabels
  <2>22. ActiveInv'
    BY DEF Inv, ActiveInv, InSession, SessionLabels, SchedLabels, ClaimLabels,
       LinkLabels
  <2>23. SessionInv'  BY DEF Inv, SessionInv, Polled, Continues, WakeUnderway, SchedLabels
  <2>24. QED
    BY <2>8, <2>9, <2>10, <2>11, <2>12, <2>13, <2>14, <2>15, <2>16, <2>17, <2>18,
       <2>19, <2>20, <2>21, <2>22, <2>23 DEF Inv
\* ... or inherits the wake that found the block owner.
<1>7. ASSUME FinishBlock, mutation = Mut("block", TRUE) PROVE Inv'
  <2> USE <1>7
  <2> USE TaskWakeAssumption DEF Actors
  <2>1. /\ pc[Task] = "finishblock" /\ task.state # "Ready" /\ mutation.owner = "block"
        /\ ret[Task] \in {"woken", "resched"}
    BY DEF FinishBlock, Own, Here, Inv, StackInv, MutationInv, MutationTask,
       MutationOnce, MutationHeld, MutationActor, MutationCpu, RoleInv, RoleTask,
       RoleWaker, RoleSetter
  <2>2. /\ ready = {} /\ ~hand.pending
        /\ \A c \in Cpus : /\ ~CpuLinks(c) /\ cpu[c].pc \notin StealLabels
                           /\ cpu[c].pc \notin MoverLabels
        /\ \A a \in Actors : ~ActorLinks(a)
    BY <2>1, NoLinks
  <2>3. /\ mutation.owner = "block" /\ mutation # WakeOwned
        /\ \A a \in Actors : pc[a] \notin ClaimLabels /\ ~HoldsAffinity(a)
        /\ \A c \in Cpus : cpu[c].pc \notin {"take", "delegated"}
        /\ ret[Task] \in {"woken", "resched"}
    BY <2>1, NoWakeClaim, MutIs
       DEF Inv, MutationInv, MutationTask, MutationOnce, MutationHeld, MutationActor,
           MutationCpu
  <2>4. mutation # Mut("block", FALSE) /\ mutation.owner = "block"  BY MutIs DEF Mut
  <2>5. /\ pc[Task] = "finishblock" /\ Goto(Task, "select") /\ mutation' = WakeOwned
        /\ locked' = locked \ {cur}
        /\ UNCHANGED <<bw, task, hand, ready, cur, cpu, ret, loc, events,
                       budget, fault>>
    BY <2>1, <2>4 DEF FinishBlock, Own, Here, sched, env
  <2>6. /\ pc'[Task] = "select" /\ pc' \in [Actors -> Labels]
        /\ \A b \in Actors \ {Task} : pc'[b] = pc[b]
    BY <2>5, Goes DEF Inv, Typed, Labels, WakeLabels, TaskLabels, SetterLabels
  <2>7. /\ mutation'.owner = "none"
        /\ mutation' \in MutationWords
    BY <2>5, MutIs
  <2>8. StealInv'  BY <2>5, <2>2 DEF StealInv, StealOnce, StealCpu
  <2> USE <2>2, <2>3, <2>5, <2>6, <2>7
  <2>9. Typed'  BY DEF Inv, Typed
  <2>10. ~fault'  BY DEF Inv
  <2>11. RoleInv'
    BY DEF Inv, RoleInv, RoleTask, RoleWaker, RoleSetter, ClaimLabels, LinkLabels,
       SetterLabels, TaskLabels,
       SchedLabels, SafePoints
  <2>12. StackInv'  BY DEF Inv, StackInv, ClaimLabels, LinkLabels, RunLabels
  <2>13. TokenInv'  BY DEF Inv, TokenInv, TokenTask, TokenActor, TokenCpu
  <2>14. LinkInv'
    BY DEF Inv, LinkInv, LinkOnce, LinkTask, LinkHeld, LinkActor, LinkCpu, CpuLinks,
           ActorLinks, LinkLabels
  <2>15. HelperInv'  BY DEF Inv, HelperInv, HelperCpu
  <2>16. SlotInv'  BY DEF Inv, SlotInv, SlotTask, SlotHeld, SlotActor, SlotCpu
  <2>17. MutationInv'
    <3>1. \A b \in Actors : HoldsAffinity(b)' => HoldsAffinity(b)
      BY DEF HoldsAffinity, SelfLabels, SchedLabels, SetterLabels, ClaimLabels,
         LinkLabels
    <3>2. MutationTask'
      BY <3>1 DEF Inv, MutationInv, MutationTask, ClaimLabels, LinkLabels
    <3>3. MutationOnce'
      BY <3>1 DEF Inv, MutationInv, MutationOnce, ClaimLabels, LinkLabels
    <3>4. MutationHeld'
      BY <3>1 DEF Inv, MutationInv, MutationHeld, ClaimLabels, LinkLabels
    <3>5. ASSUME NEW b \in Actors PROVE MutationActor(b)'
      BY <3>1, <3>5 DEF Inv, MutationInv, MutationActor, ClaimLabels, LinkLabels
    <3>6. ASSUME NEW x \in Cpus PROVE MutationCpu(x)'
      BY <3>1, <3>6 DEF Inv, MutationInv, MutationCpu, ClaimLabels, LinkLabels
    <3> QED  BY <3>2, <3>3, <3>4, <3>5, <3>6 DEF MutationInv
  <2>18. PlaceInv'
    <3>1. PlaceTask'  BY DEF Inv, PlaceInv, PlaceTask
    <3>2. ASSUME NEW b \in Actors PROVE PlaceActor(b)'
      BY <3>2 DEF Inv, PlaceInv, PlaceActor, LinkLabels
    <3>3. ASSUME NEW x \in Cpus PROVE PlaceCpu(x)'
      BY <3>3 DEF Inv, PlaceInv, PlaceCpu
    <3> QED  BY <3>1, <3>2, <3>3 DEF PlaceInv
  <2>19. MaskInv'
    BY DEF Inv, MaskInv, MaskTask, MaskSetter, MaskActor, MaskCpu, LinkLabels,
           HoldsAffinity, SetterLabels
  <2>20. PreemptInv'  BY DEF Inv, PreemptInv, Picked, MoveUnderway
  <2>21. SelfInv'
    BY DEF Inv, SelfInv, SelfTask, SelfCpu, SelfMoves, Continues, SchedLabels
  <2>22. ActiveInv'
    BY DEF Inv, ActiveInv, InSession, SessionLabels, SchedLabels, ClaimLabels,
       LinkLabels
  <2>23. SessionInv'  BY DEF Inv, SessionInv, Polled, Continues, WakeUnderway, SchedLabels
  <2>24. QED
    BY <2>8, <2>9, <2>10, <2>11, <2>12, <2>13, <2>14, <2>15, <2>16, <2>17, <2>18,
       <2>19, <2>20, <2>21, <2>22, <2>23 DEF Inv
\* The woken task keeps a reschedule pending when its CPU is excluded.
<1>8. CASE CommitWoken
  <2> USE <1>8
  <2> USE TaskWakeAssumption DEF Actors
  <2>1. /\ pc[Task] = "woken" /\ Goto(Task, "yield") /\ cur # NoCpu
        /\ UNCHANGED <<bw, mutation, hand, ready, cur, cpu, locked, ret, loc,
                       events, budget, fault>>
    BY DEF CommitWoken, Own, Here, sched, env
  <2>2. /\ pc'[Task] = "yield" /\ pc' \in [Actors -> Labels]
        /\ \A b \in Actors \ {Task} : pc'[b] = pc[b]
    BY <2>1, Goes DEF Inv, Typed, Labels, WakeLabels, TaskLabels, SetterLabels
  <2>3. /\ task \in TaskWords /\ task' = [task EXCEPT !.resched = (task.resched \/ cur \notin task.mask)]
        /\ (task.resched \/ cur \notin task.mask) \in BOOLEAN
    BY DEF Inv, Typed, CommitWoken
  <2>4. /\ task'.state = task.state /\ task'.cpu = task.cpu
        /\ task'.mask = task.mask /\ task'.helper = task.helper
        /\ task'.resched = (task.resched \/ cur \notin task.mask)
        /\ task' \in TaskWords
    BY <2>3 DEF TaskWords
  <2>5. /\ ready = {} /\ ~hand.pending /\ task.state = "Running" /\ task.cpu = cur
        /\ \A c \in Cpus : /\ ~CpuLinks(c) /\ cpu[c].pc \notin StealLabels
                           /\ cpu[c].pc \notin MoverLabels
        /\ \A a \in Actors : ~ActorLinks(a)
    BY <2>1, NoLinks
       DEF Inv, StackInv, RunLabels, PlaceInv, PlaceTask, PlaceActor, PlaceCpu
  <2> USE <2>1, <2>2, <2>4, <2>5
  <2>6. Typed'  BY DEF Inv, Typed
  <2>7. ~fault'  BY DEF Inv
  <2>8. RoleInv'
    <3>1. RoleTask'
      BY DEF Inv, RoleInv, RoleTask, ClaimLabels, LinkLabels, SetterLabels, TaskLabels,
             SchedLabels, SafePoints
    <3>2. ASSUME NEW y \in Wakers PROVE RoleWaker(y)'
      BY <3>2
         DEF Inv, RoleInv, RoleWaker, ClaimLabels, LinkLabels, SetterLabels,
             TaskLabels, SchedLabels, SafePoints
    <3>3. ASSUME NEW z \in Setters PROVE RoleSetter(z)'
      BY <3>3
         DEF Inv, RoleInv, RoleSetter, ClaimLabels, LinkLabels, SetterLabels,
             TaskLabels, SchedLabels, SafePoints
    <3> QED  BY <3>1, <3>2, <3>3 DEF RoleInv
  <2>9. StackInv'  BY DEF Inv, StackInv, ClaimLabels, LinkLabels, RunLabels
  <2>10. TokenInv'  BY DEF Inv, TokenInv, TokenTask, TokenActor, TokenCpu
  <2>11. LinkInv'
    BY DEF Inv, LinkInv, LinkOnce, LinkTask, LinkHeld, LinkActor, LinkCpu, CpuLinks,
           ActorLinks, LinkLabels
  <2>12. HelperInv'  BY DEF Inv, HelperInv, HelperCpu
  <2>13. SlotInv'  BY DEF Inv, SlotInv, SlotTask, SlotHeld, SlotActor, SlotCpu
  <2>14. MutationInv'
    <3>1. \A b \in Actors : HoldsAffinity(b)' => HoldsAffinity(b)
      BY DEF HoldsAffinity, SelfLabels, SchedLabels, SetterLabels, ClaimLabels,
         LinkLabels
    <3>2. MutationTask'
      BY <3>1 DEF Inv, MutationInv, MutationTask, ClaimLabels, LinkLabels
    <3>3. MutationOnce'
      BY <3>1 DEF Inv, MutationInv, MutationOnce, ClaimLabels, LinkLabels
    <3>4. MutationHeld'
      BY <3>1 DEF Inv, MutationInv, MutationHeld, ClaimLabels, LinkLabels
    <3>5. ASSUME NEW b \in Actors PROVE MutationActor(b)'
      BY <3>1, <3>5 DEF Inv, MutationInv, MutationActor, ClaimLabels, LinkLabels
    <3>6. ASSUME NEW x \in Cpus PROVE MutationCpu(x)'
      BY <3>1, <3>6 DEF Inv, MutationInv, MutationCpu, ClaimLabels, LinkLabels
    <3> QED  BY <3>2, <3>3, <3>4, <3>5, <3>6 DEF MutationInv
  <2>15. StealInv'  BY DEF Inv, StealInv, StealOnce, StealCpu, StealLabels
  <2>16. PlaceInv'  BY DEF Inv, PlaceInv, PlaceTask, PlaceActor, PlaceCpu, LinkLabels
  <2>17. MaskInv'
    BY DEF Inv, MaskInv, MaskTask, MaskSetter, MaskActor, MaskCpu, LinkLabels
  <2>18. PreemptInv'  BY DEF Inv, PreemptInv, Picked, MoveUnderway
  <2>19. SelfInv'
    BY DEF Inv, SelfInv, SelfTask, SelfCpu, SelfMoves, Continues, SchedLabels
  <2>20. ActiveInv'
    BY DEF Inv, ActiveInv, InSession, SessionLabels, SchedLabels, ClaimLabels,
       LinkLabels
  <2>21. SessionInv'  BY DEF Inv, SessionInv, Polled, Continues, WakeUnderway, SchedLabels
  <2>22. QED
    BY <2>6, <2>7, <2>8, <2>9, <2>10, <2>11, <2>12, <2>13, <2>14, <2>15, <2>16, <2>17,
       <2>18, <2>19, <2>20, <2>21 DEF Inv
<1>9. ASSUME FinishBlock PROVE mutation = Mut("block", FALSE) \/ mutation = Mut("block", TRUE)
  <2>1. mutation.owner = "block" /\ mutation \in MutationWords
    BY <1>9
       DEF FinishBlock, Own, Here, Inv, MutationInv, MutationTask, MutationOnce,
           MutationHeld, MutationActor, MutationCpu, Typed
  <2>2. QED  BY <2>1, OwnedIs
<1>10. QED  BY <1>1, <1>2, <1>3, <1>4, <1>5, <1>6, <1>7, <1>8, <1>9

-----------------------------------------------------------------------------
(* The task's own steps: giving up the CPU and coming back.                *)

\* Yields, preemption and the switches keep the invariant.
LEMMA SwitchKeeps ==
    ASSUME Inv,
           ReschedBlocked \/ YieldNow \/ Preempt \/ ClaimMigration \/
           MigrateCurrent \/ PutRunning \/ ReschedSelf \/ ResumeSelf \/
           ReschedOther \/ Resumed
    PROVE  Inv'
\* resched(Block) leaves the CPU; the epilogue there gives the owner token up.
<1>1. CASE ReschedBlocked
  <2> USE <1>1
  <2> USE TaskWakeAssumption DEF Actors
  <2>1. /\ pc[Task] = "resched" /\ Goto(Task, "resumed") /\ cur # NoCpu
        /\ ret' = [ret EXCEPT ![Task] = "prepare"] /\ SwitchOut(cur, FALSE)
        /\ UNCHANGED <<bw, mutation, task, hand, ready, locked, loc, events,
                       budget, fault>>
    BY DEF ReschedBlocked, Own, Here, words, env
  <2>2. /\ pc'[Task] = "resumed" /\ pc' \in [Actors -> Labels]
        /\ \A b \in Actors \ {Task} : pc'[b] = pc[b]
    BY <2>1, Goes DEF Inv, Typed, Labels, WakeLabels, TaskLabels, SetterLabels
  <2>3. /\ ret'[Task] = "prepare" /\ ret' \in [Actors -> Returns]
        /\ \A b \in Actors \ {Task} : ret'[b] = ret[b]
    BY <2>1 DEF Inv, Typed, Returns, TaskLabels
  <2>4. /\ cur \in Cpus /\ cpu[cur].pc = "run" /\ cpu[cur].helper = FALSE
        /\ hand.token # 0 /\ hand.cpu = cur
        /\ \A c \in Cpus : cpu[c].pc # "epilogue"
    BY <2>1, LiveStack
  <2>5. /\ cur' = NoCpu /\ cpu' \in [Cpus -> CpuRecords]
        /\ cpu'[cur].pc = "epilogue" /\ cpu'[cur].prev = hand.token
        /\ cpu'[cur].helper = FALSE
        /\ \A c \in Cpus \ {cur} : cpu'[c] = cpu[c]
    BY <2>1, <2>4, Switched DEF Inv
  <2> USE <2>1, <2>2, <2>3, <2>4, <2>5
  <2>6. Typed'  BY DEF Inv, Typed
  <2>7. ~fault'  BY DEF Inv
  <2>8. RoleInv'
    <3>1. RoleTask'
      BY DEF Inv, RoleInv, RoleTask, ClaimLabels, LinkLabels, SetterLabels, TaskLabels,
             SchedLabels, SafePoints
    <3>2. ASSUME NEW y \in Wakers PROVE RoleWaker(y)'
      BY <3>2
         DEF Inv, RoleInv, RoleWaker, ClaimLabels, LinkLabels, SetterLabels,
             TaskLabels, SchedLabels, SafePoints
    <3>3. ASSUME NEW z \in Setters PROVE RoleSetter(z)'
      BY <3>3
         DEF Inv, RoleInv, RoleSetter, ClaimLabels, LinkLabels, SetterLabels,
             TaskLabels, SchedLabels, SafePoints
    <3> QED  BY <3>1, <3>2, <3>3 DEF RoleInv
  <2>9. StackInv'  BY DEF Inv, StackInv, ClaimLabels, LinkLabels, RunLabels
  <2>10. TokenInv'
    <3>1. TokenTask'  BY DEF Inv, TokenInv, TokenTask
    <3>2. ASSUME NEW b \in Actors PROVE TokenActor(b)'
      BY <3>2 DEF Inv, TokenInv, TokenActor
    <3>3. ASSUME NEW x \in Cpus PROVE TokenCpu(x)'
      BY SMTT(30), Z3T(30), <3>3 DEF Inv, TokenInv, TokenCpu
    <3> QED  BY <3>1, <3>2, <3>3 DEF TokenInv
  <2>11. LinkInv'
    <3>1. \A x \in Cpus : CpuLinks(x)' <=> CpuLinks(x)  BY DEF CpuLinks
    <3>2. \A b \in Actors : ActorLinks(b)' <=> ActorLinks(b)
      BY DEF ActorLinks, LinkLabels
    <3> QED  BY <3>1, <3>2, LinkFrame DEF Inv
  <2>12. HelperInv'
    <3>1. ASSUME NEW x \in Cpus PROVE HelperCpu(x)'
      BY <3>1 DEF Inv, HelperInv, HelperCpu
    <3> QED  BY <3>1 DEF HelperInv
  <2>13. SlotInv'
    <3>1. SlotTask'  BY DEF Inv, SlotInv, SlotTask
    <3>2. SlotHeld'  BY SMTT(30), Z3T(30) DEF Inv, SlotInv, SlotHeld
    <3>3. ASSUME NEW b \in Actors PROVE SlotActor(b)'
      BY <3>3 DEF Inv, SlotInv, SlotActor
    <3>4. ASSUME NEW x \in Cpus PROVE SlotCpu(x)'
      BY SMTT(30), Z3T(30), <3>4 DEF Inv, SlotInv, SlotCpu
    <3> QED  BY <3>1, <3>2, <3>3, <3>4 DEF SlotInv
  <2>14. MutationInv'
    <3>1. \A b \in Actors : HoldsAffinity(b)' => HoldsAffinity(b)
      BY DEF HoldsAffinity, SelfLabels, SchedLabels, SetterLabels, ClaimLabels,
         LinkLabels
    <3>2. MutationTask'
      BY <3>1 DEF Inv, MutationInv, MutationTask, ClaimLabels, LinkLabels
    <3>3. MutationOnce'
      BY <3>1 DEF Inv, MutationInv, MutationOnce, ClaimLabels, LinkLabels
    <3>4. MutationHeld'
      BY <3>1 DEF Inv, MutationInv, MutationHeld, ClaimLabels, LinkLabels
    <3>5. ASSUME NEW b \in Actors PROVE MutationActor(b)'
      BY SMTT(30), Z3T(30), <3>1, <3>5
         DEF Inv, MutationInv, MutationActor, ClaimLabels, LinkLabels
    <3>6. ASSUME NEW x \in Cpus PROVE MutationCpu(x)'
      BY <3>1, <3>6 DEF Inv, MutationInv, MutationCpu, ClaimLabels, LinkLabels
    <3> QED  BY <3>2, <3>3, <3>4, <3>5, <3>6 DEF MutationInv
  <2>15. StealInv'
    <3>1. StealOnce'  BY SMTT(30), Z3T(30) DEF Inv, StealInv, StealOnce, StealLabels
    <3>2. ASSUME NEW x \in Cpus PROVE StealCpu(x)'
      BY <3>2 DEF Inv, StealInv, StealCpu, StealLabels
    <3> QED  BY <3>1, <3>2 DEF StealInv
  <2>16. PlaceInv'
    <3>1. PlaceTask'  BY DEF Inv, PlaceInv, PlaceTask, StackInv
    <3>2. ASSUME NEW b \in Actors PROVE PlaceActor(b)'
      BY <3>2 DEF Inv, PlaceInv, PlaceActor, LinkLabels, StackInv
    <3>3. ASSUME NEW x \in Cpus PROVE PlaceCpu(x)'
      BY SMTT(30), Z3T(30), <3>3 DEF Inv, PlaceInv, PlaceCpu, StackInv
    <3> QED  BY <3>1, <3>2, <3>3 DEF PlaceInv
  <2>17. MaskInv'
    <3>1. MaskTask'  BY DEF Inv, MaskInv, MaskTask, LinkLabels
    <3>2. ASSUME NEW z \in Setters PROVE MaskSetter(z)'
      BY <3>2 DEF Inv, MaskInv, MaskSetter, LinkLabels
    <3>3. ASSUME NEW b \in Actors PROVE MaskActor(b)'
      BY <3>3 DEF Inv, MaskInv, MaskActor, LinkLabels
    <3>4. ASSUME NEW x \in Cpus PROVE MaskCpu(x)'
      BY <3>4 DEF Inv, MaskInv, MaskCpu, LinkLabels
    <3> QED  BY <3>1, <3>2, <3>3, <3>4 DEF MaskInv
  <2>18. PreemptInv'  BY SMTT(30), Z3T(30) DEF Inv, PreemptInv, Picked, MoveUnderway
  <2>19. SelfInv'
    BY DEF Inv, SelfInv, SelfTask, SelfCpu, SelfMoves, Continues, SchedLabels
  <2>20. ActiveInv'
    BY DEF Inv, ActiveInv, InSession, SessionLabels, SchedLabels, ClaimLabels,
       LinkLabels
  <2>21. SessionInv'
    BY SMTT(30), Z3T(30) DEF Inv, SessionInv, Polled, Continues, WakeUnderway, SchedLabels
  <2>22. QED
    BY <2>6, <2>7, <2>8, <2>9, <2>10, <2>11, <2>12, <2>13, <2>14, <2>15, <2>16, <2>17,
       <2>18, <2>19, <2>20, <2>21 DEF Inv
\* yield_now retires a helper the mask no longer calls for.
<1>2. CASE YieldNow
  <2> USE <1>2
  <2> USE TaskWakeAssumption DEF Actors
  <2>1. /\ pc[Task] = "yield" /\ Goto(Task, "claimmigration") /\ cur # NoCpu
        /\ ret' = [ret EXCEPT ![Task] = "prepare"]
        /\ UNCHANGED <<bw, mutation, hand, ready, cur, cpu, locked, loc, events,
                       budget, fault>>
    BY DEF YieldNow, Own, Here, sched, env
  <2>2. /\ pc'[Task] = "claimmigration" /\ pc' \in [Actors -> Labels]
        /\ \A b \in Actors \ {Task} : pc'[b] = pc[b]
    BY <2>1, Goes DEF Inv, Typed, Labels, WakeLabels, TaskLabels, SetterLabels
  <2>3. /\ ret'[Task] = "prepare" /\ ret' \in [Actors -> Returns]
        /\ \A b \in Actors \ {Task} : ret'[b] = ret[b]
    BY <2>1 DEF Inv, Typed, Returns, TaskLabels
  <2>4. (IF cur \in task.mask THEN NoCpu ELSE task.helper) \in Setters \cup {Task, NoCpu}
    BY DEF Inv, Typed, TaskWords
  <2>5. /\ task \in TaskWords /\ task' = [task EXCEPT !.helper = (IF cur \in task.mask THEN NoCpu ELSE task.helper)]
        /\ (IF cur \in task.mask THEN NoCpu ELSE task.helper) \in Setters \cup {Task, NoCpu}
    BY <2>4 DEF Inv, Typed, YieldNow
  <2>6. /\ task'.state = task.state /\ task'.cpu = task.cpu
        /\ task'.mask = task.mask
        /\ task'.helper = (IF cur \in task.mask THEN NoCpu ELSE task.helper)
        /\ task'.resched = task.resched
        /\ task' \in TaskWords
    BY <2>5 DEF TaskWords
  <2>7. /\ ready = {} /\ ~hand.pending /\ task.state = "Running" /\ task.cpu = cur
        /\ \A c \in Cpus : /\ ~CpuLinks(c) /\ cpu[c].pc \notin StealLabels
                           /\ cpu[c].pc \notin MoverLabels
        /\ \A a \in Actors : ~ActorLinks(a)
    BY <2>1, NoLinks
       DEF Inv, StackInv, RunLabels, PlaceInv, PlaceTask, PlaceActor, PlaceCpu
  <2> USE <2>1, <2>2, <2>3, <2>6, <2>7
  <2>8. Typed'  BY DEF Inv, Typed
  <2>9. ~fault'  BY DEF Inv
  <2>10. RoleInv'
    <3>1. RoleTask'
      BY DEF Inv, RoleInv, RoleTask, ClaimLabels, LinkLabels, SetterLabels, TaskLabels,
             SchedLabels, SafePoints
    <3>2. ASSUME NEW y \in Wakers PROVE RoleWaker(y)'
      BY <3>2
         DEF Inv, RoleInv, RoleWaker, ClaimLabels, LinkLabels, SetterLabels,
             TaskLabels, SchedLabels, SafePoints
    <3>3. ASSUME NEW z \in Setters PROVE RoleSetter(z)'
      BY <3>3
         DEF Inv, RoleInv, RoleSetter, ClaimLabels, LinkLabels, SetterLabels,
             TaskLabels, SchedLabels, SafePoints
    <3> QED  BY <3>1, <3>2, <3>3 DEF RoleInv
  <2>11. StackInv'  BY DEF Inv, StackInv, ClaimLabels, LinkLabels, RunLabels
  <2>12. TokenInv'  BY DEF Inv, TokenInv, TokenTask, TokenActor, TokenCpu
  <2>13. LinkInv'
    <3>1. \A x \in Cpus : CpuLinks(x)' <=> CpuLinks(x)  BY DEF CpuLinks
    <3>2. \A b \in Actors : ActorLinks(b)' <=> ActorLinks(b)
      BY DEF ActorLinks, LinkLabels
    <3> QED  BY <3>1, <3>2, LinkFrame DEF Inv
  <2>14. HelperInv'  BY DEF Inv, HelperInv, HelperCpu
  <2>15. SlotInv'  BY DEF Inv, SlotInv, SlotTask, SlotHeld, SlotActor, SlotCpu
  <2>16. MutationInv'
    <3>1. \A b \in Actors : HoldsAffinity(b)' => HoldsAffinity(b)
      BY DEF HoldsAffinity, SelfLabels, SchedLabels, SetterLabels, ClaimLabels,
         LinkLabels
    <3>2. MutationTask'
      BY <3>1 DEF Inv, MutationInv, MutationTask, ClaimLabels, LinkLabels
    <3>3. MutationOnce'
      BY <3>1 DEF Inv, MutationInv, MutationOnce, ClaimLabels, LinkLabels
    <3>4. MutationHeld'
      BY <3>1 DEF Inv, MutationInv, MutationHeld, ClaimLabels, LinkLabels
    <3>5. ASSUME NEW b \in Actors PROVE MutationActor(b)'
      BY <3>1, <3>5 DEF Inv, MutationInv, MutationActor, ClaimLabels, LinkLabels
    <3>6. ASSUME NEW x \in Cpus PROVE MutationCpu(x)'
      BY <3>1, <3>6 DEF Inv, MutationInv, MutationCpu, ClaimLabels, LinkLabels
    <3> QED  BY <3>2, <3>3, <3>4, <3>5, <3>6 DEF MutationInv
  <2>17. StealInv'  BY DEF Inv, StealInv, StealOnce, StealCpu, StealLabels
  <2>18. PlaceInv'
    <3>1. PlaceTask'  BY DEF Inv, PlaceInv, PlaceTask
    <3>2. ASSUME NEW b \in Actors PROVE PlaceActor(b)'
      BY <3>2 DEF Inv, PlaceInv, PlaceActor, LinkLabels
    <3>3. ASSUME NEW x \in Cpus PROVE PlaceCpu(x)'
      BY <3>3 DEF Inv, PlaceInv, PlaceCpu
    <3> QED  BY <3>1, <3>2, <3>3 DEF PlaceInv
  <2>19. MaskInv'
    <3>1. MaskTask'  BY DEF Inv, MaskInv, MaskTask, LinkLabels
    <3>2. ASSUME NEW z \in Setters PROVE MaskSetter(z)'
      BY <3>2 DEF Inv, MaskInv, MaskSetter, LinkLabels
    <3>3. ASSUME NEW b \in Actors PROVE MaskActor(b)'
      BY <3>3 DEF Inv, MaskInv, MaskActor, LinkLabels
    <3>4. ASSUME NEW x \in Cpus PROVE MaskCpu(x)'
      BY <3>4 DEF Inv, MaskInv, MaskCpu, LinkLabels
    <3> QED  BY <3>1, <3>2, <3>3, <3>4 DEF MaskInv
  <2>20. PreemptInv'  BY DEF Inv, PreemptInv, Picked, MoveUnderway
  <2>21. SelfInv'
    BY DEF Inv, SelfInv, SelfTask, SelfCpu, SelfMoves, Continues, SchedLabels
  <2>22. ActiveInv'
    BY DEF Inv, ActiveInv, InSession, SessionLabels, SchedLabels, ClaimLabels,
       LinkLabels
  <2>23. SessionInv'  BY DEF Inv, SessionInv, Polled, Continues, WakeUnderway, SchedLabels
  <2>24. QED
    BY <2>8, <2>9, <2>10, <2>11, <2>12, <2>13, <2>14, <2>15, <2>16, <2>17, <2>18,
       <2>19, <2>20, <2>21, <2>22, <2>23 DEF Inv
\* A pending reschedule or a tick enters the scheduler at a safe point.
<1>3. CASE Preempt
  <2> USE <1>3
  <2> USE TaskWakeAssumption DEF Actors
  <2>1. /\ pc[Task] \in SafePoints /\ Goto(Task, "claimmigration") /\ cur # NoCpu
        /\ ret' = [ret EXCEPT ![Task] = pc[Task]]
        /\ UNCHANGED <<bw, mutation, task, hand, ready, cur, cpu, locked, loc,
                       events, fault>>
    BY DEF Preempt, Here, words, sched
  <2>2. /\ pc'[Task] = "claimmigration" /\ pc' \in [Actors -> Labels]
        /\ \A b \in Actors \ {Task} : pc'[b] = pc[b]
    BY <2>1, Goes DEF Inv, Typed, Labels, WakeLabels, TaskLabels, SetterLabels
  <2>3. /\ ret'[Task] = pc[Task] /\ ret' \in [Actors -> Returns]
        /\ \A b \in Actors \ {Task} : ret'[b] = ret[b]
    BY <2>1 DEF Inv, Typed, Returns, TaskLabels, SafePoints
  <2>4. /\ budget'.refused = budget.refused
        /\ budget' \in [sessions : Nat, contention : Nat, self : Nat, refused : Nat,
                      calls : [Wakers \cup Setters -> Nat]]
    BY SMTT(30), Z3T(30) DEF Preempt, Inv, Typed
  <2>5. /\ ready = {} /\ ~hand.pending /\ task.state = "Running" /\ task.cpu = cur
        /\ \A c \in Cpus : /\ ~CpuLinks(c) /\ cpu[c].pc \notin StealLabels
                           /\ cpu[c].pc \notin MoverLabels
        /\ \A a \in Actors : ~ActorLinks(a)
    BY <2>1, NoLinks
       DEF Inv, StackInv, RunLabels, PlaceInv, PlaceTask, PlaceActor, PlaceCpu, SafePoints
  <2> USE <2>1, <2>2, <2>3, <2>4, <2>5
  <2>6. Typed'  BY DEF Inv, Typed
  <2>7. ~fault'  BY DEF Inv
  <2>8. RoleInv'
    <3>1. RoleTask'
      BY DEF Inv, RoleInv, RoleTask, ClaimLabels, LinkLabels, SetterLabels, TaskLabels,
             SchedLabels, SafePoints
    <3>2. ASSUME NEW y \in Wakers PROVE RoleWaker(y)'
      BY <3>2
         DEF Inv, RoleInv, RoleWaker, ClaimLabels, LinkLabels, SetterLabels,
             TaskLabels, SchedLabels, SafePoints
    <3>3. ASSUME NEW z \in Setters PROVE RoleSetter(z)'
      BY <3>3
         DEF Inv, RoleInv, RoleSetter, ClaimLabels, LinkLabels, SetterLabels,
             TaskLabels, SchedLabels, SafePoints
    <3> QED  BY <3>1, <3>2, <3>3 DEF RoleInv
  <2>9. StackInv'  BY DEF Inv, StackInv, ClaimLabels, LinkLabels, RunLabels, SafePoints
  <2>10. TokenInv'  BY DEF Inv, TokenInv, TokenTask, TokenActor, TokenCpu
  <2>11. LinkInv'
    BY DEF Inv, LinkInv, LinkOnce, LinkTask, LinkHeld, LinkActor, LinkCpu, CpuLinks,
           ActorLinks, LinkLabels
  <2>12. HelperInv'  BY DEF Inv, HelperInv, HelperCpu
  <2>13. SlotInv'  BY DEF Inv, SlotInv, SlotTask, SlotHeld, SlotActor, SlotCpu, SafePoints
  <2>14. MutationInv'
    <3>1. \A b \in Actors : HoldsAffinity(b)' => HoldsAffinity(b)
      BY DEF HoldsAffinity, SelfLabels, SchedLabels, SetterLabels, ClaimLabels,
         LinkLabels
    <3>2. MutationTask'
      BY <3>1 DEF Inv, MutationInv, MutationTask, ClaimLabels, LinkLabels, SafePoints
    <3>3. MutationOnce'
      BY <3>1 DEF Inv, MutationInv, MutationOnce, ClaimLabels, LinkLabels, SafePoints
    <3>4. MutationHeld'
      BY <3>1 DEF Inv, MutationInv, MutationHeld, ClaimLabels, LinkLabels, SafePoints
    <3>5. ASSUME NEW b \in Actors PROVE MutationActor(b)'
      BY <3>1, <3>5
         DEF Inv, MutationInv, MutationActor, ClaimLabels, LinkLabels, SafePoints
    <3>6. ASSUME NEW x \in Cpus PROVE MutationCpu(x)'
      BY <3>1, <3>6 DEF Inv, MutationInv, MutationCpu, ClaimLabels, LinkLabels, SafePoints
    <3> QED  BY <3>2, <3>3, <3>4, <3>5, <3>6 DEF MutationInv
  <2>15. StealInv'  BY DEF Inv, StealInv, StealOnce, StealCpu, StealLabels
  <2>16. PlaceInv'
    <3>1. PlaceTask'  BY DEF Inv, PlaceInv, PlaceTask, LinkLabels
    <3>2. ASSUME NEW b \in Actors PROVE PlaceActor(b)'
      BY <3>2 DEF Inv, PlaceInv, PlaceActor, LinkLabels
    <3>3. ASSUME NEW x \in Cpus PROVE PlaceCpu(x)'
      BY <3>3 DEF Inv, PlaceInv, PlaceCpu, LinkLabels
    <3> QED  BY <3>1, <3>2, <3>3 DEF PlaceInv
  <2>17. MaskInv'
    BY DEF Inv, MaskInv, MaskTask, MaskSetter, MaskActor, MaskCpu, LinkLabels
  <2>18. PreemptInv'  BY DEF Inv, PreemptInv, Picked, MoveUnderway, SafePoints
  <2>19. SelfInv'
    BY DEF Inv, SelfInv, SelfTask, SelfCpu, SelfMoves, Continues, SchedLabels, SafePoints
  <2>20. ActiveInv'
    BY DEF Inv, ActiveInv, InSession, SessionLabels, SchedLabels, ClaimLabels,
       LinkLabels, SafePoints
  <2>21. SessionInv'
    BY DEF Inv, SessionInv, Polled, Continues, WakeUnderway, SchedLabels, SafePoints
  <2>22. QED
    BY <2>6, <2>7, <2>8, <2>9, <2>10, <2>11, <2>12, <2>13, <2>14, <2>15, <2>16, <2>17,
       <2>18, <2>19, <2>20, <2>21 DEF Inv
\* claim_migration on an allowed CPU goes on to the run queue.
<1>4. ASSUME ClaimMigration, cur \in task.mask PROVE Inv'
  <2> USE <1>4
  <2> USE TaskWakeAssumption DEF Actors
  <2>1. pc[Task] = "claimmigration" /\ cur # NoCpu  BY DEF ClaimMigration, Own, Here
  <2>2. /\ pc[Task] = "claimmigration" /\ Goto(Task, "put") /\ cur # NoCpu
        /\ UNCHANGED <<bw, mutation, task, hand, ready, cur, cpu, locked, ret,
                       loc, events, budget, fault>>
    BY <2>1 DEF ClaimMigration, sched, env
  <2>3. /\ pc'[Task] = "put" /\ pc' \in [Actors -> Labels]
        /\ \A b \in Actors \ {Task} : pc'[b] = pc[b]
    BY <2>2, Goes DEF Inv, Typed, Labels, WakeLabels, TaskLabels, SetterLabels
  <2>4. /\ ready = {} /\ ~hand.pending /\ task.state = "Running" /\ task.cpu = cur
        /\ \A c \in Cpus : /\ ~CpuLinks(c) /\ cpu[c].pc \notin StealLabels
                           /\ cpu[c].pc \notin MoverLabels
        /\ \A a \in Actors : ~ActorLinks(a)
    BY <2>2, NoLinks
       DEF Inv, StackInv, RunLabels, PlaceInv, PlaceTask, PlaceActor, PlaceCpu
  <2> USE <2>2, <2>3, <2>4
  <2>5. Typed'  BY DEF Inv, Typed
  <2>6. ~fault'  BY DEF Inv
  <2>7. RoleInv'
    <3>1. RoleTask'
      BY DEF Inv, RoleInv, RoleTask, ClaimLabels, LinkLabels, SetterLabels, TaskLabels,
             SchedLabels, SafePoints
    <3>2. ASSUME NEW y \in Wakers PROVE RoleWaker(y)'
      BY <3>2
         DEF Inv, RoleInv, RoleWaker, ClaimLabels, LinkLabels, SetterLabels,
             TaskLabels, SchedLabels, SafePoints
    <3>3. ASSUME NEW z \in Setters PROVE RoleSetter(z)'
      BY <3>3
         DEF Inv, RoleInv, RoleSetter, ClaimLabels, LinkLabels, SetterLabels,
             TaskLabels, SchedLabels, SafePoints
    <3> QED  BY <3>1, <3>2, <3>3 DEF RoleInv
  <2>8. StackInv'  BY DEF Inv, StackInv, ClaimLabels, LinkLabels, RunLabels
  <2>9. TokenInv'  BY DEF Inv, TokenInv, TokenTask, TokenActor, TokenCpu
  <2>10. LinkInv'
    BY DEF Inv, LinkInv, LinkOnce, LinkTask, LinkHeld, LinkActor, LinkCpu, CpuLinks,
           ActorLinks, LinkLabels
  <2>11. HelperInv'  BY DEF Inv, HelperInv, HelperCpu
  <2>12. SlotInv'  BY DEF Inv, SlotInv, SlotTask, SlotHeld, SlotActor, SlotCpu
  <2>13. MutationInv'
    <3>1. \A b \in Actors : HoldsAffinity(b)' => HoldsAffinity(b)
      BY DEF HoldsAffinity, SelfLabels, SchedLabels, SetterLabels, ClaimLabels,
         LinkLabels
    <3>2. QED  BY <3>1
                  DEF Inv, MutationInv, MutationTask, MutationOnce, MutationHeld,
                      MutationActor, MutationCpu, ClaimLabels, LinkLabels
  <2>14. StealInv'  BY DEF Inv, StealInv, StealOnce, StealCpu, StealLabels
  <2>15. PlaceInv'  BY DEF Inv, PlaceInv, PlaceTask, PlaceActor, PlaceCpu, LinkLabels
  <2>16. MaskInv'
    BY DEF Inv, MaskInv, MaskTask, MaskSetter, MaskActor, MaskCpu, LinkLabels
  <2>17. PreemptInv'  BY DEF Inv, PreemptInv, Picked, MoveUnderway
  <2>18. SelfInv'
    BY DEF Inv, SelfInv, SelfTask, SelfCpu, SelfMoves, Continues, SchedLabels, MoverLabels
  <2>19. ActiveInv'
    BY DEF Inv, ActiveInv, InSession, SessionLabels, SchedLabels, ClaimLabels,
       LinkLabels
  <2>20. SessionInv'  BY DEF Inv, SessionInv, Polled, Continues, WakeUnderway, SchedLabels
  <2>21. QED
    BY <2>5, <2>6, <2>7, <2>8, <2>9, <2>10, <2>11, <2>12, <2>13, <2>14, <2>15, <2>16,
       <2>17, <2>18, <2>19, <2>20 DEF Inv
\* ... on an excluded CPU takes the admitted helper.
<1>5. ASSUME ClaimMigration, cur \notin task.mask, task.helper # NoCpu PROVE Inv'
  <2> USE <1>5
  <2> USE TaskWakeAssumption DEF Actors
  <2>1. pc[Task] = "claimmigration" /\ cur # NoCpu  BY DEF ClaimMigration, Own, Here
  <2>2. /\ pc[Task] = "claimmigration" /\ Goto(Task, "migrate") /\ cur # NoCpu
        /\ UNCHANGED <<bw, mutation, hand, ready, cur, cpu, locked, ret, loc,
                       events, budget, fault>>
    BY <2>1 DEF ClaimMigration, sched, env
  <2>3. /\ pc'[Task] = "migrate" /\ pc' \in [Actors -> Labels]
        /\ \A b \in Actors \ {Task} : pc'[b] = pc[b]
    BY <2>2, Goes DEF Inv, Typed, Labels, WakeLabels, TaskLabels, SetterLabels
  <2>4. /\ task \in TaskWords /\ task' = [task EXCEPT !.helper = NoCpu]
    BY DEF Inv, Typed, ClaimMigration
  <2>5. /\ task'.state = task.state /\ task'.cpu = task.cpu
        /\ task'.mask = task.mask /\ task'.helper = NoCpu
        /\ task'.resched = task.resched
        /\ task' \in TaskWords
    BY <2>4 DEF TaskWords
  <2>6. /\ ready = {} /\ ~hand.pending /\ task.state = "Running" /\ task.cpu = cur
        /\ \A c \in Cpus : /\ ~CpuLinks(c) /\ cpu[c].pc \notin StealLabels
                           /\ cpu[c].pc \notin MoverLabels
        /\ \A a \in Actors : ~ActorLinks(a)
    BY <2>2, NoLinks
       DEF Inv, StackInv, RunLabels, PlaceInv, PlaceTask, PlaceActor, PlaceCpu
  <2> USE <2>2, <2>3, <2>5, <2>6
  <2>7. Typed'  BY DEF Inv, Typed
  <2>8. ~fault'  BY DEF Inv
  <2>9. RoleInv'
    <3>1. RoleTask'
      BY DEF Inv, RoleInv, RoleTask, ClaimLabels, LinkLabels, SetterLabels, TaskLabels,
             SchedLabels, SafePoints
    <3>2. ASSUME NEW y \in Wakers PROVE RoleWaker(y)'
      BY <3>2
         DEF Inv, RoleInv, RoleWaker, ClaimLabels, LinkLabels, SetterLabels,
             TaskLabels, SchedLabels, SafePoints
    <3>3. ASSUME NEW z \in Setters PROVE RoleSetter(z)'
      BY <3>3
         DEF Inv, RoleInv, RoleSetter, ClaimLabels, LinkLabels, SetterLabels,
             TaskLabels, SchedLabels, SafePoints
    <3> QED  BY <3>1, <3>2, <3>3 DEF RoleInv
  <2>10. StackInv'  BY DEF Inv, StackInv, ClaimLabels, LinkLabels, RunLabels
  <2>11. TokenInv'  BY DEF Inv, TokenInv, TokenTask, TokenActor, TokenCpu
  <2>12. LinkInv'
    BY DEF Inv, LinkInv, LinkOnce, LinkTask, LinkHeld, LinkActor, LinkCpu, CpuLinks,
           ActorLinks, LinkLabels
  <2>13. HelperInv'  BY DEF Inv, HelperInv, HelperCpu
  <2>14. SlotInv'  BY DEF Inv, SlotInv, SlotTask, SlotHeld, SlotActor, SlotCpu
  <2>15. MutationInv'
    <3>1. \A b \in Actors : HoldsAffinity(b)' => HoldsAffinity(b)
      BY DEF HoldsAffinity, SelfLabels, SchedLabels, SetterLabels, ClaimLabels,
         LinkLabels
    <3>2. MutationTask'
      BY <3>1 DEF Inv, MutationInv, MutationTask, ClaimLabels, LinkLabels
    <3>3. MutationOnce'
      BY <3>1 DEF Inv, MutationInv, MutationOnce, ClaimLabels, LinkLabels
    <3>4. MutationHeld'
      BY <3>1 DEF Inv, MutationInv, MutationHeld, ClaimLabels, LinkLabels
    <3>5. ASSUME NEW b \in Actors PROVE MutationActor(b)'
      BY <3>1, <3>5 DEF Inv, MutationInv, MutationActor, ClaimLabels, LinkLabels
    <3>6. ASSUME NEW x \in Cpus PROVE MutationCpu(x)'
      BY <3>1, <3>6 DEF Inv, MutationInv, MutationCpu, ClaimLabels, LinkLabels
    <3> QED  BY <3>2, <3>3, <3>4, <3>5, <3>6 DEF MutationInv
  <2>16. StealInv'  BY DEF Inv, StealInv, StealOnce, StealCpu, StealLabels
  <2>17. PlaceInv'  BY DEF Inv, PlaceInv, PlaceTask, PlaceActor, PlaceCpu, LinkLabels
  <2>18. MaskInv'
    BY DEF Inv, MaskInv, MaskTask, MaskSetter, MaskActor, MaskCpu, LinkLabels
  <2>19. PreemptInv'  BY DEF Inv, PreemptInv, Picked, MoveUnderway
  <2>20. SelfInv'
    BY DEF Inv, SelfInv, SelfTask, SelfCpu, SelfMoves, Continues, SchedLabels
  <2>21. ActiveInv'
    BY DEF Inv, ActiveInv, InSession, SessionLabels, SchedLabels, ClaimLabels,
       LinkLabels
  <2>22. SessionInv'  BY DEF Inv, SessionInv, Polled, Continues, WakeUnderway, SchedLabels
  <2>23. QED
    BY <2>7, <2>8, <2>9, <2>10, <2>11, <2>12, <2>13, <2>14, <2>15, <2>16, <2>17, <2>18,
       <2>19, <2>20, <2>21, <2>22 DEF Inv
\* ... and without one keeps the reschedule pending.
<1>6. ASSUME ClaimMigration, cur \notin task.mask, task.helper = NoCpu PROVE Inv'
  <2> USE <1>6
  <2> USE TaskWakeAssumption DEF Actors
  <2>1. pc[Task] = "claimmigration" /\ cur # NoCpu  BY DEF ClaimMigration, Own, Here
  <2>2. /\ pc[Task] = "claimmigration" /\ Goto(Task, "put") /\ cur # NoCpu
        /\ UNCHANGED <<bw, mutation, hand, ready, cur, cpu, locked, ret, loc,
                       events, budget, fault>>
    BY <2>1 DEF ClaimMigration, sched, env
  <2>3. /\ pc'[Task] = "put" /\ pc' \in [Actors -> Labels]
        /\ \A b \in Actors \ {Task} : pc'[b] = pc[b]
    BY <2>2, Goes DEF Inv, Typed, Labels, WakeLabels, TaskLabels, SetterLabels
  <2>4. /\ task \in TaskWords /\ task' = [task EXCEPT !.resched = TRUE]
    BY DEF Inv, Typed, ClaimMigration
  <2>5. /\ task'.state = task.state /\ task'.cpu = task.cpu
        /\ task'.mask = task.mask /\ task'.helper = task.helper
        /\ task'.resched = TRUE
        /\ task' \in TaskWords
    BY <2>4 DEF TaskWords
  <2>6. /\ ready = {} /\ ~hand.pending /\ task.state = "Running" /\ task.cpu = cur
        /\ \A c \in Cpus : /\ ~CpuLinks(c) /\ cpu[c].pc \notin StealLabels
                           /\ cpu[c].pc \notin MoverLabels
        /\ \A a \in Actors : ~ActorLinks(a)
    BY <2>2, NoLinks
       DEF Inv, StackInv, RunLabels, PlaceInv, PlaceTask, PlaceActor, PlaceCpu
  <2> USE <2>2, <2>3, <2>5, <2>6
  <2>7. Typed'  BY DEF Inv, Typed
  <2>8. ~fault'  BY DEF Inv
  <2>9. RoleInv'
    <3>1. RoleTask'
      BY DEF Inv, RoleInv, RoleTask, ClaimLabels, LinkLabels, SetterLabels, TaskLabels,
             SchedLabels, SafePoints
    <3>2. ASSUME NEW y \in Wakers PROVE RoleWaker(y)'
      BY <3>2
         DEF Inv, RoleInv, RoleWaker, ClaimLabels, LinkLabels, SetterLabels,
             TaskLabels, SchedLabels, SafePoints
    <3>3. ASSUME NEW z \in Setters PROVE RoleSetter(z)'
      BY <3>3
         DEF Inv, RoleInv, RoleSetter, ClaimLabels, LinkLabels, SetterLabels,
             TaskLabels, SchedLabels, SafePoints
    <3> QED  BY <3>1, <3>2, <3>3 DEF RoleInv
  <2>10. StackInv'  BY DEF Inv, StackInv, ClaimLabels, LinkLabels, RunLabels
  <2>11. TokenInv'  BY DEF Inv, TokenInv, TokenTask, TokenActor, TokenCpu
  <2>12. LinkInv'
    <3>1. \A x \in Cpus : CpuLinks(x)' <=> CpuLinks(x)  BY DEF CpuLinks
    <3>2. \A b \in Actors : ActorLinks(b)' <=> ActorLinks(b)
      BY DEF ActorLinks, LinkLabels
    <3> QED  BY <3>1, <3>2, LinkFrame DEF Inv
  <2>13. HelperInv'  BY DEF Inv, HelperInv, HelperCpu
  <2>14. SlotInv'  BY DEF Inv, SlotInv, SlotTask, SlotHeld, SlotActor, SlotCpu
  <2>15. MutationInv'
    <3>1. \A b \in Actors : HoldsAffinity(b)' => HoldsAffinity(b)
      BY DEF HoldsAffinity, SelfLabels, SchedLabels, SetterLabels, ClaimLabels,
         LinkLabels
    <3>2. MutationTask'
      BY <3>1 DEF Inv, MutationInv, MutationTask, ClaimLabels, LinkLabels
    <3>3. MutationOnce'
      BY <3>1 DEF Inv, MutationInv, MutationOnce, ClaimLabels, LinkLabels
    <3>4. MutationHeld'
      BY <3>1 DEF Inv, MutationInv, MutationHeld, ClaimLabels, LinkLabels
    <3>5. ASSUME NEW b \in Actors PROVE MutationActor(b)'
      BY <3>1, <3>5 DEF Inv, MutationInv, MutationActor, ClaimLabels, LinkLabels
    <3>6. ASSUME NEW x \in Cpus PROVE MutationCpu(x)'
      BY <3>1, <3>6 DEF Inv, MutationInv, MutationCpu, ClaimLabels, LinkLabels
    <3> QED  BY <3>2, <3>3, <3>4, <3>5, <3>6 DEF MutationInv
  <2>16. StealInv'  BY DEF Inv, StealInv, StealOnce, StealCpu, StealLabels
  <2>17. PlaceInv'
    <3>1. PlaceTask'  BY DEF Inv, PlaceInv, PlaceTask
    <3>2. ASSUME NEW b \in Actors PROVE PlaceActor(b)'
      BY <3>2 DEF Inv, PlaceInv, PlaceActor, LinkLabels
    <3>3. ASSUME NEW x \in Cpus PROVE PlaceCpu(x)'
      BY <3>3 DEF Inv, PlaceInv, PlaceCpu
    <3> QED  BY <3>1, <3>2, <3>3 DEF PlaceInv
  <2>18. MaskInv'
    <3>1. MaskTask'  BY DEF Inv, MaskInv, MaskTask, LinkLabels
    <3>2. ASSUME NEW z \in Setters PROVE MaskSetter(z)'
      BY <3>2 DEF Inv, MaskInv, MaskSetter, LinkLabels
    <3>3. ASSUME NEW b \in Actors PROVE MaskActor(b)'
      BY <3>3 DEF Inv, MaskInv, MaskActor, LinkLabels
    <3>4. ASSUME NEW x \in Cpus PROVE MaskCpu(x)'
      BY <3>4 DEF Inv, MaskInv, MaskCpu, LinkLabels
    <3> QED  BY <3>1, <3>2, <3>3, <3>4 DEF MaskInv
  <2>19. PreemptInv'  BY DEF Inv, PreemptInv, Picked, MoveUnderway
  <2>20. SelfInv'
    BY DEF Inv, SelfInv, SelfTask, SelfCpu, SelfMoves, Continues, SchedLabels
  <2>21. ActiveInv'
    BY DEF Inv, ActiveInv, InSession, SessionLabels, SchedLabels, ClaimLabels,
       LinkLabels
  <2>22. SessionInv'  BY DEF Inv, SessionInv, Polled, Continues, WakeUnderway, SchedLabels
  <2>23. QED
    BY <2>7, <2>8, <2>9, <2>10, <2>11, <2>12, <2>13, <2>14, <2>15, <2>16, <2>17, <2>18,
       <2>19, <2>20, <2>21, <2>22 DEF Inv
\* migrate_current leaves the task Ready in no queue, owed by the CPU's helper.
<1>7. CASE MigrateCurrent
  <2> USE <1>7
  <2> USE TaskWakeAssumption DEF Actors
  <2>1. /\ pc[Task] = "migrate" /\ Goto(Task, "resumed") /\ cur # NoCpu
        /\ SwitchOut(cur, TRUE)
        /\ UNCHANGED <<bw, mutation, hand, ready, locked, ret, loc, events,
                       budget, fault>>
    BY DEF MigrateCurrent, Own, Here, env
  <2>2. /\ pc'[Task] = "resumed" /\ pc' \in [Actors -> Labels]
        /\ \A b \in Actors \ {Task} : pc'[b] = pc[b]
    BY <2>1, Goes DEF Inv, Typed, Labels, WakeLabels, TaskLabels, SetterLabels
  <2>3. /\ cur \in Cpus /\ cpu[cur].pc = "run" /\ cpu[cur].helper = FALSE
        /\ hand.token # 0 /\ hand.cpu = cur
        /\ \A c \in Cpus : cpu[c].pc # "epilogue"
    BY <2>1, LiveStack
  <2>4. /\ cur' = NoCpu /\ cpu' \in [Cpus -> CpuRecords]
        /\ cpu'[cur].pc = "epilogue" /\ cpu'[cur].prev = hand.token
        /\ cpu'[cur].helper = TRUE
        /\ \A c \in Cpus \ {cur} : cpu'[c] = cpu[c]
    BY <2>1, <2>3, Switched DEF Inv
  <2>5. /\ task \in TaskWords /\ task' = [task EXCEPT !.state = "Ready"]
    BY DEF Inv, Typed, MigrateCurrent
  <2>6. /\ task'.state = "Ready" /\ task'.cpu = task.cpu
        /\ task'.mask = task.mask /\ task'.helper = task.helper
        /\ task'.resched = task.resched
        /\ task' \in TaskWords
    BY <2>5 DEF TaskWords
  <2>7. /\ ready = {} /\ ~hand.pending /\ task.state = "Running" /\ task.cpu = cur
        /\ \A c \in Cpus : /\ ~CpuLinks(c) /\ cpu[c].pc \notin StealLabels
                           /\ cpu[c].pc \notin MoverLabels
        /\ \A a \in Actors : ~ActorLinks(a)
    BY <2>1, NoLinks
       DEF Inv, StackInv, RunLabels, PlaceInv, PlaceTask, PlaceActor, PlaceCpu
  <2>8. \A c \in Cpus : CpuLinks(c)' <=> c = cur  BY <2>1, <2>4, <2>3, <2>7 DEF CpuLinks
  <2>9. LinkInv'
    <3>1. LinkOnce'
      BY SMTT(30), Z3T(30), <2>1, <2>2, <2>6, <2>3, <2>7, <2>8
         DEF Inv, LinkInv, LinkOnce, ActorLinks, LinkLabels
    <3>2. LinkTask'
      BY <2>1, <2>2, <2>6, <2>3, <2>7, <2>8
         DEF Inv, LinkInv, LinkTask, ActorLinks, LinkLabels
    <3>3. LinkHeld'
      BY <2>1, <2>2, <2>6, <2>3, <2>7, <2>8
         DEF Inv, LinkInv, LinkHeld, ActorLinks, LinkLabels
    <3>4. ASSUME NEW b \in Actors PROVE LinkActor(b)'
      BY <2>1, <2>2, <2>6, <2>3, <2>7, <2>8, <3>4
         DEF Inv, LinkInv, LinkActor, ActorLinks, LinkLabels
    <3>5. ASSUME NEW x \in Cpus PROVE LinkCpu(x)'
      BY <2>1, <2>2, <2>6, <2>3, <2>7, <2>8, <3>5
         DEF Inv, LinkInv, LinkCpu, ActorLinks, LinkLabels
    <3> QED  BY <3>1, <3>2, <3>3, <3>4, <3>5 DEF LinkInv
  <2> USE <2>1, <2>2, <2>3, <2>4, <2>6, <2>7, <2>8
  <2>10. Typed'  BY DEF Inv, Typed
  <2>11. ~fault'  BY DEF Inv
  <2>12. RoleInv'
    <3>1. RoleTask'
      BY DEF Inv, RoleInv, RoleTask, ClaimLabels, LinkLabels, SetterLabels, TaskLabels,
             SchedLabels, SafePoints
    <3>2. ASSUME NEW y \in Wakers PROVE RoleWaker(y)'
      BY <3>2
         DEF Inv, RoleInv, RoleWaker, ClaimLabels, LinkLabels, SetterLabels,
             TaskLabels, SchedLabels, SafePoints
    <3>3. ASSUME NEW z \in Setters PROVE RoleSetter(z)'
      BY <3>3
         DEF Inv, RoleInv, RoleSetter, ClaimLabels, LinkLabels, SetterLabels,
             TaskLabels, SchedLabels, SafePoints
    <3> QED  BY <3>1, <3>2, <3>3 DEF RoleInv
  <2>13. StackInv'  BY DEF Inv, StackInv, ClaimLabels, LinkLabels, RunLabels
  <2>14. TokenInv'
    <3>1. TokenTask'  BY DEF Inv, TokenInv, TokenTask
    <3>2. ASSUME NEW b \in Actors PROVE TokenActor(b)'
      BY <3>2 DEF Inv, TokenInv, TokenActor
    <3>3. ASSUME NEW x \in Cpus PROVE TokenCpu(x)'
      BY <3>3 DEF Inv, TokenInv, TokenCpu
    <3> QED  BY <3>1, <3>2, <3>3 DEF TokenInv
  <2>15. HelperInv'  BY DEF Inv, HelperInv, HelperCpu
  <2>16. SlotInv'
    <3>1. SlotTask'  BY DEF Inv, SlotInv, SlotTask
    <3>2. SlotHeld'  BY SMTT(30), Z3T(30) DEF Inv, SlotInv, SlotHeld
    <3>3. ASSUME NEW b \in Actors PROVE SlotActor(b)'
      BY <3>3 DEF Inv, SlotInv, SlotActor
    <3>4. ASSUME NEW x \in Cpus PROVE SlotCpu(x)'
      BY <3>4 DEF Inv, SlotInv, SlotCpu
    <3> QED  BY <3>1, <3>2, <3>3, <3>4 DEF SlotInv
  <2>17. MutationInv'
    <3>1. \A b \in Actors : HoldsAffinity(b)' => HoldsAffinity(b)
      BY DEF HoldsAffinity, SelfLabels, SchedLabels, SetterLabels, ClaimLabels,
         LinkLabels
    <3>2. MutationTask'
      BY <3>1 DEF Inv, MutationInv, MutationTask, ClaimLabels, LinkLabels
    <3>3. MutationOnce'
      BY <3>1 DEF Inv, MutationInv, MutationOnce, ClaimLabels, LinkLabels
    <3>4. MutationHeld'
      BY <3>1 DEF Inv, MutationInv, MutationHeld, ClaimLabels, LinkLabels
    <3>5. ASSUME NEW b \in Actors PROVE MutationActor(b)'
      BY <3>1, <3>5 DEF Inv, MutationInv, MutationActor, ClaimLabels, LinkLabels
    <3>6. ASSUME NEW x \in Cpus PROVE MutationCpu(x)'
      BY <3>1, <3>6 DEF Inv, MutationInv, MutationCpu, ClaimLabels, LinkLabels
    <3> QED  BY <3>2, <3>3, <3>4, <3>5, <3>6 DEF MutationInv
  <2>18. StealInv'  BY DEF Inv, StealInv, StealOnce, StealCpu, StealLabels
  <2>19. PlaceInv'
    <3>1. PlaceTask'  BY DEF Inv, PlaceInv, PlaceTask, MoverLabels
    <3>2. ASSUME NEW b \in Actors PROVE PlaceActor(b)'
      BY <3>2 DEF Inv, PlaceInv, PlaceActor, LinkLabels, MoverLabels
    <3>3. ASSUME NEW x \in Cpus PROVE PlaceCpu(x)'
      BY SMTT(30), Z3T(30), <3>3 DEF Inv, PlaceInv, PlaceCpu, MoverLabels
    <3> QED  BY <3>1, <3>2, <3>3 DEF PlaceInv
  <2>20. MaskInv'
    <3>1. MaskTask'  BY DEF Inv, MaskInv, MaskTask, LinkLabels
    <3>2. ASSUME NEW z \in Setters PROVE MaskSetter(z)'
      BY <3>2 DEF Inv, MaskInv, MaskSetter, LinkLabels
    <3>3. ASSUME NEW b \in Actors PROVE MaskActor(b)'
      BY <3>3 DEF Inv, MaskInv, MaskActor, LinkLabels
    <3>4. ASSUME NEW x \in Cpus PROVE MaskCpu(x)'
      BY <3>4 DEF Inv, MaskInv, MaskCpu, LinkLabels
    <3> QED  BY <3>1, <3>2, <3>3, <3>4 DEF MaskInv
  <2>21. PreemptInv'
    BY SMTT(30), Z3T(30) DEF Inv, PreemptInv, Picked, MoveUnderway, MoverLabels
  <2>22. SelfInv'
    <3>1. SelfTask'
      BY DEF Inv, SelfInv, SelfTask, SelfMoves, Continues, SchedLabels, MoverLabels
    <3>2. ASSUME NEW x \in Cpus PROVE SelfCpu(x)'
      BY SMTT(30), Z3T(30), <3>2
         DEF Inv, SelfInv, SelfCpu, SelfMoves, Continues, SchedLabels, MoverLabels
    <3> QED  BY <3>1, <3>2 DEF SelfInv
  <2>23. ActiveInv'
    BY DEF Inv, ActiveInv, InSession, SessionLabels, SchedLabels, ClaimLabels,
       LinkLabels
  <2>24. SessionInv'
    BY SMTT(30), Z3T(30) DEF Inv, SessionInv, Polled, Continues, WakeUnderway, SchedLabels
  <2>25. QED
    BY <2>9, <2>10, <2>11, <2>12, <2>13, <2>14, <2>15, <2>16, <2>17, <2>18, <2>19,
       <2>20, <2>21, <2>22, <2>23, <2>24 DEF Inv
\* put_task_with_state(Running) links the yielding task on its own CPU.
<1>8. CASE PutRunning
  <2> USE <1>8
  <2> USE TaskWakeAssumption DEF Actors
  <2>1. pc[Task] = "put" /\ cur # NoCpu /\ ready = {}
    BY DEF PutRunning, Own, Here, Inv, LinkInv, LinkOnce, LinkTask, LinkHeld,
       LinkActor, LinkCpu, StackInv, RunLabels
  <2>2. /\ pc[Task] = "put" /\ Goto(Task, "pick") /\ cur # NoCpu /\ ready' = {cur}
        /\ UNCHANGED <<bw, mutation, hand, cur, cpu, locked, ret, loc, events,
                       budget, fault>>
    BY <2>1 DEF PutRunning, Own, Here, env
  <2>3. /\ pc'[Task] = "pick" /\ pc' \in [Actors -> Labels]
        /\ \A b \in Actors \ {Task} : pc'[b] = pc[b]
    BY <2>2, Goes DEF Inv, Typed, Labels, WakeLabels, TaskLabels, SetterLabels
  <2>4. /\ cur \in Cpus /\ cpu[cur].pc = "run" /\ cpu[cur].helper = FALSE
        /\ hand.token # 0 /\ hand.cpu = cur
        /\ \A c \in Cpus : cpu[c].pc # "epilogue"
    BY <2>2, LiveStack
  <2>5. /\ task \in TaskWords /\ task' = [task EXCEPT !.state = "Ready", !.cpu = cur]
        /\ cur \in Cpus
    BY <2>4 DEF Inv, Typed, PutRunning
  <2>6. /\ task'.state = "Ready" /\ task'.cpu = cur /\ task'.mask = task.mask
        /\ task'.helper = task.helper /\ task'.resched = task.resched
        /\ task' \in TaskWords
    BY <2>5 DEF TaskWords
  <2>7. /\ ready = {} /\ ~hand.pending /\ task.state = "Running" /\ task.cpu = cur
        /\ \A c \in Cpus : /\ ~CpuLinks(c) /\ cpu[c].pc \notin StealLabels
                           /\ cpu[c].pc \notin MoverLabels
        /\ \A a \in Actors : ~ActorLinks(a)
    BY <2>2, NoLinks
       DEF Inv, StackInv, RunLabels, PlaceInv, PlaceTask, PlaceActor, PlaceCpu
  <2> USE <2>2, <2>3, <2>4, <2>6, <2>7
  <2>8. Typed'  BY DEF Inv, Typed
  <2>9. ~fault'  BY DEF Inv
  <2>10. RoleInv'
    <3>1. RoleTask'
      BY DEF Inv, RoleInv, RoleTask, ClaimLabels, LinkLabels, SetterLabels, TaskLabels,
             SchedLabels, SafePoints
    <3>2. ASSUME NEW y \in Wakers PROVE RoleWaker(y)'
      BY <3>2
         DEF Inv, RoleInv, RoleWaker, ClaimLabels, LinkLabels, SetterLabels,
             TaskLabels, SchedLabels, SafePoints
    <3>3. ASSUME NEW z \in Setters PROVE RoleSetter(z)'
      BY <3>3
         DEF Inv, RoleInv, RoleSetter, ClaimLabels, LinkLabels, SetterLabels,
             TaskLabels, SchedLabels, SafePoints
    <3> QED  BY <3>1, <3>2, <3>3 DEF RoleInv
  <2>11. StackInv'  BY DEF Inv, StackInv, ClaimLabels, LinkLabels, RunLabels
  <2>12. TokenInv'  BY DEF Inv, TokenInv, TokenTask, TokenActor, TokenCpu
  <2>13. LinkInv'
    BY DEF Inv, LinkInv, LinkOnce, LinkTask, LinkHeld, LinkActor, LinkCpu, CpuLinks,
           ActorLinks, LinkLabels
  <2>14. HelperInv'  BY DEF Inv, HelperInv, HelperCpu
  <2>15. SlotInv'  BY DEF Inv, SlotInv, SlotTask, SlotHeld, SlotActor, SlotCpu
  <2>16. MutationInv'
    <3>1. \A b \in Actors : HoldsAffinity(b)' => HoldsAffinity(b)
      BY DEF HoldsAffinity, SelfLabels, SchedLabels, SetterLabels, ClaimLabels,
         LinkLabels
    <3>2. MutationTask'
      BY <3>1 DEF Inv, MutationInv, MutationTask, ClaimLabels, LinkLabels
    <3>3. MutationOnce'
      BY <3>1 DEF Inv, MutationInv, MutationOnce, ClaimLabels, LinkLabels
    <3>4. MutationHeld'
      BY <3>1 DEF Inv, MutationInv, MutationHeld, ClaimLabels, LinkLabels
    <3>5. ASSUME NEW b \in Actors PROVE MutationActor(b)'
      BY <3>1, <3>5 DEF Inv, MutationInv, MutationActor, ClaimLabels, LinkLabels
    <3>6. ASSUME NEW x \in Cpus PROVE MutationCpu(x)'
      BY <3>1, <3>6 DEF Inv, MutationInv, MutationCpu, ClaimLabels, LinkLabels
    <3> QED  BY <3>2, <3>3, <3>4, <3>5, <3>6 DEF MutationInv
  <2>17. StealInv'  BY DEF Inv, StealInv, StealOnce, StealCpu, StealLabels
  <2>18. PlaceInv'
    <3>1. PlaceTask'  BY DEF Inv, PlaceInv, PlaceTask
    <3>2. ASSUME NEW b \in Actors PROVE PlaceActor(b)'
      BY <3>2 DEF Inv, PlaceInv, PlaceActor, LinkLabels
    <3>3. ASSUME NEW x \in Cpus PROVE PlaceCpu(x)'
      BY <3>3 DEF Inv, PlaceInv, PlaceCpu
    <3> QED  BY <3>1, <3>2, <3>3 DEF PlaceInv
  <2>19. MaskInv'
    BY DEF Inv, MaskInv, MaskTask, MaskSetter, MaskActor, MaskCpu, LinkLabels
  <2>20. PreemptInv'  BY DEF Inv, PreemptInv, Picked, MoveUnderway, MoverLabels
  <2>21. SelfInv'
    BY DEF Inv, SelfInv, SelfTask, SelfCpu, SelfMoves, Continues, SchedLabels
  <2>22. ActiveInv'
    BY DEF Inv, ActiveInv, InSession, SessionLabels, SchedLabels, ClaimLabels,
       LinkLabels
  <2>23. SessionInv'  BY DEF Inv, SessionInv, Polled, Continues, WakeUnderway, SchedLabels
  <2>24. QED
    BY <2>8, <2>9, <2>10, <2>11, <2>12, <2>13, <2>14, <2>15, <2>16, <2>17, <2>18,
       <2>19, <2>20, <2>21, <2>22, <2>23 DEF Inv
\* resched picks the yielding task itself and revalidates its mask.
<1>9. CASE ReschedSelf
  <2> USE <1>9
  <2> USE TaskWakeAssumption DEF Actors
  <2>1. /\ pc[Task] = "pick" /\ cur # NoCpu /\ ready = {cur} /\ cur \notin locked
    BY DEF ReschedSelf, PickTask, Own, Here, Inv, StackInv
  <2>2. /\ pc[Task] = "pick" /\ Goto(Task, "running") /\ cur # NoCpu /\ ready' = {}
        /\ UNCHANGED <<bw, mutation, hand, cur, cpu, locked, ret, loc, events,
                       budget, fault>>
    BY <2>1 DEF ReschedSelf, PickTask, Own, Here, env
  <2>3. /\ pc'[Task] = "running" /\ pc' \in [Actors -> Labels]
        /\ \A b \in Actors \ {Task} : pc'[b] = pc[b]
    BY <2>2, Goes DEF Inv, Typed, Labels, WakeLabels, TaskLabels, SetterLabels
  <2>4. /\ cur \in Cpus /\ cpu[cur].pc = "run" /\ cpu[cur].helper = FALSE
        /\ hand.token # 0 /\ hand.cpu = cur
        /\ \A c \in Cpus : cpu[c].pc # "epilogue"
    BY <2>2, LiveStack
  <2>5. /\ task \in TaskWords /\ task' = [task EXCEPT !.resched = (cur \notin task.mask)]
        /\ (cur \notin task.mask) \in BOOLEAN
    BY DEF Inv, Typed, ReschedSelf, PickTask
  <2>6. /\ task'.state = task.state /\ task'.cpu = task.cpu
        /\ task'.mask = task.mask /\ task'.helper = task.helper
        /\ task'.resched = (cur \notin task.mask)
        /\ task' \in TaskWords
    BY <2>5 DEF TaskWords
  <2>7. /\ task.state = "Ready" /\ ready = {cur} /\ ~hand.pending /\ task.cpu = cur
        /\ \A c \in Cpus : /\ ~CpuLinks(c) /\ cpu[c].pc \notin StealLabels
                           /\ cpu[c].pc \notin MoverLabels
        /\ \A a \in Actors : ~ActorLinks(a)
    BY <2>1, <2>4, Queued, NoStealer DEF Inv, PlaceInv, PlaceTask, PlaceActor, PlaceCpu
  <2> USE <2>2, <2>3, <2>4, <2>6, <2>7
  <2>8. Typed'  BY DEF Inv, Typed
  <2>9. ~fault'  BY DEF Inv
  <2>10. RoleInv'
    <3>1. RoleTask'
      BY DEF Inv, RoleInv, RoleTask, ClaimLabels, LinkLabels, SetterLabels, TaskLabels,
             SchedLabels, SafePoints
    <3>2. ASSUME NEW y \in Wakers PROVE RoleWaker(y)'
      BY <3>2
         DEF Inv, RoleInv, RoleWaker, ClaimLabels, LinkLabels, SetterLabels,
             TaskLabels, SchedLabels, SafePoints
    <3>3. ASSUME NEW z \in Setters PROVE RoleSetter(z)'
      BY <3>3
         DEF Inv, RoleInv, RoleSetter, ClaimLabels, LinkLabels, SetterLabels,
             TaskLabels, SchedLabels, SafePoints
    <3> QED  BY <3>1, <3>2, <3>3 DEF RoleInv
  <2>11. StackInv'  BY DEF Inv, StackInv, ClaimLabels, LinkLabels, RunLabels
  <2>12. TokenInv'
    <3>1. TokenTask'  BY DEF Inv, TokenInv, TokenTask
    <3>2. ASSUME NEW b \in Actors PROVE TokenActor(b)'
      BY <3>2 DEF Inv, TokenInv, TokenActor
    <3>3. ASSUME NEW x \in Cpus PROVE TokenCpu(x)'
      BY <3>3 DEF Inv, TokenInv, TokenCpu
    <3> QED  BY <3>1, <3>2, <3>3 DEF TokenInv
  <2>13. LinkInv'
    <3>1. LinkOnce'  BY DEF Inv, LinkInv, LinkOnce, CpuLinks, ActorLinks, LinkLabels
    <3>2. LinkTask'  BY DEF Inv, LinkInv, LinkTask, CpuLinks, ActorLinks, LinkLabels
    <3>3. LinkHeld'  BY DEF Inv, LinkInv, LinkHeld, CpuLinks, ActorLinks, LinkLabels
    <3>4. ASSUME NEW b \in Actors PROVE LinkActor(b)'
      BY <3>4 DEF Inv, LinkInv, LinkActor, CpuLinks, ActorLinks, LinkLabels
    <3>5. ASSUME NEW x \in Cpus PROVE LinkCpu(x)'
      BY <3>5 DEF Inv, LinkInv, LinkCpu, CpuLinks, ActorLinks, LinkLabels
    <3> QED  BY <3>1, <3>2, <3>3, <3>4, <3>5 DEF LinkInv
  <2>14. HelperInv'  BY DEF Inv, HelperInv, HelperCpu
  <2>15. SlotInv'  BY DEF Inv, SlotInv, SlotTask, SlotHeld, SlotActor, SlotCpu
  <2>16. MutationInv'
    <3>1. \A b \in Actors : HoldsAffinity(b)' => HoldsAffinity(b)
      BY DEF HoldsAffinity, SelfLabels, SchedLabels, SetterLabels, ClaimLabels,
         LinkLabels
    <3>2. MutationTask'
      BY <3>1 DEF Inv, MutationInv, MutationTask, ClaimLabels, LinkLabels
    <3>3. MutationOnce'
      BY <3>1 DEF Inv, MutationInv, MutationOnce, ClaimLabels, LinkLabels
    <3>4. MutationHeld'
      BY <3>1 DEF Inv, MutationInv, MutationHeld, ClaimLabels, LinkLabels
    <3>5. ASSUME NEW b \in Actors PROVE MutationActor(b)'
      BY <3>1, <3>5 DEF Inv, MutationInv, MutationActor, ClaimLabels, LinkLabels
    <3>6. ASSUME NEW x \in Cpus PROVE MutationCpu(x)'
      BY <3>1, <3>6 DEF Inv, MutationInv, MutationCpu, ClaimLabels, LinkLabels
    <3> QED  BY <3>2, <3>3, <3>4, <3>5, <3>6 DEF MutationInv
  <2>17. StealInv'  BY DEF Inv, StealInv, StealOnce, StealCpu, StealLabels
  <2>18. PlaceInv'
    <3>1. PlaceTask'  BY DEF Inv, PlaceInv, PlaceTask
    <3>2. ASSUME NEW b \in Actors PROVE PlaceActor(b)'
      BY <3>2 DEF Inv, PlaceInv, PlaceActor, LinkLabels
    <3>3. ASSUME NEW x \in Cpus PROVE PlaceCpu(x)'
      BY <3>3 DEF Inv, PlaceInv, PlaceCpu
    <3> QED  BY <3>1, <3>2, <3>3 DEF PlaceInv
  <2>19. MaskInv'
    BY DEF Inv, MaskInv, MaskTask, MaskSetter, MaskActor, MaskCpu, LinkLabels
  <2>20. PreemptInv'  BY DEF Inv, PreemptInv, Picked, MoveUnderway
  <2>21. SelfInv'
    BY DEF Inv, SelfInv, SelfTask, SelfCpu, SelfMoves, Continues, SchedLabels
  <2>22. ActiveInv'
    BY DEF Inv, ActiveInv, InSession, SessionLabels, SchedLabels, ClaimLabels,
       LinkLabels
  <2>23. SessionInv'  BY DEF Inv, SessionInv, Polled, Continues, WakeUnderway, SchedLabels
  <2>24. QED
    BY <2>8, <2>9, <2>10, <2>11, <2>12, <2>13, <2>14, <2>15, <2>16, <2>17, <2>18,
       <2>19, <2>20, <2>21, <2>22, <2>23 DEF Inv
\* switch_to(prev = next) keeps the owner token and runs on.
<1>10. CASE ResumeSelf
  <2> USE <1>10
  <2> USE TaskWakeAssumption DEF Actors
  <2>1. /\ pc[Task] = "running" /\ Return(Task) /\ cur # NoCpu
        /\ UNCHANGED <<bw, mutation, hand, ready, cur, cpu, locked, ret, loc,
                       events, budget, fault>>
    BY DEF ResumeSelf, Own, Here, sched, env
  <2>2. /\ pc'[Task] = ret[Task] /\ pc' \in [Actors -> Labels]
        /\ \A b \in Actors \ {Task} : pc'[b] = pc[b]
    BY <2>1, GoesBack DEF Inv
  <2>3. /\ task \in TaskWords /\ task' = [task EXCEPT !.state = "Running"]
    BY DEF Inv, Typed, ResumeSelf
  <2>4. /\ task'.state = "Running" /\ task'.cpu = task.cpu
        /\ task'.mask = task.mask /\ task'.helper = task.helper
        /\ task'.resched = task.resched
        /\ task' \in TaskWords
    BY <2>3 DEF TaskWords
  <2>5. ActorLinks(Task)  BY <2>1 DEF ActorLinks
  <2>6. /\ task.state = "Ready" /\ ready = {} /\ ~hand.pending /\ task.cpu = cur
        /\ \A c \in Cpus : /\ ~CpuLinks(c) /\ cpu[c].pc \notin StealLabels
                           /\ cpu[c].pc \notin MoverLabels
        /\ \A b \in Actors \ {Task} : ~ActorLinks(b)
        /\ ret[Task] \in SafePoints
    BY <2>1, <2>5, LinkingActor
       DEF Inv, PlaceInv, PlaceTask, PlaceActor, PlaceCpu, RoleInv, RoleTask,
           RoleWaker, RoleSetter, SchedLabels
  <2> USE <2>1, <2>2, <2>4, <2>6
  <2>7. Typed'  BY DEF Inv, Typed
  <2>8. ~fault'  BY DEF Inv
  <2>9. RoleInv'
    <3>1. RoleTask'
      BY DEF Inv, RoleInv, RoleTask, ClaimLabels, LinkLabels, SetterLabels, TaskLabels,
             SchedLabels, SafePoints, SafePoints
    <3>2. ASSUME NEW y \in Wakers PROVE RoleWaker(y)'
      BY <3>2
         DEF Inv, RoleInv, RoleWaker, ClaimLabels, LinkLabels, SetterLabels,
             TaskLabels, SchedLabels, SafePoints, SafePoints
    <3>3. ASSUME NEW z \in Setters PROVE RoleSetter(z)'
      BY <3>3
         DEF Inv, RoleInv, RoleSetter, ClaimLabels, LinkLabels, SetterLabels,
             TaskLabels, SchedLabels, SafePoints, SafePoints
    <3> QED  BY <3>1, <3>2, <3>3 DEF RoleInv
  <2>10. StackInv'  BY DEF Inv, StackInv, ClaimLabels, LinkLabels, RunLabels, SafePoints
  <2>11. TokenInv'
    <3>1. TokenTask'  BY DEF Inv, TokenInv, TokenTask, SafePoints
    <3>2. ASSUME NEW b \in Actors PROVE TokenActor(b)'
      BY <3>2 DEF Inv, TokenInv, TokenActor, SafePoints
    <3>3. ASSUME NEW x \in Cpus PROVE TokenCpu(x)'
      BY <3>3 DEF Inv, TokenInv, TokenCpu, SafePoints
    <3> QED  BY <3>1, <3>2, <3>3 DEF TokenInv
  <2>12. LinkInv'
    <3>1. LinkOnce'
      BY DEF Inv, LinkInv, LinkOnce, CpuLinks, ActorLinks, LinkLabels, SafePoints
    <3>2. LinkTask'
      BY DEF Inv, LinkInv, LinkTask, CpuLinks, ActorLinks, LinkLabels, SafePoints
    <3>3. LinkHeld'
      BY DEF Inv, LinkInv, LinkHeld, CpuLinks, ActorLinks, LinkLabels, SafePoints
    <3>4. ASSUME NEW b \in Actors PROVE LinkActor(b)'
      BY <3>4 DEF Inv, LinkInv, LinkActor, CpuLinks, ActorLinks, LinkLabels, SafePoints
    <3>5. ASSUME NEW x \in Cpus PROVE LinkCpu(x)'
      BY <3>5 DEF Inv, LinkInv, LinkCpu, CpuLinks, ActorLinks, LinkLabels, SafePoints
    <3> QED  BY <3>1, <3>2, <3>3, <3>4, <3>5 DEF LinkInv
  <2>13. HelperInv'  BY DEF Inv, HelperInv, HelperCpu
  <2>14. SlotInv'  BY DEF Inv, SlotInv, SlotTask, SlotHeld, SlotActor, SlotCpu, SafePoints
  <2>15. MutationInv'
    <3>1. \A b \in Actors : HoldsAffinity(b)' => HoldsAffinity(b)
      BY DEF HoldsAffinity, SelfLabels, SchedLabels, SetterLabels, ClaimLabels,
         LinkLabels
    <3>2. MutationTask'
      BY <3>1 DEF Inv, MutationInv, MutationTask, ClaimLabels, LinkLabels, SafePoints
    <3>3. MutationOnce'
      BY <3>1 DEF Inv, MutationInv, MutationOnce, ClaimLabels, LinkLabels, SafePoints
    <3>4. MutationHeld'
      BY <3>1 DEF Inv, MutationInv, MutationHeld, ClaimLabels, LinkLabels, SafePoints
    <3>5. ASSUME NEW b \in Actors PROVE MutationActor(b)'
      BY <3>1, <3>5
         DEF Inv, MutationInv, MutationActor, ClaimLabels, LinkLabels, SafePoints
    <3>6. ASSUME NEW x \in Cpus PROVE MutationCpu(x)'
      BY <3>1, <3>6 DEF Inv, MutationInv, MutationCpu, ClaimLabels, LinkLabels, SafePoints
    <3> QED  BY <3>2, <3>3, <3>4, <3>5, <3>6 DEF MutationInv
  <2>16. StealInv'  BY DEF Inv, StealInv, StealOnce, StealCpu, StealLabels
  <2>17. PlaceInv'
    <3>1. PlaceTask'  BY DEF Inv, PlaceInv, PlaceTask, SafePoints
    <3>2. ASSUME NEW b \in Actors PROVE PlaceActor(b)'
      BY <3>2 DEF Inv, PlaceInv, PlaceActor, LinkLabels, SafePoints
    <3>3. ASSUME NEW x \in Cpus PROVE PlaceCpu(x)'
      BY <3>3 DEF Inv, PlaceInv, PlaceCpu, SafePoints
    <3> QED  BY <3>1, <3>2, <3>3 DEF PlaceInv
  <2>18. MaskInv'
    <3>1. MaskTask'  BY DEF Inv, MaskInv, MaskTask, LinkLabels, SafePoints
    <3>2. ASSUME NEW z \in Setters PROVE MaskSetter(z)'
      BY <3>2 DEF Inv, MaskInv, MaskSetter, LinkLabels, SafePoints
    <3>3. ASSUME NEW b \in Actors PROVE MaskActor(b)'
      BY <3>3 DEF Inv, MaskInv, MaskActor, LinkLabels, SafePoints
    <3>4. ASSUME NEW x \in Cpus PROVE MaskCpu(x)'
      BY <3>4 DEF Inv, MaskInv, MaskCpu, LinkLabels, SafePoints
    <3> QED  BY <3>1, <3>2, <3>3, <3>4 DEF MaskInv
  <2>19. PreemptInv'  BY DEF Inv, PreemptInv, Picked, MoveUnderway, SafePoints
  <2>20. SelfInv'
    BY DEF Inv, SelfInv, SelfTask, SelfCpu, SelfMoves, Continues, SchedLabels, SafePoints
  <2>21. ActiveInv'
    BY DEF Inv, ActiveInv, InSession, SessionLabels, SchedLabels, ClaimLabels,
       LinkLabels, SafePoints
  <2>22. SessionInv'
    BY DEF Inv, SessionInv, Polled, Continues, WakeUnderway, SchedLabels, SafePoints
  <2>23. QED
    BY <2>7, <2>8, <2>9, <2>10, <2>11, <2>12, <2>13, <2>14, <2>15, <2>16, <2>17, <2>18,
       <2>19, <2>20, <2>21, <2>22 DEF Inv
\* Another task wins the CPU and this one stays queued there.
<1>11. CASE ReschedOther
  <2> USE <1>11
  <2> USE TaskWakeAssumption DEF Actors
  <2>1. /\ pc[Task] = "pick" /\ cur # NoCpu /\ ready = {cur} /\ cur \notin locked
    BY DEF ReschedOther, Own, Here, Inv, StackInv
  <2>2. /\ pc[Task] = "pick" /\ Goto(Task, "resumed") /\ cur # NoCpu
        /\ SwitchOut(cur, FALSE)
        /\ UNCHANGED <<bw, mutation, task, hand, ready, locked, ret, loc,
                       events, fault>>
    BY <2>1 DEF ReschedOther, Own, Here, words
  <2>3. /\ pc'[Task] = "resumed" /\ pc' \in [Actors -> Labels]
        /\ \A b \in Actors \ {Task} : pc'[b] = pc[b]
    BY <2>2, Goes DEF Inv, Typed, Labels, WakeLabels, TaskLabels, SetterLabels
  <2>4. /\ cur \in Cpus /\ cpu[cur].pc = "run" /\ cpu[cur].helper = FALSE
        /\ hand.token # 0 /\ hand.cpu = cur
        /\ \A c \in Cpus : cpu[c].pc # "epilogue"
    BY <2>2, LiveStack
  <2>5. /\ cur' = NoCpu /\ cpu' \in [Cpus -> CpuRecords]
        /\ cpu'[cur].pc = "epilogue" /\ cpu'[cur].prev = hand.token
        /\ cpu'[cur].helper = FALSE
        /\ \A c \in Cpus \ {cur} : cpu'[c] = cpu[c]
    BY <2>2, <2>4, Switched DEF Inv
  <2>6. /\ budget'.refused = budget.refused
        /\ budget' \in [sessions : Nat, contention : Nat, self : Nat, refused : Nat,
                      calls : [Wakers \cup Setters -> Nat]]
    BY SMTT(30), Z3T(30) DEF ReschedOther, Inv, Typed
  <2>7. /\ task.state = "Ready" /\ ready = {cur} /\ ~hand.pending /\ task.cpu = cur
        /\ \A c \in Cpus : /\ ~CpuLinks(c) /\ cpu[c].pc \notin StealLabels
                           /\ cpu[c].pc \notin MoverLabels
        /\ \A a \in Actors : ~ActorLinks(a)
    BY <2>1, <2>4, Queued, NoStealer DEF Inv, PlaceInv, PlaceTask, PlaceActor, PlaceCpu
  <2> USE <2>2, <2>3, <2>4, <2>5, <2>6, <2>7
  <2>8. Typed'  BY DEF Inv, Typed
  <2>9. ~fault'  BY DEF Inv
  <2>10. RoleInv'
    <3>1. RoleTask'
      BY DEF Inv, RoleInv, RoleTask, ClaimLabels, LinkLabels, SetterLabels, TaskLabels,
             SchedLabels, SafePoints
    <3>2. ASSUME NEW y \in Wakers PROVE RoleWaker(y)'
      BY <3>2
         DEF Inv, RoleInv, RoleWaker, ClaimLabels, LinkLabels, SetterLabels,
             TaskLabels, SchedLabels, SafePoints
    <3>3. ASSUME NEW z \in Setters PROVE RoleSetter(z)'
      BY <3>3
         DEF Inv, RoleInv, RoleSetter, ClaimLabels, LinkLabels, SetterLabels,
             TaskLabels, SchedLabels, SafePoints
    <3> QED  BY <3>1, <3>2, <3>3 DEF RoleInv
  <2>11. StackInv'  BY DEF Inv, StackInv, ClaimLabels, LinkLabels, RunLabels
  <2>12. TokenInv'
    <3>1. TokenTask'  BY DEF Inv, TokenInv, TokenTask
    <3>2. ASSUME NEW b \in Actors PROVE TokenActor(b)'
      BY <3>2 DEF Inv, TokenInv, TokenActor
    <3>3. ASSUME NEW x \in Cpus PROVE TokenCpu(x)'
      BY <3>3 DEF Inv, TokenInv, TokenCpu
    <3> QED  BY <3>1, <3>2, <3>3 DEF TokenInv
  <2>13. LinkInv'
    <3>1. \A x \in Cpus : CpuLinks(x)' <=> CpuLinks(x)  BY DEF CpuLinks
    <3>2. \A b \in Actors : ActorLinks(b)' <=> ActorLinks(b)
      BY DEF ActorLinks, LinkLabels
    <3> QED  BY <3>1, <3>2, LinkFrame DEF Inv
  <2>14. HelperInv'  BY DEF Inv, HelperInv, HelperCpu
  <2>15. SlotInv'
    <3>1. SlotTask'  BY DEF Inv, SlotInv, SlotTask
    <3>2. SlotHeld'  BY SMTT(30), Z3T(30) DEF Inv, SlotInv, SlotHeld
    <3>3. ASSUME NEW b \in Actors PROVE SlotActor(b)'
      BY <3>3 DEF Inv, SlotInv, SlotActor
    <3>4. ASSUME NEW x \in Cpus PROVE SlotCpu(x)'
      BY <3>4 DEF Inv, SlotInv, SlotCpu
    <3> QED  BY <3>1, <3>2, <3>3, <3>4 DEF SlotInv
  <2>16. MutationInv'
    <3>1. \A b \in Actors : HoldsAffinity(b)' => HoldsAffinity(b)
      BY DEF HoldsAffinity, SelfLabels, SchedLabels, SetterLabels, ClaimLabels,
         LinkLabels
    <3>2. MutationTask'
      BY <3>1 DEF Inv, MutationInv, MutationTask, ClaimLabels, LinkLabels
    <3>3. MutationOnce'
      BY <3>1 DEF Inv, MutationInv, MutationOnce, ClaimLabels, LinkLabels
    <3>4. MutationHeld'
      BY <3>1 DEF Inv, MutationInv, MutationHeld, ClaimLabels, LinkLabels
    <3>5. ASSUME NEW b \in Actors PROVE MutationActor(b)'
      BY <3>1, <3>5 DEF Inv, MutationInv, MutationActor, ClaimLabels, LinkLabels
    <3>6. ASSUME NEW x \in Cpus PROVE MutationCpu(x)'
      BY <3>1, <3>6 DEF Inv, MutationInv, MutationCpu, ClaimLabels, LinkLabels
    <3> QED  BY <3>2, <3>3, <3>4, <3>5, <3>6 DEF MutationInv
  <2>17. StealInv'  BY DEF Inv, StealInv, StealOnce, StealCpu, StealLabels
  <2>18. PlaceInv'
    <3>1. PlaceTask'  BY DEF Inv, PlaceInv, PlaceTask
    <3>2. ASSUME NEW b \in Actors PROVE PlaceActor(b)'
      BY <3>2 DEF Inv, PlaceInv, PlaceActor, LinkLabels
    <3>3. ASSUME NEW x \in Cpus PROVE PlaceCpu(x)'
      BY <3>3 DEF Inv, PlaceInv, PlaceCpu
    <3> QED  BY <3>1, <3>2, <3>3 DEF PlaceInv
  <2>19. MaskInv'
    BY DEF Inv, MaskInv, MaskTask, MaskSetter, MaskActor, MaskCpu, LinkLabels
  <2>20. PreemptInv'  BY SMTT(30), Z3T(30) DEF Inv, PreemptInv, Picked, MoveUnderway
  <2>21. SelfInv'
    <3>1. SelfTask'  BY DEF Inv, SelfInv, SelfTask, SelfMoves, Continues, SchedLabels
    <3>2. ASSUME NEW x \in Cpus PROVE SelfCpu(x)'
      BY <3>2 DEF Inv, SelfInv, SelfCpu, SelfMoves, Continues, SchedLabels
    <3> QED  BY <3>1, <3>2 DEF SelfInv
  <2>22. ActiveInv'
    BY DEF Inv, ActiveInv, InSession, SessionLabels, SchedLabels, ClaimLabels,
       LinkLabels
  <2>23. SessionInv'
    BY SMTT(30), Z3T(30) DEF Inv, SessionInv, Polled, Continues, WakeUnderway, SchedLabels
  <2>24. QED
    BY <2>8, <2>9, <2>10, <2>11, <2>12, <2>13, <2>14, <2>15, <2>16, <2>17, <2>18,
       <2>19, <2>20, <2>21, <2>22, <2>23 DEF Inv
\* The restored stack retires a helper its CPU no longer calls for.
<1>12. CASE Resumed
  <2> USE <1>12
  <2> USE TaskWakeAssumption DEF Actors
  <2>1. /\ pc[Task] = "resumed" /\ Return(Task) /\ cur # NoCpu
        /\ UNCHANGED <<bw, mutation, hand, ready, cur, cpu, locked, ret, loc,
                       events, budget, fault>>
    BY DEF Resumed, Own, Here, sched, env
  <2>2. /\ pc'[Task] = ret[Task] /\ pc' \in [Actors -> Labels]
        /\ \A b \in Actors \ {Task} : pc'[b] = pc[b]
    BY <2>1, GoesBack DEF Inv
  <2>3. (IF cur \in task.mask THEN NoCpu ELSE task.helper) \in Setters \cup {Task, NoCpu}
    BY DEF Inv, Typed, TaskWords
  <2>4. /\ task \in TaskWords /\ task' = [task EXCEPT !.helper = (IF cur \in task.mask THEN NoCpu ELSE task.helper)]
        /\ (IF cur \in task.mask THEN NoCpu ELSE task.helper) \in Setters \cup {Task, NoCpu}
    BY <2>3 DEF Inv, Typed, Resumed
  <2>5. /\ task'.state = task.state /\ task'.cpu = task.cpu
        /\ task'.mask = task.mask
        /\ task'.helper = (IF cur \in task.mask THEN NoCpu ELSE task.helper)
        /\ task'.resched = task.resched
        /\ task' \in TaskWords
    BY <2>4 DEF TaskWords
  <2>6. /\ ready = {} /\ ~hand.pending /\ task.state = "Running" /\ task.cpu = cur
        /\ \A c \in Cpus : /\ ~CpuLinks(c) /\ cpu[c].pc \notin StealLabels
                           /\ cpu[c].pc \notin MoverLabels
        /\ \A a \in Actors : ~ActorLinks(a)
        /\ ret[Task] \in SafePoints
    BY <2>1, NoLinks
       DEF Inv, StackInv, PlaceInv, PlaceTask, PlaceActor, PlaceCpu, RoleInv, RoleTask,
           RoleWaker, RoleSetter, SchedLabels
  <2> USE <2>1, <2>2, <2>5, <2>6
  <2>7. Typed'  BY DEF Inv, Typed
  <2>8. ~fault'  BY DEF Inv
  <2>9. RoleInv'
    <3>1. RoleTask'
      BY DEF Inv, RoleInv, RoleTask, ClaimLabels, LinkLabels, SetterLabels, TaskLabels,
             SchedLabels, SafePoints, SafePoints
    <3>2. ASSUME NEW y \in Wakers PROVE RoleWaker(y)'
      BY <3>2
         DEF Inv, RoleInv, RoleWaker, ClaimLabels, LinkLabels, SetterLabels,
             TaskLabels, SchedLabels, SafePoints, SafePoints
    <3>3. ASSUME NEW z \in Setters PROVE RoleSetter(z)'
      BY <3>3
         DEF Inv, RoleInv, RoleSetter, ClaimLabels, LinkLabels, SetterLabels,
             TaskLabels, SchedLabels, SafePoints, SafePoints
    <3> QED  BY <3>1, <3>2, <3>3 DEF RoleInv
  <2>10. StackInv'  BY DEF Inv, StackInv, ClaimLabels, LinkLabels, RunLabels, SafePoints
  <2>11. TokenInv'
    <3>1. TokenTask'  BY DEF Inv, TokenInv, TokenTask, SafePoints
    <3>2. ASSUME NEW b \in Actors PROVE TokenActor(b)'
      BY <3>2 DEF Inv, TokenInv, TokenActor, SafePoints
    <3>3. ASSUME NEW x \in Cpus PROVE TokenCpu(x)'
      BY <3>3 DEF Inv, TokenInv, TokenCpu, SafePoints
    <3> QED  BY <3>1, <3>2, <3>3 DEF TokenInv
  <2>12. LinkInv'
    <3>1. \A x \in Cpus : CpuLinks(x)' <=> CpuLinks(x)  BY DEF CpuLinks, SafePoints
    <3>2. \A b \in Actors : ActorLinks(b)' <=> ActorLinks(b)
      BY DEF ActorLinks, LinkLabels, SafePoints
    <3> QED  BY <3>1, <3>2, LinkFrame DEF Inv
  <2>13. HelperInv'  BY DEF Inv, HelperInv, HelperCpu
  <2>14. SlotInv'  BY DEF Inv, SlotInv, SlotTask, SlotHeld, SlotActor, SlotCpu, SafePoints
  <2>15. MutationInv'
    <3>1. \A b \in Actors : HoldsAffinity(b)' => HoldsAffinity(b)
      BY DEF HoldsAffinity, SelfLabels, SchedLabels, SetterLabels, ClaimLabels,
         LinkLabels
    <3>2. MutationTask'
      BY <3>1 DEF Inv, MutationInv, MutationTask, ClaimLabels, LinkLabels, SafePoints
    <3>3. MutationOnce'
      BY <3>1 DEF Inv, MutationInv, MutationOnce, ClaimLabels, LinkLabels, SafePoints
    <3>4. MutationHeld'
      BY <3>1 DEF Inv, MutationInv, MutationHeld, ClaimLabels, LinkLabels, SafePoints
    <3>5. ASSUME NEW b \in Actors PROVE MutationActor(b)'
      BY <3>1, <3>5
         DEF Inv, MutationInv, MutationActor, ClaimLabels, LinkLabels, SafePoints
    <3>6. ASSUME NEW x \in Cpus PROVE MutationCpu(x)'
      BY <3>1, <3>6 DEF Inv, MutationInv, MutationCpu, ClaimLabels, LinkLabels, SafePoints
    <3> QED  BY <3>2, <3>3, <3>4, <3>5, <3>6 DEF MutationInv
  <2>16. StealInv'  BY DEF Inv, StealInv, StealOnce, StealCpu, StealLabels
  <2>17. PlaceInv'
    <3>1. PlaceTask'  BY DEF Inv, PlaceInv, PlaceTask, SafePoints
    <3>2. ASSUME NEW b \in Actors PROVE PlaceActor(b)'
      BY <3>2 DEF Inv, PlaceInv, PlaceActor, LinkLabels, SafePoints
    <3>3. ASSUME NEW x \in Cpus PROVE PlaceCpu(x)'
      BY <3>3 DEF Inv, PlaceInv, PlaceCpu, SafePoints
    <3> QED  BY <3>1, <3>2, <3>3 DEF PlaceInv
  <2>18. MaskInv'
    BY DEF Inv, MaskInv, MaskTask, MaskSetter, MaskActor, MaskCpu, LinkLabels, SafePoints
  <2>19. PreemptInv'  BY DEF Inv, PreemptInv, Picked, MoveUnderway, SafePoints
  <2>20. SelfInv'
    BY DEF Inv, SelfInv, SelfTask, SelfCpu, SelfMoves, Continues, SchedLabels, SafePoints
  <2>21. ActiveInv'
    BY DEF Inv, ActiveInv, InSession, SessionLabels, SchedLabels, ClaimLabels,
       LinkLabels, SafePoints
  <2>22. SessionInv'
    BY DEF Inv, SessionInv, Polled, Continues, WakeUnderway, SchedLabels, SafePoints
  <2>23. QED
    BY <2>7, <2>8, <2>9, <2>10, <2>11, <2>12, <2>13, <2>14, <2>15, <2>16, <2>17, <2>18,
       <2>19, <2>20, <2>21, <2>22 DEF Inv
<1>13. QED  BY <1>1, <1>2, <1>3, <1>4, <1>5, <1>6, <1>7, <1>8, <1>9, <1>10, <1>11, <1>12

\* The steps of set_current_affinity and the exit keep the invariant.
LEMMA SelfKeeps ==
    ASSUME Inv,
           SelfClaim \/ SelfPublish \/ SelfMigrate \/ ExitCurrent
    PROVE  Inv'
\* set_current_affinity claims an idle mutation word.
<1>1. CASE SelfClaim
  <2> USE <1>1
  <2> USE TaskWakeAssumption DEF Actors
  <2>1. /\ pc[Task] = "selfclaim" /\ Goto(Task, "selfpublish")
        /\ mutation' = Mut("affinity", FALSE) /\ mutation = Idle
        /\ UNCHANGED <<bw, task, hand, ready, cur, cpu, locked, ret, loc,
                       events, budget, fault>>
    BY DEF SelfClaim, Own, Here, sched, env
  <2>2. /\ pc'[Task] = "selfpublish" /\ pc' \in [Actors -> Labels]
        /\ \A b \in Actors \ {Task} : pc'[b] = pc[b]
    BY <2>1, Goes DEF Inv, Typed, Labels, WakeLabels, TaskLabels, SetterLabels
  <2>3. /\ mutation'.owner = "affinity" /\ mutation' # WakeOwned
        /\ mutation' \in MutationWords /\ mutation.owner = "none" /\ mutation # WakeOwned
    BY <2>1, MutIs
  <2>4. /\ ~hand.pending /\ \A a \in Actors : pc[a] \notin ClaimLabels
        /\ \A a \in Actors : ~HoldsAffinity(a)
        /\ \A c \in Cpus : cpu[c].pc \notin {"take", "delegated", "stealmove", "stealdone"}
    BY <2>1, NoClaims
  <2> USE <2>1, <2>2, <2>3, <2>4
  <2>5. Typed'  BY DEF Inv, Typed
  <2>6. ~fault'  BY DEF Inv
  <2>7. RoleInv'
    <3>1. RoleTask'
      BY DEF Inv, RoleInv, RoleTask, ClaimLabels, LinkLabels, SetterLabels, TaskLabels,
             SchedLabels, SafePoints
    <3>2. ASSUME NEW y \in Wakers PROVE RoleWaker(y)'
      BY <3>2
         DEF Inv, RoleInv, RoleWaker, ClaimLabels, LinkLabels, SetterLabels,
             TaskLabels, SchedLabels, SafePoints
    <3>3. ASSUME NEW z \in Setters PROVE RoleSetter(z)'
      BY <3>3
         DEF Inv, RoleInv, RoleSetter, ClaimLabels, LinkLabels, SetterLabels,
             TaskLabels, SchedLabels, SafePoints
    <3> QED  BY <3>1, <3>2, <3>3 DEF RoleInv
  <2>8. StackInv'  BY DEF Inv, StackInv, ClaimLabels, LinkLabels, RunLabels
  <2>9. TokenInv'  BY DEF Inv, TokenInv, TokenTask, TokenActor, TokenCpu
  <2>10. LinkInv'
    <3>1. \A x \in Cpus : CpuLinks(x)' <=> CpuLinks(x)  BY DEF CpuLinks
    <3>2. \A b \in Actors : ActorLinks(b)' <=> ActorLinks(b)
      BY DEF ActorLinks, LinkLabels
    <3> QED  BY <3>1, <3>2, LinkFrame DEF Inv
  <2>11. HelperInv'  BY DEF Inv, HelperInv, HelperCpu
  <2>12. SlotInv'  BY DEF Inv, SlotInv, SlotTask, SlotHeld, SlotActor, SlotCpu
  <2>13. MutationInv'
    <3>1. \A b \in Actors : HoldsAffinity(b)' => b = Task
      BY DEF HoldsAffinity, SelfLabels, SchedLabels, SetterLabels, ClaimLabels,
         LinkLabels
    <3>2. QED  BY <3>1
                  DEF Inv, MutationInv, MutationTask, MutationOnce, MutationHeld,
                      MutationActor, MutationCpu, ClaimLabels, LinkLabels
  <2>14. StealInv'  BY DEF Inv, StealInv, StealOnce, StealCpu, StealLabels
  <2>15. PlaceInv'
    <3>1. PlaceTask'  BY DEF Inv, PlaceInv, PlaceTask
    <3>2. ASSUME NEW b \in Actors PROVE PlaceActor(b)'
      BY <3>2 DEF Inv, PlaceInv, PlaceActor, LinkLabels
    <3>3. ASSUME NEW x \in Cpus PROVE PlaceCpu(x)'
      BY <3>3 DEF Inv, PlaceInv, PlaceCpu
    <3> QED  BY <3>1, <3>2, <3>3 DEF PlaceInv
  <2>16. MaskInv'
    BY DEF Inv, MaskInv, MaskTask, MaskSetter, MaskActor, MaskCpu, LinkLabels
  <2>17. PreemptInv'  BY DEF Inv, PreemptInv, Picked, MoveUnderway
  <2>18. SelfInv'
    BY DEF Inv, SelfInv, SelfTask, SelfCpu, SelfMoves, Continues, SchedLabels
  <2>19. ActiveInv'
    BY DEF Inv, ActiveInv, InSession, SessionLabels, SchedLabels, ClaimLabels,
       LinkLabels
  <2>20. SessionInv'  BY DEF Inv, SessionInv, Polled, Continues, WakeUnderway, SchedLabels
  <2>21. QED
    BY <2>5, <2>6, <2>7, <2>8, <2>9, <2>10, <2>11, <2>12, <2>13, <2>14, <2>15, <2>16,
       <2>17, <2>18, <2>19, <2>20 DEF Inv
\* ... publishes the mask with a helper for the move it may need.
<1>2. CASE SelfPublish
  <2> USE <1>2
  <2> USE TaskWakeAssumption DEF Actors
  <2>1. /\ pc[Task] = "selfpublish" /\ Goto(Task, "selfmigrate") /\ cur # NoCpu
        /\ UNCHANGED <<bw, mutation, hand, ready, cur, cpu, locked, ret, loc,
                       events, budget, fault>>
    BY DEF SelfPublish, Own, Here, sched, env
  <2>2. /\ pc'[Task] = "selfmigrate" /\ pc' \in [Actors -> Labels]
        /\ \A b \in Actors \ {Task} : pc'[b] = pc[b]
    BY <2>1, Goes DEF Inv, Typed, Labels, WakeLabels, TaskLabels, SetterLabels
  <2>3. (IF loc[Task].mask = Cpus THEN NoCpu ELSE Task) \in Setters \cup {Task, NoCpu} /\ loc[Task].mask \in SUBSET Cpus
    BY DEF Inv, Typed, Locals
  <2>4. /\ task \in TaskWords /\ task' = [task EXCEPT !.mask = loc[Task].mask, !.helper = (IF loc[Task].mask = Cpus THEN NoCpu ELSE Task)]
        /\ (IF loc[Task].mask = Cpus THEN NoCpu ELSE Task) \in Setters \cup {Task, NoCpu}
        /\ loc[Task].mask \in SUBSET Cpus
    BY <2>3 DEF Inv, Typed, SelfPublish
  <2>5. /\ task'.state = task.state /\ task'.cpu = task.cpu
        /\ task'.mask = loc[Task].mask
        /\ task'.helper = (IF loc[Task].mask = Cpus THEN NoCpu ELSE Task)
        /\ task'.resched = task.resched
        /\ task' \in TaskWords
    BY <2>4 DEF TaskWords
  <2>6. /\ ready = {} /\ ~hand.pending /\ task.state = "Running" /\ task.cpu = cur
        /\ \A c \in Cpus : /\ ~CpuLinks(c) /\ cpu[c].pc \notin StealLabels
                           /\ cpu[c].pc \notin MoverLabels
        /\ \A a \in Actors : ~ActorLinks(a)
    BY <2>1, NoLinks
       DEF Inv, StackInv, RunLabels, PlaceInv, PlaceTask, PlaceActor, PlaceCpu
  <2>7. /\ mutation.owner = "affinity" /\ mutation # WakeOwned
        /\ \A a \in Actors : HoldsAffinity(a) => a = Task
    BY <2>1, MutIs
       DEF Inv, MutationInv, MutationTask, MutationOnce, MutationHeld, MutationActor,
           MutationCpu, HoldsAffinity, SelfLabels
  <2>8. /\ \A a \in Actors : pc[a] \notin ClaimLabels
        /\ \A c \in Cpus : cpu[c].pc \notin {"take", "delegated"}
    BY <2>7, NoWakeClaim
  <2>9. cur \in Cpus  BY <2>1, LiveStack
  <2> USE <2>1, <2>2, <2>5, <2>6, <2>7, <2>8, <2>9
  <2>10. Typed'  BY DEF Inv, Typed
  <2>11. ~fault'  BY DEF Inv
  <2>12. RoleInv'
    <3>1. RoleTask'
      BY DEF Inv, RoleInv, RoleTask, ClaimLabels, LinkLabels, SetterLabels, TaskLabels,
             SchedLabels, SafePoints
    <3>2. ASSUME NEW y \in Wakers PROVE RoleWaker(y)'
      BY <3>2
         DEF Inv, RoleInv, RoleWaker, ClaimLabels, LinkLabels, SetterLabels,
             TaskLabels, SchedLabels, SafePoints
    <3>3. ASSUME NEW z \in Setters PROVE RoleSetter(z)'
      BY <3>3
         DEF Inv, RoleInv, RoleSetter, ClaimLabels, LinkLabels, SetterLabels,
             TaskLabels, SchedLabels, SafePoints
    <3> QED  BY <3>1, <3>2, <3>3 DEF RoleInv
  <2>13. StackInv'  BY DEF Inv, StackInv, ClaimLabels, LinkLabels, RunLabels
  <2>14. TokenInv'  BY DEF Inv, TokenInv, TokenTask, TokenActor, TokenCpu
  <2>15. LinkInv'
    BY DEF Inv, LinkInv, LinkOnce, LinkTask, LinkHeld, LinkActor, LinkCpu, CpuLinks,
           ActorLinks, LinkLabels
  <2>16. HelperInv'  BY DEF Inv, HelperInv, HelperCpu
  <2>17. SlotInv'  BY DEF Inv, SlotInv, SlotTask, SlotHeld, SlotActor, SlotCpu
  <2>18. MutationInv'
    <3>1. \A b \in Actors : HoldsAffinity(b)' => HoldsAffinity(b)
      BY DEF HoldsAffinity, SelfLabels, SchedLabels, SetterLabels, ClaimLabels,
         LinkLabels
    <3>2. QED  BY <3>1
                  DEF Inv, MutationInv, MutationTask, MutationOnce, MutationHeld,
                      MutationActor, MutationCpu, ClaimLabels, LinkLabels
  <2>19. StealInv'  BY DEF Inv, StealInv, StealOnce, StealCpu, StealLabels
  <2>20. PlaceInv'
    <3>1. PlaceTask'  BY DEF Inv, PlaceInv, PlaceTask
    <3>2. ASSUME NEW b \in Actors PROVE PlaceActor(b)'
      BY <3>2 DEF Inv, PlaceInv, PlaceActor, LinkLabels
    <3>3. ASSUME NEW x \in Cpus PROVE PlaceCpu(x)'
      BY <3>3 DEF Inv, PlaceInv, PlaceCpu
    <3> QED  BY <3>1, <3>2, <3>3 DEF PlaceInv
  <2>21. MaskInv'
    BY DEF Inv, MaskInv, MaskTask, MaskSetter, MaskActor, MaskCpu, LinkLabels,
       HoldsAffinity, SetterLabels, ClaimLabels
  <2>22. PreemptInv'  BY DEF Inv, PreemptInv, Picked, MoveUnderway
  <2>23. SelfInv'
    <3>1. SelfTask'
      BY SMTT(30), Z3T(30)
         DEF Inv, SelfInv, SelfTask, SelfMoves, Continues, SchedLabels, MoverLabels
    <3>2. ASSUME NEW x \in Cpus PROVE SelfCpu(x)'
      BY <3>2 DEF Inv, SelfInv, SelfCpu, SelfMoves, Continues, SchedLabels, MoverLabels
    <3> QED  BY <3>1, <3>2 DEF SelfInv
  <2>24. ActiveInv'
    BY DEF Inv, ActiveInv, InSession, SessionLabels, SchedLabels, ClaimLabels,
       LinkLabels
  <2>25. SessionInv'  BY DEF Inv, SessionInv, Polled, Continues, WakeUnderway, SchedLabels
  <2>26. QED
    BY <2>10, <2>11, <2>12, <2>13, <2>14, <2>15, <2>16, <2>17, <2>18, <2>19, <2>20,
       <2>21, <2>22, <2>23, <2>24, <2>25 DEF Inv
\* ... and on an allowed CPU is done with its helper.
<1>3. ASSUME SelfMigrate, cur \in task.mask PROVE Inv'
  <2> USE <1>3
  <2> USE TaskWakeAssumption DEF Actors
  <2>1. pc[Task] = "selfmigrate" /\ cur # NoCpu  BY DEF SelfMigrate, Own, Here
  <2>2. /\ pc[Task] = "selfmigrate" /\ Goto(Task, "selffinish") /\ cur # NoCpu
        /\ ret' = [ret EXCEPT ![Task] = "selffinish"]
        /\ UNCHANGED <<bw, mutation, hand, ready, cur, cpu, locked, loc, events,
                       budget, fault>>
    BY <2>1 DEF SelfMigrate, sched, env
  <2>3. /\ pc'[Task] = "selffinish" /\ pc' \in [Actors -> Labels]
        /\ \A b \in Actors \ {Task} : pc'[b] = pc[b]
    BY <2>2, Goes DEF Inv, Typed, Labels, WakeLabels, TaskLabels, SetterLabels
  <2>4. /\ ret'[Task] = "selffinish" /\ ret' \in [Actors -> Returns]
        /\ \A b \in Actors \ {Task} : ret'[b] = ret[b]
    BY <2>2 DEF Inv, Typed, Returns, TaskLabels
  <2>5. /\ task \in TaskWords /\ task' = [task EXCEPT !.helper = NoCpu]
    BY <2>1 DEF Inv, Typed, SelfMigrate
  <2>6. /\ task'.state = task.state /\ task'.cpu = task.cpu
        /\ task'.mask = task.mask /\ task'.helper = NoCpu
        /\ task'.resched = task.resched
        /\ task' \in TaskWords
    BY <2>5 DEF TaskWords
  <2>7. /\ ready = {} /\ ~hand.pending /\ task.state = "Running" /\ task.cpu = cur
        /\ \A c \in Cpus : /\ ~CpuLinks(c) /\ cpu[c].pc \notin StealLabels
                           /\ cpu[c].pc \notin MoverLabels
        /\ \A a \in Actors : ~ActorLinks(a)
    BY <2>2, NoLinks
       DEF Inv, StackInv, RunLabels, PlaceInv, PlaceTask, PlaceActor, PlaceCpu
  <2> USE <2>2, <2>3, <2>4, <2>6, <2>7
  <2>8. Typed'  BY DEF Inv, Typed
  <2>9. ~fault'  BY DEF Inv
  <2>10. RoleInv'
    <3>1. RoleTask'
      BY DEF Inv, RoleInv, RoleTask, ClaimLabels, LinkLabels, SetterLabels, TaskLabels,
             SchedLabels, SafePoints
    <3>2. ASSUME NEW y \in Wakers PROVE RoleWaker(y)'
      BY <3>2
         DEF Inv, RoleInv, RoleWaker, ClaimLabels, LinkLabels, SetterLabels,
             TaskLabels, SchedLabels, SafePoints
    <3>3. ASSUME NEW z \in Setters PROVE RoleSetter(z)'
      BY <3>3
         DEF Inv, RoleInv, RoleSetter, ClaimLabels, LinkLabels, SetterLabels,
             TaskLabels, SchedLabels, SafePoints
    <3> QED  BY <3>1, <3>2, <3>3 DEF RoleInv
  <2>11. StackInv'  BY DEF Inv, StackInv, ClaimLabels, LinkLabels, RunLabels
  <2>12. TokenInv'  BY DEF Inv, TokenInv, TokenTask, TokenActor, TokenCpu
  <2>13. LinkInv'
    <3>1. \A x \in Cpus : CpuLinks(x)' <=> CpuLinks(x)  BY DEF CpuLinks
    <3>2. \A b \in Actors : ActorLinks(b)' <=> ActorLinks(b)
      BY DEF ActorLinks, LinkLabels
    <3> QED  BY <3>1, <3>2, LinkFrame DEF Inv
  <2>14. HelperInv'  BY DEF Inv, HelperInv, HelperCpu
  <2>15. SlotInv'  BY DEF Inv, SlotInv, SlotTask, SlotHeld, SlotActor, SlotCpu
  <2>16. MutationInv'
    <3>1. \A b \in Actors : HoldsAffinity(b)' => HoldsAffinity(b)
      BY DEF HoldsAffinity, SelfLabels, SchedLabels, SetterLabels, ClaimLabels,
         LinkLabels
    <3>2. MutationTask'
      BY <3>1 DEF Inv, MutationInv, MutationTask, ClaimLabels, LinkLabels
    <3>3. MutationOnce'
      BY <3>1 DEF Inv, MutationInv, MutationOnce, ClaimLabels, LinkLabels
    <3>4. MutationHeld'
      BY <3>1 DEF Inv, MutationInv, MutationHeld, ClaimLabels, LinkLabels
    <3>5. ASSUME NEW b \in Actors PROVE MutationActor(b)'
      BY <3>1, <3>5 DEF Inv, MutationInv, MutationActor, ClaimLabels, LinkLabels
    <3>6. ASSUME NEW x \in Cpus PROVE MutationCpu(x)'
      BY <3>1, <3>6 DEF Inv, MutationInv, MutationCpu, ClaimLabels, LinkLabels
    <3> QED  BY <3>2, <3>3, <3>4, <3>5, <3>6 DEF MutationInv
  <2>17. StealInv'  BY DEF Inv, StealInv, StealOnce, StealCpu, StealLabels
  <2>18. PlaceInv'
    <3>1. PlaceTask'  BY DEF Inv, PlaceInv, PlaceTask
    <3>2. ASSUME NEW b \in Actors PROVE PlaceActor(b)'
      BY <3>2 DEF Inv, PlaceInv, PlaceActor, LinkLabels
    <3>3. ASSUME NEW x \in Cpus PROVE PlaceCpu(x)'
      BY <3>3 DEF Inv, PlaceInv, PlaceCpu
    <3> QED  BY <3>1, <3>2, <3>3 DEF PlaceInv
  <2>19. MaskInv'
    BY DEF Inv, MaskInv, MaskTask, MaskSetter, MaskActor, MaskCpu, LinkLabels
  <2>20. PreemptInv'  BY DEF Inv, PreemptInv, Picked, MoveUnderway
  <2>21. SelfInv'
    BY DEF Inv, SelfInv, SelfTask, SelfCpu, SelfMoves, Continues, SchedLabels
  <2>22. ActiveInv'
    BY DEF Inv, ActiveInv, InSession, SessionLabels, SchedLabels, ClaimLabels,
       LinkLabels
  <2>23. SessionInv'  BY DEF Inv, SessionInv, Polled, Continues, WakeUnderway, SchedLabels
  <2>24. QED
    BY <2>8, <2>9, <2>10, <2>11, <2>12, <2>13, <2>14, <2>15, <2>16, <2>17, <2>18,
       <2>19, <2>20, <2>21, <2>22, <2>23 DEF Inv
\* ... on an excluded CPU hands itself to the helper.
<1>4. ASSUME SelfMigrate, cur \notin task.mask, task.helper # NoCpu PROVE Inv'
  <2> USE <1>4
  <2> USE TaskWakeAssumption DEF Actors
  <2>1. pc[Task] = "selfmigrate" /\ cur # NoCpu  BY DEF SelfMigrate, Own, Here
  <2>2. /\ pc[Task] = "selfmigrate" /\ Goto(Task, "migrate") /\ cur # NoCpu
        /\ ret' = [ret EXCEPT ![Task] = "selffinish"]
        /\ UNCHANGED <<bw, mutation, hand, ready, cur, cpu, locked, loc, events,
                       budget, fault>>
    BY <2>1 DEF SelfMigrate, sched, env
  <2>3. /\ pc'[Task] = "migrate" /\ pc' \in [Actors -> Labels]
        /\ \A b \in Actors \ {Task} : pc'[b] = pc[b]
    BY <2>2, Goes DEF Inv, Typed, Labels, WakeLabels, TaskLabels, SetterLabels
  <2>4. /\ ret'[Task] = "selffinish" /\ ret' \in [Actors -> Returns]
        /\ \A b \in Actors \ {Task} : ret'[b] = ret[b]
    BY <2>2 DEF Inv, Typed, Returns, TaskLabels
  <2>5. /\ task \in TaskWords /\ task' = [task EXCEPT !.helper = NoCpu]
    BY <2>1 DEF Inv, Typed, SelfMigrate
  <2>6. /\ task'.state = task.state /\ task'.cpu = task.cpu
        /\ task'.mask = task.mask /\ task'.helper = NoCpu
        /\ task'.resched = task.resched
        /\ task' \in TaskWords
    BY <2>5 DEF TaskWords
  <2>7. /\ ready = {} /\ ~hand.pending /\ task.state = "Running" /\ task.cpu = cur
        /\ \A c \in Cpus : /\ ~CpuLinks(c) /\ cpu[c].pc \notin StealLabels
                           /\ cpu[c].pc \notin MoverLabels
        /\ \A a \in Actors : ~ActorLinks(a)
    BY <2>2, NoLinks
       DEF Inv, StackInv, RunLabels, PlaceInv, PlaceTask, PlaceActor, PlaceCpu
  <2> USE <2>2, <2>3, <2>4, <2>6, <2>7
  <2>8. Typed'  BY DEF Inv, Typed
  <2>9. ~fault'  BY DEF Inv
  <2>10. RoleInv'
    <3>1. RoleTask'
      BY DEF Inv, RoleInv, RoleTask, ClaimLabels, LinkLabels, SetterLabels, TaskLabels,
             SchedLabels, SafePoints
    <3>2. ASSUME NEW y \in Wakers PROVE RoleWaker(y)'
      BY <3>2
         DEF Inv, RoleInv, RoleWaker, ClaimLabels, LinkLabels, SetterLabels,
             TaskLabels, SchedLabels, SafePoints
    <3>3. ASSUME NEW z \in Setters PROVE RoleSetter(z)'
      BY <3>3
         DEF Inv, RoleInv, RoleSetter, ClaimLabels, LinkLabels, SetterLabels,
             TaskLabels, SchedLabels, SafePoints
    <3> QED  BY <3>1, <3>2, <3>3 DEF RoleInv
  <2>11. StackInv'  BY DEF Inv, StackInv, ClaimLabels, LinkLabels, RunLabels
  <2>12. TokenInv'  BY DEF Inv, TokenInv, TokenTask, TokenActor, TokenCpu
  <2>13. LinkInv'
    <3>1. \A x \in Cpus : CpuLinks(x)' <=> CpuLinks(x)  BY DEF CpuLinks
    <3>2. \A b \in Actors : ActorLinks(b)' <=> ActorLinks(b)
      BY DEF ActorLinks, LinkLabels
    <3> QED  BY <3>1, <3>2, LinkFrame DEF Inv
  <2>14. HelperInv'  BY DEF Inv, HelperInv, HelperCpu
  <2>15. SlotInv'  BY DEF Inv, SlotInv, SlotTask, SlotHeld, SlotActor, SlotCpu
  <2>16. MutationInv'
    <3>1. \A b \in Actors : HoldsAffinity(b)' => HoldsAffinity(b)
      BY DEF HoldsAffinity, SelfLabels, SchedLabels, SetterLabels, ClaimLabels,
         LinkLabels
    <3>2. MutationTask'
      BY <3>1 DEF Inv, MutationInv, MutationTask, ClaimLabels, LinkLabels
    <3>3. MutationOnce'
      BY <3>1 DEF Inv, MutationInv, MutationOnce, ClaimLabels, LinkLabels
    <3>4. MutationHeld'
      BY <3>1 DEF Inv, MutationInv, MutationHeld, ClaimLabels, LinkLabels
    <3>5. ASSUME NEW b \in Actors PROVE MutationActor(b)'
      BY <3>1, <3>5 DEF Inv, MutationInv, MutationActor, ClaimLabels, LinkLabels
    <3>6. ASSUME NEW x \in Cpus PROVE MutationCpu(x)'
      BY <3>1, <3>6 DEF Inv, MutationInv, MutationCpu, ClaimLabels, LinkLabels
    <3> QED  BY <3>2, <3>3, <3>4, <3>5, <3>6 DEF MutationInv
  <2>17. StealInv'  BY DEF Inv, StealInv, StealOnce, StealCpu, StealLabels
  <2>18. PlaceInv'
    <3>1. PlaceTask'  BY DEF Inv, PlaceInv, PlaceTask
    <3>2. ASSUME NEW b \in Actors PROVE PlaceActor(b)'
      BY <3>2 DEF Inv, PlaceInv, PlaceActor, LinkLabels
    <3>3. ASSUME NEW x \in Cpus PROVE PlaceCpu(x)'
      BY <3>3 DEF Inv, PlaceInv, PlaceCpu
    <3> QED  BY <3>1, <3>2, <3>3 DEF PlaceInv
  <2>19. MaskInv'
    <3>1. MaskTask'  BY DEF Inv, MaskInv, MaskTask, LinkLabels
    <3>2. ASSUME NEW z \in Setters PROVE MaskSetter(z)'
      BY <3>2 DEF Inv, MaskInv, MaskSetter, LinkLabels
    <3>3. ASSUME NEW b \in Actors PROVE MaskActor(b)'
      BY <3>3 DEF Inv, MaskInv, MaskActor, LinkLabels
    <3>4. ASSUME NEW x \in Cpus PROVE MaskCpu(x)'
      BY <3>4 DEF Inv, MaskInv, MaskCpu, LinkLabels
    <3> QED  BY <3>1, <3>2, <3>3, <3>4 DEF MaskInv
  <2>20. PreemptInv'  BY DEF Inv, PreemptInv, Picked, MoveUnderway
  <2>21. SelfInv'
    BY DEF Inv, SelfInv, SelfTask, SelfCpu, SelfMoves, Continues, SchedLabels
  <2>22. ActiveInv'
    BY DEF Inv, ActiveInv, InSession, SessionLabels, SchedLabels, ClaimLabels,
       LinkLabels
  <2>23. SessionInv'  BY DEF Inv, SessionInv, Polled, Continues, WakeUnderway, SchedLabels
  <2>24. QED
    BY <2>8, <2>9, <2>10, <2>11, <2>12, <2>13, <2>14, <2>15, <2>16, <2>17, <2>18,
       <2>19, <2>20, <2>21, <2>22, <2>23 DEF Inv
\* ... and without one keeps the reschedule pending.
<1>5. ASSUME SelfMigrate, cur \notin task.mask, task.helper = NoCpu PROVE Inv'
  <2> USE <1>5
  <2> USE TaskWakeAssumption DEF Actors
  <2>1. pc[Task] = "selfmigrate" /\ cur # NoCpu  BY DEF SelfMigrate, Own, Here
  <2>2. /\ pc[Task] = "selfmigrate" /\ Goto(Task, "selffinish") /\ cur # NoCpu
        /\ ret' = [ret EXCEPT ![Task] = "selffinish"]
        /\ UNCHANGED <<bw, mutation, hand, ready, cur, cpu, locked, loc, events,
                       budget, fault>>
    BY <2>1 DEF SelfMigrate, sched, env
  <2>3. /\ pc'[Task] = "selffinish" /\ pc' \in [Actors -> Labels]
        /\ \A b \in Actors \ {Task} : pc'[b] = pc[b]
    BY <2>2, Goes DEF Inv, Typed, Labels, WakeLabels, TaskLabels, SetterLabels
  <2>4. /\ ret'[Task] = "selffinish" /\ ret' \in [Actors -> Returns]
        /\ \A b \in Actors \ {Task} : ret'[b] = ret[b]
    BY <2>2 DEF Inv, Typed, Returns, TaskLabels
  <2>5. /\ task \in TaskWords /\ task' = [task EXCEPT !.resched = TRUE]
    BY <2>1 DEF Inv, Typed, SelfMigrate
  <2>6. /\ task'.state = task.state /\ task'.cpu = task.cpu
        /\ task'.mask = task.mask /\ task'.helper = task.helper
        /\ task'.resched = TRUE
        /\ task' \in TaskWords
    BY <2>5 DEF TaskWords
  <2>7. /\ ready = {} /\ ~hand.pending /\ task.state = "Running" /\ task.cpu = cur
        /\ \A c \in Cpus : /\ ~CpuLinks(c) /\ cpu[c].pc \notin StealLabels
                           /\ cpu[c].pc \notin MoverLabels
        /\ \A a \in Actors : ~ActorLinks(a)
    BY <2>2, NoLinks
       DEF Inv, StackInv, RunLabels, PlaceInv, PlaceTask, PlaceActor, PlaceCpu
  <2> USE <2>2, <2>3, <2>4, <2>6, <2>7
  <2>8. Typed'  BY DEF Inv, Typed
  <2>9. ~fault'  BY DEF Inv
  <2>10. RoleInv'
    <3>1. RoleTask'
      BY DEF Inv, RoleInv, RoleTask, ClaimLabels, LinkLabels, SetterLabels, TaskLabels,
             SchedLabels, SafePoints
    <3>2. ASSUME NEW y \in Wakers PROVE RoleWaker(y)'
      BY <3>2
         DEF Inv, RoleInv, RoleWaker, ClaimLabels, LinkLabels, SetterLabels,
             TaskLabels, SchedLabels, SafePoints
    <3>3. ASSUME NEW z \in Setters PROVE RoleSetter(z)'
      BY <3>3
         DEF Inv, RoleInv, RoleSetter, ClaimLabels, LinkLabels, SetterLabels,
             TaskLabels, SchedLabels, SafePoints
    <3> QED  BY <3>1, <3>2, <3>3 DEF RoleInv
  <2>11. StackInv'  BY DEF Inv, StackInv, ClaimLabels, LinkLabels, RunLabels
  <2>12. TokenInv'  BY DEF Inv, TokenInv, TokenTask, TokenActor, TokenCpu
  <2>13. LinkInv'
    <3>1. \A x \in Cpus : CpuLinks(x)' <=> CpuLinks(x)  BY DEF CpuLinks
    <3>2. \A b \in Actors : ActorLinks(b)' <=> ActorLinks(b)
      BY DEF ActorLinks, LinkLabels
    <3> QED  BY <3>1, <3>2, LinkFrame DEF Inv
  <2>14. HelperInv'  BY DEF Inv, HelperInv, HelperCpu
  <2>15. SlotInv'  BY DEF Inv, SlotInv, SlotTask, SlotHeld, SlotActor, SlotCpu
  <2>16. MutationInv'
    <3>1. \A b \in Actors : HoldsAffinity(b)' => HoldsAffinity(b)
      BY DEF HoldsAffinity, SelfLabels, SchedLabels, SetterLabels, ClaimLabels,
         LinkLabels
    <3>2. MutationTask'
      BY <3>1 DEF Inv, MutationInv, MutationTask, ClaimLabels, LinkLabels
    <3>3. MutationOnce'
      BY <3>1 DEF Inv, MutationInv, MutationOnce, ClaimLabels, LinkLabels
    <3>4. MutationHeld'
      BY <3>1 DEF Inv, MutationInv, MutationHeld, ClaimLabels, LinkLabels
    <3>5. ASSUME NEW b \in Actors PROVE MutationActor(b)'
      BY <3>1, <3>5 DEF Inv, MutationInv, MutationActor, ClaimLabels, LinkLabels
    <3>6. ASSUME NEW x \in Cpus PROVE MutationCpu(x)'
      BY <3>1, <3>6 DEF Inv, MutationInv, MutationCpu, ClaimLabels, LinkLabels
    <3> QED  BY <3>2, <3>3, <3>4, <3>5, <3>6 DEF MutationInv
  <2>17. StealInv'  BY DEF Inv, StealInv, StealOnce, StealCpu, StealLabels
  <2>18. PlaceInv'
    <3>1. PlaceTask'  BY DEF Inv, PlaceInv, PlaceTask
    <3>2. ASSUME NEW b \in Actors PROVE PlaceActor(b)'
      BY <3>2 DEF Inv, PlaceInv, PlaceActor, LinkLabels
    <3>3. ASSUME NEW x \in Cpus PROVE PlaceCpu(x)'
      BY <3>3 DEF Inv, PlaceInv, PlaceCpu
    <3> QED  BY <3>1, <3>2, <3>3 DEF PlaceInv
  <2>19. MaskInv'
    <3>1. MaskTask'  BY DEF Inv, MaskInv, MaskTask, LinkLabels
    <3>2. ASSUME NEW z \in Setters PROVE MaskSetter(z)'
      BY <3>2 DEF Inv, MaskInv, MaskSetter, LinkLabels
    <3>3. ASSUME NEW b \in Actors PROVE MaskActor(b)'
      BY <3>3 DEF Inv, MaskInv, MaskActor, LinkLabels
    <3>4. ASSUME NEW x \in Cpus PROVE MaskCpu(x)'
      BY <3>4 DEF Inv, MaskInv, MaskCpu, LinkLabels
    <3> QED  BY <3>1, <3>2, <3>3, <3>4 DEF MaskInv
  <2>20. PreemptInv'  BY DEF Inv, PreemptInv, Picked, MoveUnderway
  <2>21. SelfInv'
    BY DEF Inv, SelfInv, SelfTask, SelfCpu, SelfMoves, Continues, SchedLabels
  <2>22. ActiveInv'
    BY DEF Inv, ActiveInv, InSession, SessionLabels, SchedLabels, ClaimLabels,
       LinkLabels
  <2>23. SessionInv'  BY DEF Inv, SessionInv, Polled, Continues, WakeUnderway, SchedLabels
  <2>24. QED
    BY <2>8, <2>9, <2>10, <2>11, <2>12, <2>13, <2>14, <2>15, <2>16, <2>17, <2>18,
       <2>19, <2>20, <2>21, <2>22, <2>23 DEF Inv
\* The exiting task leaves its CPU for good.
<1>6. CASE ExitCurrent
  <2> USE <1>6
  <2> USE TaskWakeAssumption DEF Actors
  <2>1. /\ pc[Task] = "begin" /\ Goto(Task, "exited") /\ cur # NoCpu
        /\ SwitchOut(cur, FALSE)
        /\ UNCHANGED <<bw, mutation, hand, ready, locked, ret, loc, events,
                       budget, fault>>
    BY DEF ExitCurrent, Own, Here, env
  <2>2. /\ pc'[Task] = "exited" /\ pc' \in [Actors -> Labels]
        /\ \A b \in Actors \ {Task} : pc'[b] = pc[b]
    BY <2>1, Goes DEF Inv, Typed, Labels, WakeLabels, TaskLabels, SetterLabels
  <2>3. /\ cur \in Cpus /\ cpu[cur].pc = "run" /\ cpu[cur].helper = FALSE
        /\ hand.token # 0 /\ hand.cpu = cur
        /\ \A c \in Cpus : cpu[c].pc # "epilogue"
    BY <2>1, LiveStack
  <2>4. /\ cur' = NoCpu /\ cpu' \in [Cpus -> CpuRecords]
        /\ cpu'[cur].pc = "epilogue" /\ cpu'[cur].prev = hand.token
        /\ cpu'[cur].helper = FALSE
        /\ \A c \in Cpus \ {cur} : cpu'[c] = cpu[c]
    BY <2>1, <2>3, Switched DEF Inv
  <2>5. /\ task \in TaskWords /\ task' = [task EXCEPT !.state = "Exited"]
    BY DEF Inv, Typed, ExitCurrent
  <2>6. /\ task'.state = "Exited" /\ task'.cpu = task.cpu
        /\ task'.mask = task.mask /\ task'.helper = task.helper
        /\ task'.resched = task.resched
        /\ task' \in TaskWords
    BY <2>5 DEF TaskWords
  <2>7. /\ ready = {} /\ ~hand.pending /\ task.state = "Running" /\ task.cpu = cur
        /\ \A c \in Cpus : /\ ~CpuLinks(c) /\ cpu[c].pc \notin StealLabels
                           /\ cpu[c].pc \notin MoverLabels
        /\ \A a \in Actors : ~ActorLinks(a)
    BY <2>1, NoLinks
       DEF Inv, StackInv, RunLabels, PlaceInv, PlaceTask, PlaceActor, PlaceCpu
  <2> USE <2>1, <2>2, <2>3, <2>4, <2>6, <2>7
  <2>8. Typed'  BY DEF Inv, Typed
  <2>9. ~fault'  BY DEF Inv
  <2>10. RoleInv'
    <3>1. RoleTask'
      BY DEF Inv, RoleInv, RoleTask, ClaimLabels, LinkLabels, SetterLabels, TaskLabels,
             SchedLabels, SafePoints
    <3>2. ASSUME NEW y \in Wakers PROVE RoleWaker(y)'
      BY <3>2
         DEF Inv, RoleInv, RoleWaker, ClaimLabels, LinkLabels, SetterLabels,
             TaskLabels, SchedLabels, SafePoints
    <3>3. ASSUME NEW z \in Setters PROVE RoleSetter(z)'
      BY <3>3
         DEF Inv, RoleInv, RoleSetter, ClaimLabels, LinkLabels, SetterLabels,
             TaskLabels, SchedLabels, SafePoints
    <3> QED  BY <3>1, <3>2, <3>3 DEF RoleInv
  <2>11. StackInv'  BY DEF Inv, StackInv, ClaimLabels, LinkLabels, RunLabels
  <2>12. TokenInv'
    <3>1. TokenTask'  BY DEF Inv, TokenInv, TokenTask
    <3>2. ASSUME NEW b \in Actors PROVE TokenActor(b)'
      BY <3>2 DEF Inv, TokenInv, TokenActor
    <3>3. ASSUME NEW x \in Cpus PROVE TokenCpu(x)'
      BY <3>3 DEF Inv, TokenInv, TokenCpu
    <3> QED  BY <3>1, <3>2, <3>3 DEF TokenInv
  <2>13. LinkInv'
    <3>1. LinkOnce'
      <4>1. ready' = {}  BY <2>1, <2>7
      <4>2. \A x \in Cpus : ~CpuLinks(x)'  BY DEF CpuLinks
      <4>3. \A b \in Actors : ~ActorLinks(b)'  BY DEF ActorLinks, LinkLabels
      <4> QED  BY <4>1, <4>2, <4>3 DEF LinkOnce
    <3>2. LinkTask'  BY DEF Inv, LinkInv, LinkTask, CpuLinks, ActorLinks, LinkLabels
    <3>3. LinkHeld'  BY DEF Inv, LinkInv, LinkHeld, CpuLinks, ActorLinks, LinkLabels
    <3>4. ASSUME NEW b \in Actors PROVE LinkActor(b)'
      BY <3>4 DEF Inv, LinkInv, LinkActor, CpuLinks, ActorLinks, LinkLabels
    <3>5. ASSUME NEW x \in Cpus PROVE LinkCpu(x)'
      BY <3>5 DEF Inv, LinkInv, LinkCpu, CpuLinks, ActorLinks, LinkLabels
    <3> QED  BY <3>1, <3>2, <3>3, <3>4, <3>5 DEF LinkInv
  <2>14. HelperInv'  BY DEF Inv, HelperInv, HelperCpu
  <2>15. SlotInv'
    <3>1. SlotTask'  BY DEF Inv, SlotInv, SlotTask
    <3>2. SlotHeld'  BY SMTT(30), Z3T(30) DEF Inv, SlotInv, SlotHeld
    <3>3. ASSUME NEW b \in Actors PROVE SlotActor(b)'
      BY <3>3 DEF Inv, SlotInv, SlotActor
    <3>4. ASSUME NEW x \in Cpus PROVE SlotCpu(x)'
      BY <3>4 DEF Inv, SlotInv, SlotCpu
    <3> QED  BY <3>1, <3>2, <3>3, <3>4 DEF SlotInv
  <2>16. MutationInv'
    <3>1. \A b \in Actors : HoldsAffinity(b)' => HoldsAffinity(b)
      BY DEF HoldsAffinity, SelfLabels, SchedLabels, SetterLabels, ClaimLabels,
         LinkLabels
    <3>2. MutationTask'
      BY <3>1 DEF Inv, MutationInv, MutationTask, ClaimLabels, LinkLabels
    <3>3. MutationOnce'
      BY <3>1 DEF Inv, MutationInv, MutationOnce, ClaimLabels, LinkLabels
    <3>4. MutationHeld'
      BY <3>1 DEF Inv, MutationInv, MutationHeld, ClaimLabels, LinkLabels
    <3>5. ASSUME NEW b \in Actors PROVE MutationActor(b)'
      BY <3>1, <3>5 DEF Inv, MutationInv, MutationActor, ClaimLabels, LinkLabels
    <3>6. ASSUME NEW x \in Cpus PROVE MutationCpu(x)'
      BY <3>1, <3>6 DEF Inv, MutationInv, MutationCpu, ClaimLabels, LinkLabels
    <3> QED  BY <3>2, <3>3, <3>4, <3>5, <3>6 DEF MutationInv
  <2>17. StealInv'  BY DEF Inv, StealInv, StealOnce, StealCpu, StealLabels
  <2>18. PlaceInv'
    <3>1. PlaceTask'  BY DEF Inv, PlaceInv, PlaceTask
    <3>2. ASSUME NEW b \in Actors PROVE PlaceActor(b)'
      BY <3>2 DEF Inv, PlaceInv, PlaceActor, LinkLabels
    <3>3. ASSUME NEW x \in Cpus PROVE PlaceCpu(x)'
      BY <3>3 DEF Inv, PlaceInv, PlaceCpu
    <3> QED  BY <3>1, <3>2, <3>3 DEF PlaceInv
  <2>19. MaskInv'
    <3>1. MaskTask'  BY DEF Inv, MaskInv, MaskTask, LinkLabels
    <3>2. ASSUME NEW z \in Setters PROVE MaskSetter(z)'
      BY <3>2 DEF Inv, MaskInv, MaskSetter, LinkLabels
    <3>3. ASSUME NEW b \in Actors PROVE MaskActor(b)'
      BY <3>3 DEF Inv, MaskInv, MaskActor, LinkLabels
    <3>4. ASSUME NEW x \in Cpus PROVE MaskCpu(x)'
      BY <3>4 DEF Inv, MaskInv, MaskCpu, LinkLabels
    <3> QED  BY <3>1, <3>2, <3>3, <3>4 DEF MaskInv
  <2>20. PreemptInv'  BY DEF Inv, PreemptInv, Picked, MoveUnderway, MoverLabels
  <2>21. SelfInv'
    BY DEF Inv, SelfInv, SelfTask, SelfCpu, SelfMoves, Continues, SchedLabels
  <2>22. ActiveInv'
    BY DEF Inv, ActiveInv, InSession, SessionLabels, SchedLabels, ClaimLabels,
       LinkLabels
  <2>23. SessionInv'  BY DEF Inv, SessionInv, Polled, Continues, WakeUnderway, SchedLabels
  <2>24. QED
    BY <2>8, <2>9, <2>10, <2>11, <2>12, <2>13, <2>14, <2>15, <2>16, <2>17, <2>18,
       <2>19, <2>20, <2>21, <2>22, <2>23 DEF Inv
<1>7. QED  BY <1>1, <1>2, <1>3, <1>4, <1>5, <1>6

\* Every step of the task's own stack keeps the invariant.
LEMMA TaskStepKeeps == ASSUME Inv, TaskStep PROVE Inv'
  BY WaitKeeps, BlockKeeps, SwitchKeeps, SelfKeeps DEF TaskStep

=============================================================================
