---------------------------- MODULE TlbShootdown ----------------------------
(***************************************************************************)
(* thekernel-axtlb: per-CPU mailboxes for IPI reasons and CPU-maintenance  *)
(* shootdown.  Issuers publish an epoch to targets, IPI handlers service   *)
(* the mailbox of their CPU, controllers move a CPU between offline,       *)
(* online and draining.  Every action is one atomic access of lib.rs; only *)
(* try_complete, whose loads are of words that never decrease, is one step.*)
(*                                                                         *)
(* The kernel adapter (hardware IPIs, the maintenance instructions, the    *)
(* pacing of lifecycle calls) is modelled from the crate's contract.       *)
(***************************************************************************)
EXTENDS Integers, FiniteSets

CONSTANTS Cpus,          \* CPU indices, a finite set of naturals
          Classes,       \* maintenance classes, in the code's order: 0 TLB, 1 I-cache
          Reasons, Maint,\* IPI reasons and the reserved maintenance one
          Issuers,       \* contexts that issue requests or post reasons
          Controllers,   \* contexts that run lifecycle transitions
          Offlining,     \* whether controllers take CPUs offline
          Recovering,    \* whether adapters send recovery kicks
          MaxEpoch,      \* largest epoch the word holds (u64::MAX)
          MaxAdmissions  \* largest admission count the word holds

ASSUME ShootdownAssumption ==
    /\ Cpus \subseteq Nat /\ IsFiniteSet(Cpus)
    /\ Classes \subseteq Nat /\ IsFiniteSet(Classes)
    /\ Maint \in Reasons
    /\ Offlining \in BOOLEAN /\ Recovering \in BOOLEAN
    /\ MaxEpoch \in Nat /\ MaxAdmissions \in Nat

VARIABLES
    state,    \* lifecycle word, its two state bits
    adm,      \* lifecycle word, its admissions, as the set of their holders
    pending,  \* pending_reasons
    req,      \* requested epoch per class
    done,     \* completed epoch per class
    epoch,    \* next_epoch
    ipc,      \* issuer: next step
    call,     \* issuer: arguments of its call (want = {}: all online CPUs)
    left,     \* issuer: CPUs its loop has yet to visit
    raise,    \* issuer: classes it has yet to raise at the CPU it visits
    stamp,    \* issuer: epoch of its request
    targets,  \* issuer: CPUs it published the request to
    kicks,    \* issuer: CPUs it has yet to send a hardware IPI
    hpc,      \* IPI handler of a CPU: next step
    snap,     \* IPI handler: requested epochs captured by this service
    todo,     \* IPI handler: classes still to load, or still to acknowledge
    ipi,      \* hardware: an IPI to the CPU is latched
    ctl,      \* controller: next step, and the CPU it works on
    flushed   \* ghost: next_epoch when the last local operation started

mailbox == <<state, adm, pending, req, done, epoch>>
issuer == <<ipc, call, left, raise, stamp, targets, kicks>>
handler == <<hpc, snap, todo>>
vars == <<mailbox, issuer, handler, ipi, ctl, flushed>>

Zero == [c \in Cpus |-> [k \in Classes |-> 0]]
Empty == [i \in Issuers |-> {}]
NoCall == [cpu |-> 0, classes |-> {}, want |-> {}]

\* A controller between calls.
AtRest == [at |-> "idle", cpu |-> 0]

Init ==
    /\ state = [c \in Cpus |-> "offline"]
    /\ adm = [c \in Cpus |-> {}] /\ pending = [c \in Cpus |-> {}]
    /\ req = Zero /\ done = Zero /\ flushed = Zero /\ epoch = 0
    /\ ipc = [i \in Issuers |-> "idle"] /\ call = [i \in Issuers |-> NoCall]
    /\ left = Empty /\ raise = Empty /\ targets = Empty /\ kicks = Empty
    /\ stamp = [i \in Issuers |-> 0]
    /\ hpc = [c \in Cpus |-> "idle"] /\ snap = Zero
    /\ todo = [c \in Cpus |-> {}] /\ ipi = [c \in Cpus |-> FALSE]
    /\ ctl = [x \in Controllers |-> AtRest]

-----------------------------------------------------------------------------
(* The mailbox operations.                                                 *)

Larger(m, n) == IF m < n THEN n ELSE m

\* CpuMailbox::try_admit.
CanAdmit(c) == state[c] = "online" /\ Cardinality(adm[c]) < MaxAdmissions
Admit(i, c) == adm' = [adm EXCEPT ![c] = @ \cup {i}]

\* Mutation: no reason while the handler is already running.
PostUnlessServicing(c, r) ==
    pending' = IF hpc[c] = "idle" THEN [pending EXCEPT ![c] = @ \cup {r}]
                                  ELSE pending

\* CpuMailbox::post_reason.
Post(c, r) == pending' = [pending EXCEPT ![c] = @ \cup {r}]

\* CpuMailbox::release_admission.
Release(i, c) == adm' = [adm EXCEPT ![c] = @ \ {i}]

Goto(i, l) == ipc' = [ipc EXCEPT ![i] = l]
Lowest(c, S) == c \in S /\ \A d \in S : c <= d

-----------------------------------------------------------------------------
(* Issuing: issue_after_local_maintenance_with (all online CPUs) and        *)
(* issue_after_local_maintenance_for_targets_with (an exact set).           *)

\* Argument checks and the issuer's admission; a refused call changes nothing.
IssueAll(i, c, ks) ==
    /\ ipc[i] = "idle" /\ ks # {} /\ CanAdmit(c)
    /\ Admit(i, c)
    /\ call' = [call EXCEPT ![i] = [cpu |-> c, classes |-> ks, want |-> {}]]
    /\ left' = [left EXCEPT ![i] = Cpus \ {c}]
    /\ Goto(i, "epoch")
    /\ UNCHANGED <<state, pending, req, done, epoch, raise, stamp, targets,
                   kicks, handler, ipi, ctl, flushed>>

IssueTo(i, c, ks, ts) ==
    /\ ipc[i] = "idle" /\ ks # {} /\ ts # {} /\ c \notin ts /\ CanAdmit(c)
    /\ Admit(i, c)
    /\ call' = [call EXCEPT ![i] = [cpu |-> c, classes |-> ks, want |-> ts]]
    /\ left' = [left EXCEPT ![i] = ts]
    /\ Goto(i, "admit")
    /\ UNCHANGED <<state, pending, req, done, epoch, raise, stamp, targets,
                   kicks, handler, ipi, ctl, flushed>>

\* A targeted call admits every target in index order before any epoch; one
\* that is offline, draining or full unwinds all of them.
AdmitTarget(i) ==
    /\ ipc[i] = "admit"
    /\ \/ /\ left[i] = {}
          /\ left' = [left EXCEPT ![i] = call[i].want]
          /\ Goto(i, "epoch") /\ UNCHANGED adm
       \/ \E c \in Cpus :
          /\ Lowest(c, left[i])
          /\ \/ /\ CanAdmit(c) /\ Admit(i, c)
                /\ left' = [left EXCEPT ![i] = @ \ {c}]
                /\ UNCHANGED ipc
             \/ /\ ~CanAdmit(c) /\ Goto(i, "unwind") /\ UNCHANGED <<adm, left>>
    /\ UNCHANGED <<state, pending, req, done, epoch, call, raise, stamp,
                   targets, kicks, handler, ipi, ctl, flushed>>

\* The checked increment of next_epoch.
TakeEpoch(i) ==
    /\ ipc[i] = "epoch"
    /\ \/ /\ epoch < MaxEpoch
          /\ epoch' = epoch + 1
          /\ stamp' = [stamp EXCEPT ![i] = epoch + 1]
          /\ Goto(i, "visit")
       \/ /\ epoch = MaxEpoch
          /\ Goto(i, "unwind") /\ UNCHANGED <<epoch, stamp>>
    /\ UNCHANGED <<state, adm, pending, req, done, call, left, raise, targets,
                   kicks, handler, ipi, ctl, flushed>>

\* The next CPU of the publication loop: an all-online call admits it now and
\* skips it when it is unavailable, a targeted call already holds it.
VisitTarget(i) ==
    /\ ipc[i] = "visit"
    /\ \/ /\ left[i] = {}
          /\ Goto(i, IF call[i].want = {} THEN "held" ELSE "drop")
          /\ UNCHANGED <<adm, left, raise>>
       \/ \E c \in Cpus :
          /\ Lowest(c, left[i])
          /\ \/ /\ call[i].want # {} \/ CanAdmit(c)
                /\ IF call[i].want # {} THEN UNCHANGED adm ELSE Admit(i, c)
                /\ raise' = [raise EXCEPT ![i] = call[i].classes]
                /\ Goto(i, "raise") /\ UNCHANGED left
             \/ /\ call[i].want = {} /\ state[c] # "online"
                /\ left' = [left EXCEPT ![i] = @ \ {c}]
                /\ UNCHANGED <<adm, raise, ipc>>
             \/ /\ call[i].want = {} /\ state[c] = "online" /\ ~CanAdmit(c)
                /\ Goto(i, "unwind") /\ UNCHANGED <<adm, left, raise>>
    /\ UNCHANGED <<state, pending, req, done, epoch, call, stamp, targets,
                   kicks, handler, ipi, ctl, flushed>>

\* fetch_max of one class's requested epoch.
RaiseEpoch(i) ==
    /\ ipc[i] = "raise"
    /\ \E c \in Cpus, k \in Classes :
          /\ Lowest(c, left[i]) /\ Lowest(k, raise[i])
          /\ req' = [req EXCEPT ![c][k] = Larger(@, stamp[i])]
          /\ raise' = [raise EXCEPT ![i] = @ \ {k}]
          /\ IF raise[i] = {k} THEN Goto(i, "post") ELSE UNCHANGED ipc
    /\ UNCHANGED <<state, adm, pending, done, epoch, call, left, stamp,
                   targets, kicks, handler, ipi, ctl, flushed>>

\* post_reason(CPU_MAINTENANCE_REASON): a 0 -> 1 edge needs a kick.
PostMaintenance(i) ==
    /\ ipc[i] = "post"
    /\ \E c \in Cpus :
          /\ Lowest(c, left[i])
          /\ Post(c, Maint)
          /\ left' = [left EXCEPT ![i] = @ \ {c}]
          /\ targets' = [targets EXCEPT ![i] = @ \cup {c}]
          /\ kicks' = IF Maint \in pending[c] THEN kicks
                      ELSE [kicks EXCEPT ![i] = @ \cup {c}]
    /\ Goto(i, IF call[i].want = {} THEN "leave" ELSE "visit")
    /\ UNCHANGED <<state, adm, req, done, epoch, call, raise, stamp, handler,
                   ipi, ctl, flushed>>

\* Admissions of targets the call still holds.
Held(i) == {c \in Cpus : i \in adm[c]} \ {call[i].cpu}

\* An all-online call drops a target's admission at the end of its iteration,
\* a targeted one all of them, in index order, once every target is published.
DropTarget(i) ==
    /\ ipc[i] \in {"leave", "drop"}
    /\ \E c \in Cpus :
          /\ Lowest(c, Held(i)) /\ Release(i, c)
          /\ IF Held(i) # {c} THEN UNCHANGED ipc
             ELSE Goto(i, IF ipc[i] = "leave" THEN "visit" ELSE "held")
    /\ UNCHANGED <<state, pending, req, done, epoch, call, left, raise, stamp,
                   targets, kicks, handler, ipi, ctl, flushed>>

\* The call's frame is gone.
EndCall(i) ==
    /\ Goto(i, "idle") /\ call' = [call EXCEPT ![i] = NoCall]
    /\ left' = [left EXCEPT ![i] = {}] /\ raise' = [raise EXCEPT ![i] = {}]
    /\ stamp' = [stamp EXCEPT ![i] = 0]
    /\ targets' = [targets EXCEPT ![i] = {}]
    /\ kicks' = [kicks EXCEPT ![i] = {}]

\* A failed call, or a dropped request, releases its targets and the issuer.
Unwind(i) ==
    /\ ipc[i] = "unwind"
    /\ \/ /\ \E c \in Cpus : Lowest(c, Held(i)) /\ Release(i, c)
          /\ UNCHANGED issuer
       \/ Held(i) = {} /\ Release(i, call[i].cpu) /\ EndCall(i)
    /\ UNCHANGED <<state, pending, req, done, epoch, handler, ipi, ctl, flushed>>

\* Mutation: a request that reached its grace early keeps its kicks.
SendWhileHeld(i) ==
    /\ ipc[i] \in {"held", "posted"}
    /\ \E c \in kicks[i] :
          /\ ipi' = [ipi EXCEPT ![c] = TRUE]
          /\ kicks' = [kicks EXCEPT ![i] = @ \ {c}]
    /\ UNCHANGED <<mailbox, ipc, call, left, raise, stamp, targets, handler,
                   ctl, flushed>>

\* The adapter sends the hardware IPI a 0 -> 1 reason edge asked for, even when
\* a handler raised for another reason has served the request by then ...
SendKick(i) ==
    /\ ipc[i] \in {"held", "grace", "posted"}
    /\ \E c \in kicks[i] :
          /\ ipi' = [ipi EXCEPT ![c] = TRUE]
          /\ kicks' = [kicks EXCEPT ![i] = @ \ {c}]
    /\ UNCHANGED <<mailbox, ipc, call, left, raise, stamp, targets, handler,
                   ctl, flushed>>

\* Mutations: one epoch short, one epoch long, any class instead of all.
PendingShort(i, c) == \E k \in call[i].classes : done[c][k] + 1 < stamp[i]
PendingLong(i, c) == \E k \in call[i].classes : done[c][k] <= stamp[i]
PendingAny(i, c) == \A k \in call[i].classes : done[c][k] < stamp[i]

\* target_pending: some class this request asked for is not acknowledged.
TargetPending(i, c) == \E k \in call[i].classes : done[c][k] < stamp[i]

\* ... and may repeat it for a target that is still pending.
RecoveryKick(i) ==
    /\ Recovering /\ ipc[i] = "held"
    /\ \E c \in targets[i] :
          TargetPending(i, c) /\ ipi' = [ipi EXCEPT ![c] = TRUE]
    /\ UNCHANGED <<mailbox, issuer, handler, ctl, flushed>>

\* ShootdownRequest::try_complete yields the grace.
TryComplete(i) ==
    /\ ipc[i] = "held"
    /\ \A c \in targets[i] : ~TargetPending(i, c)
    /\ Goto(i, "grace")
    /\ UNCHANGED <<mailbox, call, left, raise, stamp, targets, kicks, handler,
                   ipi, ctl, flushed>>

\* The request is dropped with its issuer admission.  Only a grace may be
\* followed by one: a caller that gives up earlier must stop the machine.
DropRequest(i) ==
    /\ ipc[i] = "grace" /\ kicks[i] = {}
    /\ Goto(i, "unwind")
    /\ UNCHANGED <<mailbox, call, left, raise, stamp, targets, kicks, handler,
                   ipi, ctl, flushed>>

\* post_non_maintenance_reason: admit, fetch_or, release.
AdmitReason(i, c) ==
    /\ ipc[i] = "idle" /\ Reasons # {Maint} /\ CanAdmit(c)
    /\ Admit(i, c)
    /\ call' = [call EXCEPT ![i] = [cpu |-> c, classes |-> {}, want |-> {}]]
    /\ Goto(i, "reason")
    /\ UNCHANGED <<state, pending, req, done, epoch, left, raise, stamp,
                   targets, kicks, handler, ipi, ctl, flushed>>

PostReason(i, r) ==
    /\ ipc[i] = "reason" /\ r # Maint
    /\ LET c == call[i].cpu IN
       /\ Post(c, r)
       /\ kicks' = [kicks EXCEPT ![i] = IF r \in pending[c] THEN {} ELSE {c}]
    /\ Goto(i, "release")
    /\ UNCHANGED <<state, adm, req, done, epoch, call, left, raise, stamp,
                   targets, handler, ipi, ctl, flushed>>

ReleaseReason(i) ==
    /\ ipc[i] = "release"
    /\ Release(i, call[i].cpu)
    /\ Goto(i, "posted")
    /\ UNCHANGED <<state, pending, req, done, epoch, call, left, raise, stamp,
                   targets, kicks, handler, ipi, ctl, flushed>>

EndPost(i) ==
    /\ ipc[i] = "posted" /\ kicks[i] = {}
    /\ EndCall(i)
    /\ UNCHANGED <<mailbox, handler, ipi, ctl, flushed>>

-----------------------------------------------------------------------------
(* The IPI handler of a CPU: take_pending_reasons, then service_maintenance.*)

TakeReasons(c) ==
    /\ hpc[c] = "idle" /\ ipi[c]
    /\ ipi' = [ipi EXCEPT ![c] = FALSE]
    /\ pending' = [pending EXCEPT ![c] = {}]
    /\ hpc' = [hpc EXCEPT ![c] = "load"]
    /\ todo' = [todo EXCEPT ![c] = Classes]
    /\ UNCHANGED <<state, adm, req, done, epoch, issuer, snap, ctl, flushed>>

\* Load the requested epoch of one class; completed is this handler's own.
LoadRequested(c) ==
    /\ hpc[c] = "load"
    /\ \E k \in Classes :
          /\ Lowest(k, todo[c])
          /\ snap' = [snap EXCEPT ![c][k] = req[c][k]]
          /\ todo' = [todo EXCEPT ![c] = @ \ {k}]
          /\ hpc' = [hpc EXCEPT ![c] = IF todo[c] = {k} THEN "maintain" ELSE @]
    /\ UNCHANGED <<mailbox, issuer, ipi, ctl, flushed>>

EndService(c) ==
    /\ hpc' = [hpc EXCEPT ![c] = "idle"]
    /\ snap' = [snap EXCEPT ![c] = Zero[c]]

\* maintain_local runs once over the pending classes, if there are any.
MaintainLocal(c) ==
    /\ hpc[c] = "maintain"
    /\ LET work == {k \in Classes : done[c][k] < snap[c][k]} IN
       /\ flushed' = [flushed EXCEPT ![c] =
                         [k \in Classes |-> IF k \in work THEN epoch ELSE @[k]]]
       /\ todo' = [todo EXCEPT ![c] = work]
       /\ IF work = {} THEN EndService(c)
          ELSE hpc' = [hpc EXCEPT ![c] = "ack"] /\ UNCHANGED snap
    /\ UNCHANGED <<mailbox, issuer, ipi, ctl>>

\* fetch_max of the completed epoch to the captured snapshot.
Acknowledge(c) ==
    /\ hpc[c] = "ack"
    /\ \E k \in Classes :
          /\ Lowest(k, todo[c])
          /\ done' = [done EXCEPT ![c][k] = Larger(@, snap[c][k])]
          /\ todo' = [todo EXCEPT ![c] = @ \ {k}]
          /\ IF todo[c] = {k} THEN EndService(c) ELSE UNCHANGED <<hpc, snap>>
    /\ UNCHANGED <<state, adm, pending, req, epoch, issuer, ipi, ctl, flushed>>

-----------------------------------------------------------------------------
(* Lifecycle: publish_online, begin_offline, complete_offline.              *)

Drained(c) == \A k \in Classes : req[c][k] = done[c][k]

\* Mutation: the neighbour's mailbox.
ControlGotoNext(x, c, l) == ctl' = [ctl EXCEPT ![x] = [at |-> l, cpu |-> c + 1]]

ControlGoto(x, c, l) == ctl' = [ctl EXCEPT ![x] = [at |-> l, cpu |-> c]]
ControlDone(x) == ctl' = [ctl EXCEPT ![x] = AtRest]

\* publish_online: an empty mailbox is required ...
CheckMailbox(x, c) ==
    /\ ctl[x].at = "idle" /\ pending[c] = {} /\ Drained(c)
    /\ ControlGoto(x, c, "publish")
    /\ UNCHANGED <<mailbox, issuer, handler, ipi, flushed>>

\* ... then the CAS from an offline word without admissions.
PublishOnline(x) ==
    /\ ctl[x].at = "publish"
    /\ LET c == ctl[x].cpu IN
       /\ state' = IF state[c] = "offline" /\ adm[c] = {}
                   THEN [state EXCEPT ![c] = "online"] ELSE state
       /\ ControlDone(x)
    /\ UNCHANGED <<adm, pending, req, done, epoch, issuer, handler, ipi, flushed>>

\* begin_offline keeps the admissions and closes new ones.
BeginOffline(x, c) ==
    /\ Offlining /\ ctl[x].at = "idle" /\ state[c] = "online"
    /\ state' = [state EXCEPT ![c] = "draining"]
    /\ UNCHANGED <<adm, pending, req, done, epoch, issuer, handler, ipi,
                   ctl, flushed>>

\* complete_offline: the lifecycle word, the epochs, the reasons, the CAS.
CheckDraining(x, c) ==
    /\ ctl[x].at = "idle" /\ state[c] = "draining" /\ adm[c] = {}
    /\ ControlGoto(x, c, "epochs")
    /\ UNCHANGED <<mailbox, issuer, handler, ipi, flushed>>

\* Mutation: complete_offline looks at the reasons only.
CheckNoEpochs(x) ==
    /\ ctl[x].at = "epochs"
    /\ ControlGoto(x, ctl[x].cpu, "reasons")
    /\ UNCHANGED <<mailbox, issuer, handler, ipi, flushed>>

CheckEpochs(x) ==
    /\ ctl[x].at = "epochs"
    /\ LET c == ctl[x].cpu IN
       IF \E k \in Classes : req[c][k] > done[c][k]
       THEN ControlDone(x) ELSE ControlGoto(x, c, "reasons")
    /\ UNCHANGED <<mailbox, issuer, handler, ipi, flushed>>

CheckReasons(x) ==
    /\ ctl[x].at = "reasons"
    /\ LET c == ctl[x].cpu IN
       IF pending[c] # {} THEN ControlDone(x) ELSE ControlGoto(x, c, "commit")
    /\ UNCHANGED <<mailbox, issuer, handler, ipi, flushed>>

CommitOffline(x) ==
    /\ ctl[x].at = "commit"
    /\ LET c == ctl[x].cpu IN
       /\ state' = IF state[c] = "draining" /\ adm[c] = {}
                   THEN [state EXCEPT ![c] = "offline"] ELSE state
       /\ ControlDone(x)
    /\ UNCHANGED <<adm, pending, req, done, epoch, issuer, handler, ipi, flushed>>

-----------------------------------------------------------------------------
(* Specification.                                                          *)

Publish(i) ==
    \/ AdmitTarget(i) \/ TakeEpoch(i) \/ VisitTarget(i) \/ RaiseEpoch(i)
    \/ PostMaintenance(i) \/ DropTarget(i) \/ Unwind(i) \/ SendKick(i)
    \/ ReleaseReason(i) \/ EndPost(i)
    \/ \E r \in Reasons : PostReason(i, r)

Handle(c) ==
    TakeReasons(c) \/ LoadRequested(c) \/ MaintainLocal(c) \/ Acknowledge(c)

Lifecycle(x) ==
    \/ \E c \in Cpus : \/ CheckMailbox(x, c) \/ BeginOffline(x, c)
                       \/ CheckDraining(x, c)
    \/ PublishOnline(x) \/ CheckEpochs(x) \/ CheckReasons(x) \/ CommitOffline(x)

Next ==
    \/ \E i \in Issuers, c \in Cpus : AdmitReason(i, c)
    \/ \E i \in Issuers, c \in Cpus, ks \in SUBSET Classes : IssueAll(i, c, ks)
    \/ \E i \in Issuers, c \in Cpus, ks \in SUBSET Classes, ts \in SUBSET Cpus :
           IssueTo(i, c, ks, ts)
    \/ \E i \in Issuers : Publish(i) \/ RecoveryKick(i) \/ TryComplete(i)
                          \/ DropRequest(i)
    \/ \E c \in Cpus : Handle(c)
    \/ \E x \in Controllers : Lifecycle(x)

Safety == Init /\ [][Next]_vars

\* An issue call runs to its end and its caller polls try_complete; an IPI that
\* is latched is taken and its handler finishes.  No call has to be made.
Fairness ==
    /\ \A i \in Issuers : WF_vars(Publish(i)) /\ WF_vars(TryComplete(i))
    /\ \A c \in Cpus : WF_vars(Handle(c))

Spec == Safety /\ Fairness

-----------------------------------------------------------------------------
(* Properties.                                                             *)

IssuerLabels == {"idle", "admit", "epoch", "visit", "raise", "post", "leave",
                 "drop", "unwind", "held", "grace", "reason", "release", "posted"}
ControlLabels == {"idle", "publish", "epochs", "reasons", "commit"}
Calls == [cpu : Nat, classes : SUBSET Classes, want : SUBSET Cpus]

\* The words of every mailbox, and the locals of every context, keep the range
\* their fields in lib.rs have.
TypeOK ==
    /\ state \in [Cpus -> {"offline", "online", "draining"}]
    /\ adm \in [Cpus -> SUBSET Issuers] /\ pending \in [Cpus -> SUBSET Reasons]
    /\ req \in [Cpus -> [Classes -> Nat]] /\ done \in [Cpus -> [Classes -> Nat]]
    /\ epoch \in Nat
    /\ ipc \in [Issuers -> IssuerLabels] /\ call \in [Issuers -> Calls]
    /\ \A i \in Issuers : ipc[i] # "idle" => call[i].cpu \in Cpus
    /\ left \in [Issuers -> SUBSET Cpus] /\ raise \in [Issuers -> SUBSET Classes]
    /\ stamp \in [Issuers -> Nat]
    /\ targets \in [Issuers -> SUBSET Cpus] /\ kicks \in [Issuers -> SUBSET Cpus]
    /\ hpc \in [Cpus -> {"idle", "load", "maintain", "ack"}]
    /\ snap \in [Cpus -> [Classes -> Nat]] /\ todo \in [Cpus -> SUBSET Classes]
    /\ ipi \in [Cpus -> BOOLEAN]
    /\ ctl \in [Controllers -> [at : ControlLabels, cpu : Nat]]
    /\ \A x \in Controllers : ctl[x].at # "idle" => ctl[x].cpu \in Cpus
    /\ flushed \in [Cpus -> [Classes -> Nat]]

\* A grace is never early: every target of a graced request started a local
\* operation of each of its classes after the request's epoch was allocated,
\* whatever other requests, services and lifecycle changes ran meanwhile
\* (try_complete against the snapshot service_maintenance acknowledges).
GraceSound ==
    \A i \in Issuers : ipc[i] = "grace" =>
        \A c \in targets[i], k \in call[i].classes :
            flushed[c][k] >= stamp[i]

\* Somebody still owns the unacknowledged epoch of class k at CPU c.
Covered(c, k) ==
    \/ Maint \in pending[c]
    \/ hpc[c] = "load" /\ k \in todo[c]
    \/ hpc[c] \in {"load", "maintain"} /\ snap[c][k] >= req[c][k]
    \/ hpc[c] = "ack" /\ k \in todo[c] /\ snap[c][k] >= req[c][k]
    \/ \E i \in Issuers : ipc[i] \in {"raise", "post"} /\ Lowest(c, left[i])

\* Published work is never forgotten: while a class has an unacknowledged
\* epoch, the maintenance reason is pending, or a service that has it in, or
\* will read it into, its snapshot is running, or its publisher has yet to
\* post the reason ("either appears in the fixed service snapshot or leaves a
\* newly posted reason").
NoLostWork ==
    \A c \in Cpus, k \in Classes : req[c][k] > done[c][k] => Covered(c, k)

\* complete_offline commits only a drained CPU: an offline CPU has no
\* admission, no pending reason and no unacknowledged epoch, and none can be
\* published to it.
OfflineDrained ==
    \A c \in Cpus : state[c] = "offline" =>
        adm[c] = {} /\ pending[c] = {} /\ Drained(c)

\* A live request pins its issuer: its CPU cannot commit offline before the
\* request is dropped, and no target it published can either before it
\* acknowledged the request.
RequestPins ==
    \A i \in Issuers : ipc[i] = "held" =>
        /\ state[call[i].cpu] # "offline"
        /\ \A c \in targets[i] : TargetPending(i, c) => state[c] # "offline"

\* Epochs never move backwards, and a completed epoch never overtakes the one
\* requested (the fetch_max on both words and the checked global increment).
EpochsMonotone ==
    [][/\ epoch' >= epoch
       /\ \A c \in Cpus, k \in Classes :
             /\ req'[c][k] >= req[c][k] /\ done'[c][k] >= done[c][k]
             /\ done'[c][k] <= req'[c][k] /\ req'[c][k] <= epoch']_vars

\* Every request reaches its grace with the kicks that 0 -> 1 edges ask for,
\* without any recovery kick: a publisher whose bit was already set relies on
\* the kick of the one that set it.
GraceReached == \A i \in Issuers : ipc[i] = "held" ~> ipc[i] = "grace"
=============================================================================
