-------------------------- MODULE TlbShootdownProofs --------------------------
(***************************************************************************)
(* TlbShootdown: type correctness, which steps leave which words alone,    *)
(* and from these: epochs only grow, a grace is never early, published     *)
(* work is never forgotten, a CPU goes offline drained.                    *)
(***************************************************************************)
EXTENDS TlbShootdown, TLAPS

\* A leaf that names no prover is one for Zenon.
USE ZenonT(60)

\* The initial mailboxes and contexts have their types.
LEMMA TypeInit == Init => TypeOK
    BY SMTT(30), Z3T(30), ShootdownAssumption
    DEF Init, TypeOK, Zero, Empty, AtRest, NoCall, Calls, IssuerLabels,
        ControlLabels

\* Every access keeps the types.
LEMMA TypeNext == TypeOK /\ [Next]_vars => TypeOK'
<1> SUFFICES ASSUME TypeOK, [Next]_vars PROVE TypeOK' OBVIOUS
<1> USE ShootdownAssumption DEF TypeOK, IssuerLabels, ControlLabels, Goto
<1>1. ASSUME NEW i \in Issuers, NEW c \in Cpus, AdmitReason(i, c) PROVE TypeOK'
    BY <1>1 DEF AdmitReason, Admit, handler, Calls
<1>2. ASSUME NEW i \in Issuers, NEW c \in Cpus, NEW ks \in SUBSET Classes,
             IssueAll(i, c, ks)
      PROVE  TypeOK'
    BY <1>2 DEF IssueAll, Admit, handler, Calls
<1>3. ASSUME NEW i \in Issuers, NEW c \in Cpus, NEW ks \in SUBSET Classes,
             NEW ts \in SUBSET Cpus, IssueTo(i, c, ks, ts)
      PROVE  TypeOK'
    BY <1>3 DEF IssueTo, Admit, handler, Calls
<1>4. ASSUME NEW i \in Issuers, AdmitTarget(i) PROVE TypeOK'
  <2>1. adm' \in [Cpus -> SUBSET Issuers]
    BY SMTT(30), Z3T(30), <1>4 DEF AdmitTarget, Admit
  <2>2. left' \in [Issuers -> SUBSET Cpus]
    BY SMTT(30), Z3T(30), <1>4 DEF AdmitTarget, Calls
  <2>3. /\ ipc' \in [Issuers -> IssuerLabels]
        /\ \A j \in Issuers : ipc'[j] # "idle" => ipc[j] # "idle"
    BY <1>4 DEF AdmitTarget
  <2> QED BY <1>4, <2>1, <2>2, <2>3 DEF AdmitTarget, handler
<1>5. ASSUME NEW i \in Issuers, TakeEpoch(i) PROVE TypeOK'
    BY SMTT(30), Z3T(30), <1>5 DEF TakeEpoch, handler
<1>6. ASSUME NEW i \in Issuers, VisitTarget(i) PROVE TypeOK'
  <2>1. adm' \in [Cpus -> SUBSET Issuers]
    <3>1. UNCHANGED adm \/ \E c \in Cpus : Admit(i, c)
      BY <1>6 DEF VisitTarget
    <3>2. adm \in [Cpus -> SUBSET Issuers]
      OBVIOUS
    <3> HIDE DEF TypeOK
    <3> QED BY <3>1, <3>2 DEF Admit
  <2>2. left' \in [Issuers -> SUBSET Cpus]
    <3>1. UNCHANGED left \/ \E c \in Cpus : left' = [left EXCEPT ![i] = @ \ {c}]
      BY <1>6 DEF VisitTarget
    <3>2. left \in [Issuers -> SUBSET Cpus]
      OBVIOUS
    <3> HIDE DEF TypeOK
    <3> QED BY <3>1, <3>2
  <2>3. raise' \in [Issuers -> SUBSET Classes]
    <3>1. UNCHANGED raise \/ raise' = [raise EXCEPT ![i] = call[i].classes]
      BY <1>6 DEF VisitTarget
    <3>2. raise \in [Issuers -> SUBSET Classes] /\ call[i].classes \in SUBSET Classes
      BY DEF Calls
    <3> HIDE DEF TypeOK
    <3> QED BY <3>1, <3>2
  <2>4. /\ ipc' \in [Issuers -> IssuerLabels]
        /\ \A j \in Issuers : ipc'[j] # "idle" => ipc[j] # "idle"
    <3>1. /\ ipc[i] = "visit"
          /\ \/ UNCHANGED ipc
             \/ \E l \in {"held", "drop", "raise", "unwind"} : Goto(i, l)
      BY <1>6 DEF VisitTarget
    <3>2. ipc \in [Issuers -> IssuerLabels]
      OBVIOUS
    <3> HIDE DEF TypeOK
    <3> QED BY <3>1, <3>2
  <2> QED BY <1>6, <2>1, <2>2, <2>3, <2>4 DEF VisitTarget, handler
<1>7. ASSUME NEW i \in Issuers, RaiseEpoch(i) PROVE TypeOK'
  <2>1. req' \in [Cpus -> [Classes -> Nat]]
    <3>1. PICK c \in Cpus, k \in Classes :
              req' = [req EXCEPT ![c][k] = Larger(@, stamp[i])]
      BY <1>7 DEF RaiseEpoch
    <3>2. req \in [Cpus -> [Classes -> Nat]] /\ stamp \in [Issuers -> Nat]
      OBVIOUS
    <3> HIDE DEF TypeOK
    <3> QED BY <3>1, <3>2 DEF Larger
  <2>2. raise' \in [Issuers -> SUBSET Classes]
    BY SMTT(30), Z3T(30), <1>7 DEF RaiseEpoch
  <2>3. /\ ipc' \in [Issuers -> IssuerLabels]
        /\ \A j \in Issuers : ipc'[j] # "idle" => ipc[j] # "idle"
    BY <1>7 DEF RaiseEpoch
  <2> QED BY <1>7, <2>1, <2>2, <2>3 DEF RaiseEpoch, handler
<1>8. ASSUME NEW i \in Issuers, PostMaintenance(i) PROVE TypeOK'
    BY SMTT(30), Z3T(30), <1>8 DEF PostMaintenance, Post, handler
<1>9. ASSUME NEW i \in Issuers, DropTarget(i) PROVE TypeOK'
  <2>1. adm' \in [Cpus -> SUBSET Issuers]
    BY SMTT(30), Z3T(30), <1>9 DEF DropTarget, Release
  <2>2. /\ ipc' \in [Issuers -> IssuerLabels]
        /\ \A j \in Issuers : ipc'[j] # "idle" => ipc[j] # "idle"
    BY <1>9 DEF DropTarget
  <2> QED BY <1>9, <2>1, <2>2 DEF DropTarget, handler
<1>10. ASSUME NEW i \in Issuers, Unwind(i) PROVE TypeOK'
  <2>1. adm' \in [Cpus -> SUBSET Issuers]
    BY SMTT(30), Z3T(30), <1>10 DEF Unwind, Release
  <2>2. CASE UNCHANGED issuer
    BY <1>10, <2>1, <2>2 DEF Unwind, issuer, handler
  <2>3. CASE EndCall(i)
    BY <1>10, <2>1, <2>3 DEF Unwind, EndCall, NoCall, Calls, handler
  <2> QED BY <1>10, <2>2, <2>3 DEF Unwind
<1>11. ASSUME NEW i \in Issuers, SendKick(i) PROVE TypeOK'
    BY SMTT(30), Z3T(30), <1>11 DEF SendKick, mailbox, handler
<1>12. ASSUME NEW i \in Issuers, NEW r \in Reasons, PostReason(i, r)
      PROVE  TypeOK'
  <2>1. call[i].cpu \in Cpus
    BY <1>12 DEF PostReason, Post
  <2>2. pending' \in [Cpus -> SUBSET Reasons]
    BY <1>12, <2>1 DEF PostReason, Post
  <2>3. kicks' \in [Issuers -> SUBSET Cpus]
    BY <1>12, <2>1 DEF PostReason, Post
  <2> QED BY <1>12, <2>2, <2>3 DEF PostReason, Post, handler
<1>13. ASSUME NEW i \in Issuers, ReleaseReason(i) PROVE TypeOK'
    BY <1>13 DEF ReleaseReason, Release, handler
<1>14. ASSUME NEW i \in Issuers, EndPost(i) PROVE TypeOK'
    BY <1>14 DEF EndPost, EndCall, NoCall, mailbox, handler, Calls
<1>15. ASSUME NEW i \in Issuers, RecoveryKick(i) PROVE TypeOK'
    BY <1>15 DEF RecoveryKick, mailbox, issuer, handler
<1>16. ASSUME NEW i \in Issuers, TryComplete(i) PROVE TypeOK'
    BY <1>16 DEF TryComplete, mailbox, handler
<1>17. ASSUME NEW i \in Issuers, DropRequest(i) PROVE TypeOK'
    BY <1>17 DEF DropRequest, mailbox, handler
<1>18. ASSUME NEW c \in Cpus, TakeReasons(c) PROVE TypeOK'
    BY <1>18 DEF TakeReasons, issuer
<1>19. ASSUME NEW c \in Cpus, LoadRequested(c) PROVE TypeOK'
    BY SMTT(30), Z3T(30), <1>19 DEF LoadRequested, mailbox, issuer
<1>20. ASSUME NEW c \in Cpus, MaintainLocal(c) PROVE TypeOK'
  <2>1. flushed' \in [Cpus -> [Classes -> Nat]]
    BY <1>20 DEF MaintainLocal, mailbox
  <2>2. hpc' \in [Cpus -> {"idle", "load", "maintain", "ack"}]
    <3>1. \E l \in {"idle", "ack"} : hpc' = [hpc EXCEPT ![c] = l]
      BY <1>20 DEF MaintainLocal, EndService
    <3>2. hpc \in [Cpus -> {"idle", "load", "maintain", "ack"}]
      OBVIOUS
    <3> HIDE DEF TypeOK
    <3> QED BY <3>1, <3>2
  <2>3. snap' \in [Cpus -> [Classes -> Nat]] /\ todo' \in [Cpus -> SUBSET Classes]
    BY SMTT(30), Z3T(30), <1>20 DEF MaintainLocal, EndService, Zero
  <2> QED BY <1>20, <2>1, <2>2, <2>3 DEF MaintainLocal, mailbox, issuer
<1>21. ASSUME NEW c \in Cpus, Acknowledge(c) PROVE TypeOK'
  <2>1. done' \in [Cpus -> [Classes -> Nat]]
    BY SMTT(30), Z3T(30), <1>21 DEF Acknowledge, Larger
  <2>2. hpc' \in [Cpus -> {"idle", "load", "maintain", "ack"}]
    BY SMTT(30), Z3T(30), <1>21 DEF Acknowledge, EndService
  <2>3. todo' \in [Cpus -> SUBSET Classes]
    BY SMTT(30), Z3T(30), <1>21 DEF Acknowledge
  <2>4. snap' \in [Cpus -> [Classes -> Nat]]
    <3>1. UNCHANGED snap \/ EndService(c)
      BY <1>21 DEF Acknowledge
    <3> QED BY SMTT(30), Z3T(30), <3>1 DEF EndService, Zero
  <2> QED BY <1>21, <2>1, <2>2, <2>3, <2>4 DEF Acknowledge, issuer
<1>22. ASSUME NEW x \in Controllers, NEW c \in Cpus, CheckMailbox(x, c)
      PROVE  TypeOK'
    BY <1>22 DEF CheckMailbox, ControlGoto, mailbox, issuer, handler
<1>23. ASSUME NEW x \in Controllers, NEW c \in Cpus, BeginOffline(x, c)
      PROVE  TypeOK'
    BY <1>23 DEF BeginOffline, issuer, handler
<1>24. ASSUME NEW x \in Controllers, NEW c \in Cpus, CheckDraining(x, c)
      PROVE  TypeOK'
    BY <1>24 DEF CheckDraining, ControlGoto, mailbox, issuer, handler
<1>25. ASSUME NEW x \in Controllers, PublishOnline(x) PROVE TypeOK'
    BY <1>25 DEF PublishOnline, ControlDone, AtRest, issuer, handler
<1>26. ASSUME NEW x \in Controllers, CheckEpochs(x) PROVE TypeOK'
  <2>1. CASE ControlDone(x)
    BY <1>26, <2>1 DEF CheckEpochs, ControlDone, AtRest, mailbox, issuer, handler
  <2>2. CASE ControlGoto(x, ctl[x].cpu, "reasons")
    BY <1>26, <2>2 DEF CheckEpochs, ControlGoto, mailbox, issuer, handler
  <2> QED BY <1>26, <2>1, <2>2 DEF CheckEpochs
<1>27. ASSUME NEW x \in Controllers, CheckReasons(x) PROVE TypeOK'
  <2>1. CASE ControlDone(x)
    BY <1>27, <2>1 DEF CheckReasons, ControlDone, AtRest, mailbox, issuer, handler
  <2>2. CASE ControlGoto(x, ctl[x].cpu, "commit")
    BY <1>27, <2>2 DEF CheckReasons, ControlGoto, mailbox, issuer, handler
  <2> QED BY <1>27, <2>1, <2>2 DEF CheckReasons
<1>28. ASSUME NEW x \in Controllers, CommitOffline(x) PROVE TypeOK'
    BY <1>28 DEF CommitOffline, ControlDone, AtRest, issuer, handler
<1>29. CASE UNCHANGED vars
    BY <1>29 DEF vars, mailbox, issuer, handler
<1> QED
    BY <1>1, <1>2, <1>3, <1>4, <1>5, <1>6, <1>7, <1>8, <1>9, <1>10, <1>11,
       <1>12, <1>13, <1>14, <1>15, <1>16, <1>17, <1>18, <1>19, <1>20, <1>21,
       <1>22, <1>23, <1>24, <1>25, <1>26, <1>27, <1>28, <1>29
    DEF Next, Publish, Handle, Lifecycle

\* Every word and every local of every context keeps its type.
THEOREM TypeCorrect == Safety => []TypeOK
    BY TypeInit, TypeNext, PTL DEF Safety

(***************************************************************************)
(* Frames.                                                                 *)
(***************************************************************************)

\* The steps of issuers.
IssuerNext ==
    \/ \E i \in Issuers, c \in Cpus : AdmitReason(i, c)
    \/ \E i \in Issuers, c \in Cpus, ks \in SUBSET Classes : IssueAll(i, c, ks)
    \/ \E i \in Issuers, c \in Cpus, ks \in SUBSET Classes, ts \in SUBSET Cpus :
           IssueTo(i, c, ks, ts)
    \/ \E i \in Issuers : Publish(i) \/ RecoveryKick(i) \/ TryComplete(i)
                          \/ DropRequest(i)

\* The steps that touch an epoch, a snapshot or the ghost.
EpochNext ==
    \/ \E i \in Issuers : TakeEpoch(i) \/ RaiseEpoch(i) \/ Unwind(i) \/ EndPost(i)
    \/ \E c \in Cpus : Handle(c)

\* The steps that touch what NoLostWork speaks of.
WorkNext ==
    \/ \E i \in Issuers : RaiseEpoch(i) \/ PostMaintenance(i)
    \/ \E i \in Issuers, r \in Reasons : PostReason(i, r)
    \/ \E c \in Cpus : Handle(c)

SameEpochs == UNCHANGED <<req, done, epoch, flushed, stamp, handler>>

SameWork ==
    /\ UNCHANGED <<pending, req, done, handler>>
    /\ \A j \in Issuers : ipc[j] \in {"raise", "post"} =>
          ipc'[j] = ipc[j] /\ left'[j] = left[j]

SameGraces ==
    /\ UNCHANGED done
    /\ \A j \in Issuers : ipc'[j] = "grace" =>
          /\ ipc[j] = "grace" /\ targets'[j] = targets[j]
          /\ call'[j] = call[j] /\ stamp'[j] = stamp[j]

Frames ==
    /\ EpochNext \/ SameEpochs
    /\ WorkNext \/ SameWork
    /\ (\E i \in Issuers : TryComplete(i)) \/ (\E c \in Cpus : Acknowledge(c))
       \/ SameGraces
    /\ (\E x \in Controllers : Lifecycle(x)) \/ UNCHANGED <<state, ctl>>

\* A step that is not one of the listed accesses leaves the words alone.
LEMMA FrameStep == ASSUME TypeOK, [Next]_vars PROVE Frames
<1>type. ipc \in [Issuers -> IssuerLabels] /\ left \in [Issuers -> SUBSET Cpus]
    BY DEF TypeOK
<1>type2. /\ targets \in [Issuers -> SUBSET Cpus] /\ stamp \in [Issuers -> Nat]
          /\ call \in [Issuers -> Calls]
    BY DEF TypeOK
<1> USE <1>type, <1>type2 DEF Goto, IssuerLabels
<1>1. ASSUME NEW i \in Issuers, NEW c \in Cpus, AdmitReason(i, c) PROVE Frames
    BY <1>1 DEF AdmitReason, handler, Frames, SameEpochs, SameWork, SameGraces
<1>2. ASSUME NEW i \in Issuers, NEW c \in Cpus, NEW ks \in SUBSET Classes,
             IssueAll(i, c, ks)
      PROVE  Frames
    BY <1>2 DEF IssueAll, handler, Frames, SameEpochs, SameWork, SameGraces
<1>3. ASSUME NEW i \in Issuers, NEW c \in Cpus, NEW ks \in SUBSET Classes,
             NEW ts \in SUBSET Cpus, IssueTo(i, c, ks, ts)
      PROVE  Frames
    BY <1>3 DEF IssueTo, handler, Frames, SameEpochs, SameWork, SameGraces
<1>4. ASSUME NEW i \in Issuers, AdmitTarget(i) PROVE Frames
    BY <1>4 DEF AdmitTarget, handler, Frames, SameEpochs, SameWork, SameGraces
<1>5. ASSUME NEW i \in Issuers, TakeEpoch(i) PROVE Frames
    BY <1>5 DEF TakeEpoch, handler, Frames, EpochNext, SameWork, SameGraces
<1>6. ASSUME NEW i \in Issuers, VisitTarget(i) PROVE Frames
    BY <1>6 DEF VisitTarget, handler, Frames, SameEpochs, SameWork, SameGraces
<1>7. ASSUME NEW i \in Issuers, RaiseEpoch(i) PROVE Frames
    BY <1>7 DEF RaiseEpoch, handler, Frames, EpochNext, WorkNext, SameGraces
<1>8. ASSUME NEW i \in Issuers, PostMaintenance(i) PROVE Frames
    BY <1>8 DEF PostMaintenance, Post, handler, Frames, SameEpochs, WorkNext,
       SameGraces
<1>9. ASSUME NEW i \in Issuers, DropTarget(i) PROVE Frames
    BY <1>9 DEF DropTarget, handler, Frames, SameEpochs, SameWork, SameGraces
<1>10. ASSUME NEW i \in Issuers, Unwind(i) PROVE Frames
    BY <1>10 DEF Unwind, EndCall, NoCall, issuer, handler, Frames, EpochNext,
       SameWork, SameGraces
<1>11. ASSUME NEW i \in Issuers, SendKick(i) PROVE Frames
    BY <1>11 DEF SendKick, mailbox, handler, Frames, SameEpochs, SameWork,
       SameGraces
<1>12. ASSUME NEW i \in Issuers, NEW r \in Reasons, PostReason(i, r)
      PROVE  Frames
    BY <1>12 DEF PostReason, Post, handler, Frames, SameEpochs, WorkNext, SameGraces
<1>13. ASSUME NEW i \in Issuers, ReleaseReason(i) PROVE Frames
    BY <1>13 DEF ReleaseReason, handler, Frames, SameEpochs, SameWork,
       SameGraces
<1>14. ASSUME NEW i \in Issuers, EndPost(i) PROVE Frames
    BY <1>14 DEF EndPost, EndCall, NoCall, mailbox, handler, Frames,
       EpochNext, SameWork, SameGraces
<1>15. ASSUME NEW i \in Issuers, RecoveryKick(i) PROVE Frames
    BY <1>15 DEF RecoveryKick, mailbox, issuer, handler, Frames, SameEpochs,
       SameWork, SameGraces
<1>16. ASSUME NEW i \in Issuers, TryComplete(i) PROVE Frames
    BY <1>16 DEF TryComplete, mailbox, handler, Frames, SameEpochs, SameWork
<1>17. ASSUME NEW i \in Issuers, DropRequest(i) PROVE Frames
    BY <1>17 DEF DropRequest, mailbox, handler, Frames, SameEpochs, SameWork,
       SameGraces
<1>18. ASSUME NEW c \in Cpus, TakeReasons(c) PROVE Frames
    BY <1>18 DEF TakeReasons, issuer, Frames, EpochNext, WorkNext, Handle,
       SameGraces
<1>19. ASSUME NEW c \in Cpus, LoadRequested(c) PROVE Frames
    BY <1>19 DEF LoadRequested, mailbox, issuer, Frames, EpochNext, WorkNext,
       Handle, SameGraces
<1>20. ASSUME NEW c \in Cpus, MaintainLocal(c) PROVE Frames
    BY <1>20 DEF MaintainLocal, mailbox, issuer, Frames, EpochNext, WorkNext,
       Handle, SameGraces
<1>21. ASSUME NEW c \in Cpus, Acknowledge(c) PROVE Frames
    BY <1>21 DEF Acknowledge, issuer, Frames, EpochNext, WorkNext, Handle
<1>22. ASSUME NEW x \in Controllers, NEW c \in Cpus, CheckMailbox(x, c)
      PROVE  Frames
    BY <1>22 DEF CheckMailbox, Lifecycle, mailbox, issuer, handler, Frames,
       SameEpochs, SameWork, SameGraces
<1>23. ASSUME NEW x \in Controllers, NEW c \in Cpus, BeginOffline(x, c)
      PROVE  Frames
    BY <1>23 DEF BeginOffline, Lifecycle, issuer, handler, Frames, SameEpochs,
       SameWork, SameGraces
<1>24. ASSUME NEW x \in Controllers, NEW c \in Cpus, CheckDraining(x, c)
      PROVE  Frames
    BY <1>24 DEF CheckDraining, Lifecycle, mailbox, issuer, handler, Frames,
       SameEpochs, SameWork, SameGraces
<1>25. ASSUME NEW x \in Controllers, PublishOnline(x) PROVE Frames
    BY <1>25 DEF PublishOnline, Lifecycle, issuer, handler, Frames,
       SameEpochs, SameWork, SameGraces
<1>26. ASSUME NEW x \in Controllers, CheckEpochs(x) PROVE Frames
    BY <1>26 DEF CheckEpochs, Lifecycle, mailbox, issuer, handler, Frames,
       SameEpochs, SameWork, SameGraces
<1>27. ASSUME NEW x \in Controllers, CheckReasons(x) PROVE Frames
    BY <1>27 DEF CheckReasons, Lifecycle, mailbox, issuer, handler, Frames,
       SameEpochs, SameWork, SameGraces
<1>28. ASSUME NEW x \in Controllers, CommitOffline(x) PROVE Frames
    BY <1>28 DEF CommitOffline, Lifecycle, issuer, handler, Frames,
       SameEpochs, SameWork, SameGraces
<1>29. CASE UNCHANGED vars
    BY <1>29 DEF vars, mailbox, issuer, Frames, SameEpochs, SameWork,
       SameGraces
<1> QED
    BY <1>1, <1>2, <1>3, <1>4, <1>5, <1>6, <1>7, <1>8, <1>9, <1>10, <1>11,
       <1>12, <1>13, <1>14, <1>15, <1>16, <1>17, <1>18, <1>19, <1>20, <1>21,
       <1>22, <1>23, <1>24, <1>25, <1>26, <1>27, <1>28, <1>29
    DEF Next, Publish, Handle, Lifecycle

\* Only issuer accesses change admissions, requested epochs and issuer locals.
LEMMA IssuerFrame ==
    ASSUME [Next]_vars PROVE IssuerNext \/ UNCHANGED <<adm, req, issuer>>
<1>1. ASSUME NEW c \in Cpus, Handle(c) PROVE UNCHANGED <<adm, req, issuer>>
    BY <1>1 DEF Handle, TakeReasons, LoadRequested, MaintainLocal, Acknowledge,
       mailbox
<1>2. ASSUME NEW x \in Controllers, Lifecycle(x) PROVE UNCHANGED <<adm, req, issuer>>
    BY <1>2 DEF Lifecycle, CheckMailbox, BeginOffline, CheckDraining,
       PublishOnline, CheckEpochs, CheckReasons, CommitOffline, mailbox
<1>3. CASE UNCHANGED vars
    BY <1>3 DEF vars, mailbox
<1> QED BY <1>1, <1>2, <1>3 DEF Next, IssuerNext

-----------------------------------------------------------------------------
(***************************************************************************)
(* Epochs: a completed epoch trails the local operation that covers it,    *)
(* the snapshot trails the request, and everything trails next_epoch.      *)
(***************************************************************************)

EpochOrder ==
    /\ \A c \in Cpus, k \in Classes :
          /\ done[c][k] <= req[c][k] /\ req[c][k] <= epoch
          /\ snap[c][k] <= req[c][k]
          /\ done[c][k] <= flushed[c][k] /\ flushed[c][k] <= epoch
    /\ \A c \in Cpus : hpc[c] = "ack" =>
          \A k \in todo[c] : snap[c][k] <= flushed[c][k]
    /\ \A i \in Issuers : stamp[i] <= epoch

\* All epoch words start at zero, in order.
LEMMA EpochInit == Init => EpochOrder
    BY SMTT(30), Z3T(30) DEF Init, EpochOrder, Zero

\* Every access keeps completed, flushed, requested and next epochs in order.
LEMMA EpochStep == TypeOK /\ EpochOrder /\ [Next]_vars => EpochOrder'
<1> SUFFICES ASSUME TypeOK, EpochOrder, [Next]_vars PROVE EpochOrder' OBVIOUS
<1>type. /\ req \in [Cpus -> [Classes -> Nat]] /\ done \in [Cpus -> [Classes -> Nat]]
         /\ snap \in [Cpus -> [Classes -> Nat]]
         /\ flushed \in [Cpus -> [Classes -> Nat]]
         /\ epoch \in Nat /\ stamp \in [Issuers -> Nat]
         /\ todo \in [Cpus -> SUBSET Classes]
         /\ hpc \in [Cpus -> {"idle", "load", "maintain", "ack"}]
    BY DEF TypeOK
<1> USE <1>type DEF EpochOrder
<1>1. ASSUME NEW i \in Issuers, TakeEpoch(i) PROVE EpochOrder'
  <2>1. \/ epoch' = epoch + 1 /\ stamp' = [stamp EXCEPT ![i] = epoch + 1]
        \/ UNCHANGED <<epoch, stamp>>
    BY <1>1 DEF TakeEpoch
  <2>2. epoch <= epoch' /\ \A j \in Issuers : stamp'[j] <= epoch'
    <3>1. CASE UNCHANGED <<epoch, stamp>>
      BY SMTT(30), Z3T(30), <3>1
    <3>2. CASE epoch' = epoch + 1 /\ stamp' = [stamp EXCEPT ![i] = epoch + 1]
      <4>1. \A j \in Issuers : stamp'[j] = epoch + 1 \/ stamp'[j] = stamp[j]
        BY <3>2
      <4> QED BY SMTT(30), Z3T(30), <3>2, <4>1
    <3> QED BY <2>1, <3>1, <3>2
  <2>3. UNCHANGED <<req, done, snap, flushed, hpc, todo>>
    BY <1>1 DEF TakeEpoch, handler
  <2>4. epoch' \in Nat
    BY SMTT(30), Z3T(30), <2>1
  <2> QED BY SMTT(30), Z3T(30), <2>2, <2>3, <2>4
<1>2. ASSUME NEW i \in Issuers, RaiseEpoch(i) PROVE EpochOrder'
  <2>1. PICK c \in Cpus, k \in Classes :
            req' = [req EXCEPT ![c][k] = Larger(@, stamp[i])]
    BY <1>2 DEF RaiseEpoch
  <2>2. \A d \in Cpus, m \in Classes : req[d][m] <= req'[d][m] /\ req'[d][m] <= epoch
    BY SMTT(30), Z3T(30), <2>1 DEF Larger
  <2>3. UNCHANGED <<done, epoch, stamp, snap, flushed, hpc, todo>>
    BY <1>2 DEF RaiseEpoch, handler
  <2>4. \A d \in Cpus, m \in Classes : req'[d][m] \in Nat
    BY SMTT(30), Z3T(30), <2>1 DEF Larger
  <2> QED BY SMTT(30), Z3T(30), <2>2, <2>3, <2>4
<1>3. ASSUME NEW i \in Issuers, Unwind(i) PROVE EpochOrder'
    BY SMTT(30), Z3T(30), <1>3 DEF Unwind, Release, EndCall, NoCall, issuer, handler
<1>4. ASSUME NEW i \in Issuers, EndPost(i) PROVE EpochOrder'
    BY SMTT(30), Z3T(30), <1>4 DEF EndPost, EndCall, NoCall, mailbox, handler
<1>5. ASSUME NEW c \in Cpus, TakeReasons(c) PROVE EpochOrder'
    BY <1>5 DEF TakeReasons, issuer
<1>6. ASSUME NEW c \in Cpus, LoadRequested(c) PROVE EpochOrder'
    BY SMTT(30), Z3T(30), <1>6 DEF LoadRequested, mailbox, issuer
<1>7. ASSUME NEW c \in Cpus, MaintainLocal(c) PROVE EpochOrder'
    BY SMTT(30), Z3T(30), <1>7 DEF MaintainLocal, EndService, Zero, mailbox, issuer
<1>8. ASSUME NEW c \in Cpus, Acknowledge(c) PROVE EpochOrder'
  <2>1. PICK k \in todo[c] :
            /\ done' = [done EXCEPT ![c][k] = Larger(@, snap[c][k])]
            /\ todo' = [todo EXCEPT ![c] = @ \ {k}]
            /\ EndService(c) \/ UNCHANGED <<hpc, snap>>
    BY <1>8 DEF Acknowledge, Lowest
  <2>2. hpc[c] = "ack" /\ UNCHANGED <<req, epoch, stamp, flushed>>
    BY <1>8 DEF Acknowledge, issuer
  <2>3. \A d \in Cpus, m \in Classes :
            done'[d][m] <= req[d][m] /\ done'[d][m] <= flushed[d][m]
    BY <2>1, <2>2 DEF Larger
  <2>4. CASE UNCHANGED <<hpc, snap>>
    BY <2>1, <2>2, <2>3, <2>4
  <2>5. CASE EndService(c)
    <3>1. \A d \in Cpus, m \in Classes : snap'[d][m] = snap[d][m] \/ snap'[d][m] = 0
      BY <2>5 DEF EndService, Zero
    <3>2. \A d \in Cpus : hpc'[d] = "ack" =>
              d # c /\ hpc[d] = "ack" /\ todo'[d] = todo[d]
      BY <2>1, <2>5 DEF EndService
    <3>3. \A d \in Cpus : d # c => snap'[d] = snap[d]
      BY <2>5 DEF EndService
    <3>4. \A d \in Cpus, m \in Classes : snap'[d][m] <= req[d][m]
      <4> TAKE d \in Cpus, m \in Classes
      <4>1. snap[d][m] <= req[d][m] /\ 0 <= req[d][m]
        BY SMTT(30), Z3T(30)
      <4> QED BY <3>1, <4>1
    <3>5. \A d \in Cpus : hpc'[d] = "ack" =>
              \A m \in todo'[d] : snap'[d][m] <= flushed[d][m]
      BY <3>2, <3>3
    <3> QED BY <2>2, <2>3, <3>4, <3>5
  <2> QED BY <2>1, <2>4, <2>5
<1>9. CASE SameEpochs
    BY <1>9 DEF SameEpochs, handler
<1> QED
    BY <1>1, <1>2, <1>3, <1>4, <1>5, <1>6, <1>7, <1>8, <1>9, FrameStep
    DEF Frames, EpochNext, Handle

\* The words only grow.
LEMMA Monotone ==
    ASSUME TypeOK, EpochOrder, [Next]_vars
    PROVE  /\ epoch <= epoch'
           /\ \A c \in Cpus, k \in Classes :
                 req[c][k] <= req'[c][k] /\ done[c][k] <= done'[c][k]
<1> DEFINE Grow == /\ epoch <= epoch'
                   /\ \A c \in Cpus, k \in Classes :
                         req[c][k] <= req'[c][k] /\ done[c][k] <= done'[c][k]
<1>type. /\ req \in [Cpus -> [Classes -> Nat]] /\ done \in [Cpus -> [Classes -> Nat]]
         /\ epoch \in Nat /\ stamp \in [Issuers -> Nat]
         /\ snap \in [Cpus -> [Classes -> Nat]]
    BY DEF TypeOK
<1> SUFFICES Grow OBVIOUS
<1> USE <1>type
<1>1. ASSUME NEW i \in Issuers, TakeEpoch(i) PROVE Grow
    BY SMTT(30), Z3T(30), <1>1 DEF TakeEpoch
<1>2. ASSUME NEW i \in Issuers, RaiseEpoch(i) PROVE Grow
  <2>1. PICK c \in Cpus, k \in Classes :
            req' = [req EXCEPT ![c][k] = Larger(@, stamp[i])]
    BY <1>2 DEF RaiseEpoch
  <2>2. \A d \in Cpus, m \in Classes : req[d][m] <= req'[d][m]
    BY SMTT(30), Z3T(30), <2>1 DEF Larger
  <2> QED BY SMTT(30), Z3T(30), <1>2, <2>2 DEF RaiseEpoch
<1>3. ASSUME NEW i \in Issuers, Unwind(i) PROVE Grow
  <2>1. UNCHANGED <<req, done, epoch>>
    BY <1>3 DEF Unwind
  <2> QED BY SMTT(30), Z3T(30), <2>1
<1>4. ASSUME NEW i \in Issuers, EndPost(i) PROVE Grow
  <2>1. UNCHANGED <<req, done, epoch>>
    BY <1>4 DEF EndPost, mailbox
  <2> QED BY SMTT(30), Z3T(30), <2>1
<1>5. ASSUME NEW c \in Cpus, TakeReasons(c) PROVE Grow
  <2>1. UNCHANGED <<req, done, epoch>>
    BY <1>5 DEF TakeReasons
  <2> QED BY SMTT(30), Z3T(30), <2>1
<1>6. ASSUME NEW c \in Cpus, LoadRequested(c) PROVE Grow
  <2>1. UNCHANGED <<req, done, epoch>>
    BY <1>6 DEF LoadRequested, mailbox
  <2> QED BY SMTT(30), Z3T(30), <2>1
<1>7. ASSUME NEW c \in Cpus, MaintainLocal(c) PROVE Grow
  <2>1. UNCHANGED <<req, done, epoch>>
    BY <1>7 DEF MaintainLocal, mailbox
  <2> QED BY SMTT(30), Z3T(30), <2>1
<1>8. ASSUME NEW c \in Cpus, Acknowledge(c) PROVE Grow
  <2>1. PICK k \in Classes : done' = [done EXCEPT ![c][k] = Larger(@, snap[c][k])]
    BY <1>8 DEF Acknowledge
  <2>2. \A d \in Cpus, m \in Classes : done[d][m] <= done'[d][m]
    BY SMTT(30), Z3T(30), <2>1 DEF Larger
  <2> QED BY SMTT(30), Z3T(30), <1>8, <2>2 DEF Acknowledge
<1>9. CASE SameEpochs
    BY SMTT(30), Z3T(30), <1>9 DEF SameEpochs
<1> QED
    BY <1>1, <1>2, <1>3, <1>4, <1>5, <1>6, <1>7, <1>8, <1>9, FrameStep
    DEF Frames, EpochNext, Handle

\* Epochs never move backwards and a completed epoch never overtakes the one
\* requested: fetch_max on both words, the checked increment of next_epoch.
THEOREM EpochsOnlyGrow == Safety => EpochsMonotone
<1>1. Init => TypeOK /\ EpochOrder
    BY TypeInit, EpochInit
<1>2. TypeOK /\ EpochOrder /\ [Next]_vars => TypeOK' /\ EpochOrder'
    BY TypeNext, EpochStep
<1>3. ASSUME TypeOK, EpochOrder, TypeOK', EpochOrder', [Next]_vars
      PROVE  /\ epoch' >= epoch
             /\ \A c \in Cpus, k \in Classes :
                   /\ req'[c][k] >= req[c][k] /\ done'[c][k] >= done[c][k]
                   /\ done'[c][k] <= req'[c][k] /\ req'[c][k] <= epoch'
  <2>1. /\ epoch <= epoch'
        /\ \A c \in Cpus, k \in Classes :
              req[c][k] <= req'[c][k] /\ done[c][k] <= done'[c][k]
    BY <1>3, Monotone
  <2>2. \A c \in Cpus, k \in Classes :
            done'[c][k] <= req'[c][k] /\ req'[c][k] <= epoch'
    BY <1>3 DEF EpochOrder
  <2> QED BY <2>1, <2>2
<1> QED BY <1>1, <1>2, <1>3, PTL DEF Safety, EpochsMonotone

(***************************************************************************)
(* Grace: what try_complete saw stays true, and a completed epoch is never *)
(* ahead of the local operation it stands for.                             *)
(***************************************************************************)

GraceDone ==
    \A i \in Issuers : ipc[i] = "grace" =>
        \A c \in targets[i], k \in call[i].classes : stamp[i] <= done[c][k]

\* A target that has completed an epoch stays completed, so a grace once
\* observed remains true.
LEMMA GraceStep ==
    TypeOK /\ EpochOrder /\ GraceDone /\ [Next]_vars => GraceDone'
<1> SUFFICES ASSUME TypeOK, EpochOrder, GraceDone, [Next]_vars PROVE GraceDone'
    OBVIOUS
<1>type. /\ done \in [Cpus -> [Classes -> Nat]] /\ stamp \in [Issuers -> Nat]
         /\ ipc \in [Issuers -> IssuerLabels]
         /\ targets \in [Issuers -> SUBSET Cpus]
         /\ \A i \in Issuers : call[i].classes \subseteq Classes
    BY DEF TypeOK, Calls
<1> USE <1>type DEF GraceDone, Goto, IssuerLabels
<1>1. ASSUME NEW i \in Issuers, TryComplete(i) PROVE GraceDone'
  <2>1. \A c \in targets[i], k \in call[i].classes : stamp[i] <= done[c][k]
    BY SMTT(30), Z3T(30), <1>1 DEF TryComplete, TargetPending
  <2> QED BY <1>1, <2>1 DEF TryComplete, mailbox
<1>2. ASSUME NEW c \in Cpus, Acknowledge(c) PROVE GraceDone'
  <2>1. \A d \in Cpus, m \in Classes : done[d][m] <= done'[d][m]
    BY Monotone
  <2>2. done' \in [Cpus -> [Classes -> Nat]]
    BY TypeNext DEF TypeOK
  <2>3. UNCHANGED <<ipc, targets, call, stamp>>
    BY <1>2 DEF Acknowledge, issuer
  <2>4. SUFFICES ASSUME NEW i \in Issuers, ipc[i] = "grace", NEW d \in targets[i],
                        NEW m \in call[i].classes
                 PROVE  stamp[i] <= done'[d][m]
    BY <2>3
  <2>5. d \in Cpus /\ m \in Classes
    OBVIOUS
  <2> QED BY SMTT(30), Z3T(30), <2>1, <2>2, <2>4, <2>5
<1>3. CASE SameGraces
    BY <1>3 DEF SameGraces
<1> QED BY <1>1, <1>2, <1>3, FrameStep DEF Frames

\* A grace is never early.
THEOREM GraceIsSound == Safety => []GraceSound
<1>1. Init => TypeOK /\ EpochOrder /\ GraceDone
    BY TypeInit, EpochInit DEF Init, GraceDone
<1>2. TypeOK /\ EpochOrder /\ GraceDone /\ [Next]_vars
      => TypeOK' /\ EpochOrder' /\ GraceDone'
    BY TypeNext, EpochStep, GraceStep
<1>3. TypeOK /\ EpochOrder /\ GraceDone => GraceSound
  <2> SUFFICES ASSUME TypeOK, EpochOrder, GraceDone, NEW i \in Issuers,
                      ipc[i] = "grace", NEW c \in targets[i],
                      NEW k \in call[i].classes
               PROVE  flushed[c][k] >= stamp[i]
    BY DEF GraceSound
  <2>1. c \in Cpus /\ k \in Classes
    BY DEF TypeOK, Calls
  <2>2. /\ flushed[c][k] \in Nat /\ done[c][k] \in Nat /\ stamp[i] \in Nat
    BY SMTT(30), Z3T(30), <2>1 DEF TypeOK
  <2>3. stamp[i] <= done[c][k] /\ done[c][k] <= flushed[c][k]
    BY <2>1 DEF GraceDone, EpochOrder
  <2> QED BY SMTT(30), Z3T(30), <2>2, <2>3
<1> QED BY <1>1, <1>2, <1>3, PTL DEF Safety

(***************************************************************************)
(* Published work: NoLostWork is inductive on its own.                     *)
(***************************************************************************)

\* The loop over the CPUs visits one lowest remaining index.
LEMMA LowestUnique ==
    ASSUME NEW S \in SUBSET Nat, NEW c, NEW d, Lowest(c, S), Lowest(d, S)
    PROVE  c = d
<1>1. c \in Nat /\ d \in Nat /\ c <= d /\ d <= c
    BY DEF Lowest
<1> QED BY SMTT(30), Z3T(30), <1>1

\* The order of epochs, for Zenon.
LEMMA AtMostTransitive ==
    \A x, y, z \in Nat : x <= y /\ y <= z => x <= z
  BY SMTT(30), Z3T(30)

\* fetch_max never lowers a word.
LEMMA LargerGrows ==
    ASSUME NEW x \in Nat, NEW y \in Nat
    PROVE  /\ x <= Larger(x, y) /\ Larger(x, y) \in Nat
           /\ x <= x /\ x >= x
  BY SMTT(30), Z3T(30) DEF Larger

\* Every access keeps each requested epoch either acknowledged, flagged, kicked
\* or in the hands of a service or of an issuer.
LEMMA WorkStep == TypeOK /\ NoLostWork /\ [Next]_vars => NoLostWork'
<1> SUFFICES ASSUME TypeOK, NoLostWork, [Next]_vars PROVE NoLostWork' OBVIOUS
<1>type. /\ req \in [Cpus -> [Classes -> Nat]] /\ done \in [Cpus -> [Classes -> Nat]]
         /\ snap \in [Cpus -> [Classes -> Nat]] /\ stamp \in [Issuers -> Nat]
         /\ pending \in [Cpus -> SUBSET Reasons]
         /\ ipc \in [Issuers -> IssuerLabels] /\ left \in [Issuers -> SUBSET Cpus]
         /\ raise \in [Issuers -> SUBSET Classes]
         /\ todo \in [Cpus -> SUBSET Classes]
         /\ hpc \in [Cpus -> {"idle", "load", "maintain", "ack"}]
    BY DEF TypeOK
<1> USE <1>type, ShootdownAssumption DEF NoLostWork, Covered, Goto, IssuerLabels
<1>1. ASSUME NEW i \in Issuers, RaiseEpoch(i) PROVE NoLostWork'
  <2> SUFFICES ASSUME NEW d \in Cpus, NEW m \in Classes, req'[d][m] > done'[d][m]
               PROVE  Covered(d, m)'
    OBVIOUS
  <2>1. PICK c \in Cpus, k \in Classes :
            /\ Lowest(c, left[i])
            /\ req' = [req EXCEPT ![c][k] = Larger(@, stamp[i])]
    BY <1>1 DEF RaiseEpoch
  <2>2. /\ ipc[i] = "raise" /\ ipc'[i] \in {"raise", "post"}
        /\ \A j \in Issuers : j # i => ipc'[j] = ipc[j]
    BY <1>1 DEF RaiseEpoch
  <2>3. UNCHANGED <<pending, done, left, hpc, snap, todo>>
    BY <1>1 DEF RaiseEpoch, handler
  <2>4. CASE d = c
    BY <2>1, <2>2, <2>3, <2>4 DEF Lowest
  <2>5. CASE d # c
    <3>1. req'[d][m] = req[d][m] /\ Covered(d, m)
      BY <2>1, <2>3, <2>5
    <3>2. \A j \in Issuers : ipc[j] \in {"raise", "post"} /\ Lowest(d, left[j])
                             => ipc'[j] \in {"raise", "post"}
      BY <2>2
    <3> QED BY <2>3, <3>1, <3>2 DEF Lowest
  <2> QED BY <2>4, <2>5
<1>2. ASSUME NEW i \in Issuers, PostMaintenance(i) PROVE NoLostWork'
  <2> SUFFICES ASSUME NEW d \in Cpus, NEW m \in Classes, req'[d][m] > done'[d][m]
               PROVE  Covered(d, m)'
    OBVIOUS
  <2>1. PICK c \in Cpus :
            /\ Lowest(c, left[i])
            /\ pending' = [pending EXCEPT ![c] = @ \cup {Maint}]
            /\ left' = [left EXCEPT ![i] = @ \ {c}]
    BY <1>2 DEF PostMaintenance, Post
  <2>2. \A j \in Issuers : j # i => ipc'[j] = ipc[j] /\ left'[j] = left[j]
    BY <1>2, <2>1 DEF PostMaintenance, Post
  <2>3. UNCHANGED <<req, done, hpc, snap, todo>>
    BY <1>2 DEF PostMaintenance, Post, handler
  <2>4. CASE d = c
    BY <2>1, <2>4
  <2>5. CASE d # c
    <3>1. pending'[d] = pending[d] /\ Covered(d, m)
      BY <2>1, <2>3, <2>5
    <3>2. ~ Lowest(d, left[i])
      <4>1. left[i] \in SUBSET Nat
        OBVIOUS
      <4> QED BY <2>1, <2>5, <4>1, LowestUnique
    <3> QED BY <2>2, <2>3, <3>1, <3>2 DEF Lowest
  <2> QED BY <2>4, <2>5
<1>3. ASSUME NEW i \in Issuers, NEW r \in Reasons, PostReason(i, r) PROVE NoLostWork'
    BY <1>3 DEF PostReason, Post, handler
<1>4. ASSUME NEW c \in Cpus, TakeReasons(c) PROVE NoLostWork'
    BY <1>4 DEF TakeReasons, issuer
<1>5. ASSUME NEW c \in Cpus, LoadRequested(c) PROVE NoLostWork'
  <2> SUFFICES ASSUME NEW d \in Cpus, NEW m \in Classes, req'[d][m] > done'[d][m]
               PROVE  Covered(d, m)'
    OBVIOUS
  <2>1. PICK k \in Classes :
            /\ k \in todo[c]
            /\ snap' = [snap EXCEPT ![c][k] = req[c][k]]
            /\ todo' = [todo EXCEPT ![c] = @ \ {k}]
            /\ hpc' = [hpc EXCEPT ![c] = IF todo[c] = {k} THEN "maintain" ELSE @]
    BY <1>5 DEF LoadRequested, Lowest
  <2>2. hpc[c] = "load" /\ UNCHANGED <<pending, req, done, ipc, left>>
    BY <1>5 DEF LoadRequested, mailbox, issuer
  <2>3. Covered(d, m)
    BY <2>2
  <2>4. CASE d # c
    <3>1. hpc'[d] = hpc[d] /\ snap'[d] = snap[d] /\ todo'[d] = todo[d]
      BY <2>1, <2>4
    <3> QED BY <2>2, <2>3, <3>1 DEF Lowest
  <2>5. CASE d = c /\ m = k
    <3>1. snap'[d][m] = req[d][m] /\ hpc'[d] \in {"load", "maintain"}
      BY <2>1, <2>2, <2>5
    <3>2. req[d] \in [Classes -> Nat]  OBVIOUS
    <3>3. req[d][m] \in Nat  BY <3>2
    <3>4. snap'[d][m] >= req'[d][m]
      BY <2>2, <3>1, <3>3, LargerGrows
    <3> QED BY <3>1, <3>4
  <2>6. CASE d = c /\ m # k
    <3>1. /\ snap'[d][m] = snap[d][m] /\ hpc'[d] \in {"load", "maintain"}
          /\ m \in todo[d] => m \in todo'[d] /\ hpc'[d] = "load"
      BY <2>1, <2>2, <2>6
    <3> QED BY <2>2, <2>3, <2>6, <3>1 DEF Lowest
  <2> QED BY <2>4, <2>5, <2>6
<1>6. ASSUME NEW c \in Cpus, MaintainLocal(c) PROVE NoLostWork'
    BY SMTT(30), Z3T(30), <1>6 DEF MaintainLocal, EndService, Zero, mailbox, issuer
<1>7. ASSUME NEW c \in Cpus, Acknowledge(c) PROVE NoLostWork'
  <2> SUFFICES ASSUME NEW d \in Cpus, NEW m \in Classes, req'[d][m] > done'[d][m]
               PROVE  Covered(d, m)'
    OBVIOUS
  <2>1. PICK k \in Classes :
            /\ done' = [done EXCEPT ![c][k] = Larger(@, snap[c][k])]
            /\ todo' = [todo EXCEPT ![c] = @ \ {k}]
            /\ IF todo[c] = {k} THEN EndService(c) ELSE UNCHANGED <<hpc, snap>>
    BY <1>7 DEF Acknowledge
  <2>2. hpc[c] = "ack" /\ UNCHANGED <<pending, req, ipc, left>>
    BY <1>7 DEF Acknowledge, issuer
  <2>3. done[d][m] <= done'[d][m] /\ done'[d][m] \in Nat
    <3>1. done'[d][m] = IF d = c /\ m = k THEN Larger(done[c][k], snap[c][k])
                                        ELSE done[d][m]
      BY SMTT(30), Z3T(30), <2>1
    <3>2. snap[c][k] \in Nat /\ done[c][k] \in Nat /\ done[d][m] \in Nat
      <4>1. /\ snap[c] \in [Classes -> Nat] /\ done[c] \in [Classes -> Nat]
            /\ done[d] \in [Classes -> Nat]
        OBVIOUS
      <4> QED BY <4>1
    <3>3. /\ done[d][m] <= done[d][m] /\ done[c][k] <= Larger(done[c][k], snap[c][k])
          /\ Larger(done[c][k], snap[c][k]) \in Nat
      BY <3>2, LargerGrows
    <3> QED BY <3>1, <3>2, <3>3
  <2>4. Covered(d, m)
    BY SMTT(30), Z3T(30), <2>2, <2>3
  <2>5. CASE d # c
    <3>1. hpc'[d] = hpc[d] /\ snap'[d] = snap[d] /\ todo'[d] = todo[d]
      BY <2>1, <2>5 DEF EndService
    <3> QED BY <2>2, <2>4, <3>1 DEF Lowest
  <2>6. CASE d = c /\ m = k
    <3>1. snap[d][m] < req[d][m]
      BY SMTT(30), Z3T(30), <2>1, <2>2, <2>3, <2>6 DEF Larger
    <3>2. hpc[d] = "ack" /\ ~ (snap[d][m] >= req[d][m])
      <4>1. snap[d][m] \in Nat
        BY SMTT(30), Z3T(30)
      <4>2. req[d][m] \in Nat
        BY SMTT(30), Z3T(30)
      <4> QED BY SMTT(30), Z3T(30), <2>2, <2>6, <3>1, <4>1, <4>2
    <3>3. \/ Maint \in pending[d]
          \/ \E j \in Issuers : ipc[j] \in {"raise", "post"} /\ Lowest(d, left[j])
      BY <2>4, <3>2
    <3> QED BY <2>2, <3>3 DEF Lowest
  <2>7. CASE d = c /\ m # k
    <3>1. m \in todo[d] => /\ m \in todo'[d] /\ hpc'[d] = "ack"
                           /\ snap'[d][m] = snap[d][m]
      BY <2>1, <2>2, <2>7
    <3> QED BY <2>2, <2>4, <2>7, <3>1 DEF Lowest
  <2> QED BY <2>5, <2>6, <2>7
<1>8. CASE SameWork
    BY <1>8 DEF SameWork, handler
<1> QED
    BY <1>1, <1>2, <1>3, <1>4, <1>5, <1>6, <1>7, <1>8, FrameStep
    DEF Frames, WorkNext, Handle

\* Published work is never forgotten.
THEOREM WorkIsNeverLost == Safety => []NoLostWork
<1>1. Init => TypeOK /\ NoLostWork
    BY SMTT(30), Z3T(30), TypeInit DEF Init, NoLostWork, Zero
<1>2. TypeOK /\ NoLostWork /\ [Next]_vars => TypeOK' /\ NoLostWork'
    BY TypeNext, WorkStep
<1> QED BY <1>1, <1>2, PTL DEF Safety

-----------------------------------------------------------------------------
(* The CPU lifecycle: with lifecycle calls made one at a time, a CPU       *)
(* commits offline only when it is drained, and a live request keeps its   *)
(* issuer and its pending targets from doing so.                           *)

\* Where a call holds admissions: always at its issuer's CPU, at the targets a
\* targeted call has passed, and at the CPU any call is publishing to.
AdmittedBy(i) ==
    /\ ipc[i] \notin {"idle", "posted"} => i \in adm[call[i].cpu]
    /\ ipc[i] = "admit" => \A c \in call[i].want \ left[i] : i \in adm[c]
    /\ ipc[i] \in {"epoch", "visit", "raise", "post"} /\ call[i].want # {}
       => \A c \in left[i] : i \in adm[c]
    /\ ipc[i] \in {"raise", "post"} =>
          \A c \in Cpus : Lowest(c, left[i]) => i \in adm[c]
    /\ ipc[i] = "leave" => call[i].want = {}
Admitted == \A i \in Issuers : AdmittedBy(i)

\* What a request has published: its epoch is requested at every target, and at
\* the CPU it is publishing to for every class it has raised.
PublishedBy(i) ==
    /\ ipc[i] \in {"idle", "admit", "epoch", "reason", "release", "posted"}
       => targets[i] = {}
    /\ \A c \in targets[i], k \in call[i].classes : stamp[i] <= req[c][k]
    /\ ipc[i] \in {"raise", "post"} =>
          \A c \in Cpus, k \in call[i].classes \ raise[i] :
              Lowest(c, left[i]) => stamp[i] <= req[c][k]
    /\ ipc[i] = "post" => raise[i] = {}
Published == \A i \in Issuers : PublishedBy(i)

\* What a controller has established inside complete_offline.
Closing ==
    \A x \in Controllers :
        LET c == ctl[x].cpu IN
        /\ ctl[x].at \in {"epochs", "reasons", "commit"} =>
              state[c] = "draining" /\ adm[c] = {}
        /\ ctl[x].at \in {"reasons", "commit"} => Drained(c)
        /\ ctl[x].at = "commit" => pending[c] = {}

\* Every access of an issuer keeps its admissions where its next step needs
\* them (try_admit, release_admission).
LEMMA AdmittedStep == TypeOK /\ Admitted /\ [Next]_vars => Admitted'
<1> SUFFICES ASSUME TypeOK, Admitted, [Next]_vars PROVE Admitted' OBVIOUS
<1>type. /\ adm \in [Cpus -> SUBSET Issuers] /\ call \in [Issuers -> Calls]
         /\ ipc \in [Issuers -> IssuerLabels] /\ left \in [Issuers -> SUBSET Cpus]
         /\ \A i \in Issuers : ipc[i] # "idle" => call[i].cpu \in Cpus
    BY DEF TypeOK
<1> USE <1>type, ShootdownAssumption DEF Admitted, AdmittedBy, Goto, IssuerLabels
<1>1. ASSUME NEW i \in Issuers, NEW c \in Cpus, AdmitReason(i, c) PROVE Admitted'
    BY SMTT(30), Z3T(30), <1>1 DEF AdmitReason, Admit, handler
<1>2. ASSUME NEW i \in Issuers, NEW c \in Cpus, NEW ks \in SUBSET Classes,
             IssueAll(i, c, ks)
      PROVE  Admitted'
    BY SMTT(30), Z3T(30), <1>2 DEF IssueAll, Admit, handler
<1>3. ASSUME NEW i \in Issuers, NEW c \in Cpus, NEW ks \in SUBSET Classes,
             NEW ts \in SUBSET Cpus, IssueTo(i, c, ks, ts)
      PROVE  Admitted'
    BY SMTT(30), Z3T(30), <1>3 DEF IssueTo, Admit, handler
<1>4. ASSUME NEW i \in Issuers, AdmitTarget(i) PROVE Admitted'
  <2>1. \A j \in Issuers : j # i => /\ ipc'[j] = ipc[j] /\ left'[j] = left[j]
                                    /\ call'[j] = call[j]
                                    /\ \A d \in Cpus : j \in adm[d] => j \in adm'[d]
    BY SMTT(30), Z3T(30), <1>4 DEF AdmitTarget, Admit
  <2>2. ASSUME NEW j \in Issuers, j # i PROVE AdmittedBy(j)'
    <3>1. AdmittedBy(j) /\ call[j].want \subseteq Cpus
      BY DEF Calls
    <3> QED BY <2>1, <2>2, <3>1 DEF Lowest
  <2>3. AdmittedBy(i)'
    <3>1. call' = call /\ ipc[i] = "admit" /\ AdmittedBy(i) /\ call[i].want \subseteq Cpus
      BY <1>4 DEF AdmitTarget, Calls
    <3>2. CASE left[i] = {} /\ left' = [left EXCEPT ![i] = call[i].want]
               /\ ipc' = [ipc EXCEPT ![i] = "epoch"] /\ adm' = adm
      BY <3>1, <3>2
    <3>3. CASE \E c \in Cpus : /\ adm' = [adm EXCEPT ![c] = @ \cup {i}]
                               /\ left' = [left EXCEPT ![i] = @ \ {c}]
                               /\ ipc' = ipc
      BY SMTT(30), Z3T(30), <3>1, <3>3
    <3>4. CASE ipc' = [ipc EXCEPT ![i] = "unwind"] /\ adm' = adm
      BY <3>1, <3>4
    <3> QED BY <1>4, <3>2, <3>3, <3>4 DEF AdmitTarget, Admit
  <2> QED BY SMTT(30), Z3T(30), <2>2, <2>3
<1>5. ASSUME NEW i \in Issuers, TakeEpoch(i) PROVE Admitted'
    BY <1>5 DEF TakeEpoch, handler
<1>6. ASSUME NEW i \in Issuers, VisitTarget(i) PROVE Admitted'
  <2>1. \A j \in Issuers : j # i => /\ ipc'[j] = ipc[j] /\ left'[j] = left[j]
                                    /\ call'[j] = call[j]
                                    /\ \A d \in Cpus : j \in adm[d] => j \in adm'[d]
    BY SMTT(30), Z3T(30), <1>6 DEF VisitTarget, Admit
  <2>2. ASSUME NEW j \in Issuers, j # i PROVE AdmittedBy(j)'
    <3>1. AdmittedBy(j) /\ call[j].want \subseteq Cpus
      BY DEF Calls
    <3> QED BY <2>1, <2>2, <3>1 DEF Lowest
  <2>3. AdmittedBy(i)'
    <3>1. call' = call /\ ipc[i] = "visit" /\ AdmittedBy(i) /\ call[i].want \subseteq Cpus
      BY <1>6 DEF VisitTarget, Calls
    <3>2. CASE ipc'[i] \in {"held", "drop", "unwind"} /\ adm' = adm
      BY <3>1, <3>2
    <3>3. CASE left' = left /\ ipc'[i] = "raise" /\ call[i].want # {} /\ adm' = adm
      BY <3>1, <3>3 DEF Lowest
    <3>4. CASE \E c \in Cpus : /\ adm' = [adm EXCEPT ![c] = @ \cup {i}]
                               /\ Lowest(c, left[i]) /\ call[i].want = {}
                               /\ left' = left /\ ipc'[i] = "raise"
      <4>1. PICK c \in Cpus : /\ adm' = [adm EXCEPT ![c] = @ \cup {i}]
                              /\ Lowest(c, left[i])
        BY <3>4
      <4>2. \A d \in Cpus : Lowest(d, left[i]) => d = c
        BY <4>1, LowestUnique
      <4>3. i \in adm'[call[i].cpu] /\ i \in adm'[c]
        BY <3>1, <4>1
      <4>4. \A d \in Cpus : Lowest(d, left'[i]) => d = c
        BY <3>4, <4>2
      <4> QED BY <3>1, <3>4, <4>3, <4>4
    <3>5. CASE ipc' = ipc /\ adm' = adm /\ call[i].want = {}
      BY <3>1, <3>5
    <3> QED BY <1>6, <3>2, <3>3, <3>4, <3>5 DEF VisitTarget, Admit
  <2> QED BY SMTT(30), Z3T(30), <2>2, <2>3
<1>7. ASSUME NEW i \in Issuers, RaiseEpoch(i) PROVE Admitted'
    BY <1>7 DEF RaiseEpoch, Larger, handler
<1>8. ASSUME NEW i \in Issuers, PostMaintenance(i) PROVE Admitted'
    BY SMTT(30), Z3T(30), <1>8 DEF PostMaintenance, Post, handler
<1>9. ASSUME NEW i \in Issuers, DropTarget(i) PROVE Admitted'
  <2>1. \A j \in Issuers : j # i => /\ ipc'[j] = ipc[j] /\ left'[j] = left[j]
                                    /\ call'[j] = call[j]
                                    /\ \A d \in Cpus : j \in adm[d] => j \in adm'[d]
    BY SMTT(30), Z3T(30), <1>9 DEF DropTarget, Release
  <2>2. ASSUME NEW j \in Issuers, j # i PROVE AdmittedBy(j)'
    <3>1. AdmittedBy(j) /\ call[j].want \subseteq Cpus
      BY DEF Calls
    <3> QED BY <2>1, <2>2, <3>1 DEF Lowest
  <2>3. AdmittedBy(i)'
    <3>1. call' = call /\ ipc[i] \in {"leave", "drop"} /\ AdmittedBy(i)
      BY <1>9 DEF DropTarget
    <3>2. PICK c \in Cpus : c # call[i].cpu /\ adm' = [adm EXCEPT ![c] = @ \ {i}]
      BY <1>9 DEF DropTarget, Release, Held, Lowest
    <3>3. i \in adm'[call[i].cpu]
      BY <3>1, <3>2
    <3>4. ipc'[i] = ipc[i] \/ ipc'[i] = IF ipc[i] = "leave" THEN "visit" ELSE "held"
      BY <1>9 DEF DropTarget
    <3> QED BY <3>1, <3>3, <3>4
  <2> QED BY SMTT(30), Z3T(30), <2>2, <2>3
<1>10. ASSUME NEW i \in Issuers, Unwind(i) PROVE Admitted'
  <2>1. ipc[i] = "unwind" /\ AdmittedBy(i)
    BY <1>10 DEF Unwind
  <2>2. CASE UNCHANGED issuer
    <3>1. PICK c \in Cpus : c # call[i].cpu /\ adm' = [adm EXCEPT ![c] = @ \ {i}]
      <4>1. ~EndCall(i)
        BY <2>1, <2>2 DEF EndCall, Goto, issuer
      <4> QED BY <1>10, <4>1 DEF Unwind, Release, Held, Lowest
    <3>2. i \in adm'[call[i].cpu]
      BY <2>1, <3>1
    <3>3. \A j \in Issuers, d \in Cpus : j # i /\ j \in adm[d] => j \in adm'[d]
      BY <3>1
    <3>4. ASSUME NEW j \in Issuers PROVE AdmittedBy(j)'
      <4>1. AdmittedBy(j) /\ call[j].want \subseteq Cpus
        BY DEF Calls
      <4>2. CASE j = i
        BY <2>1, <2>2, <3>2, <4>2 DEF issuer
      <4>3. CASE j # i
        BY <2>2, <3>3, <4>1, <4>3 DEF issuer, Lowest
      <4> QED BY <4>2, <4>3
    <3> QED BY <3>4
  <2>3. CASE EndCall(i)
    <3>1. \A j \in Issuers : j # i => /\ ipc'[j] = ipc[j] /\ left'[j] = left[j]
                                      /\ call'[j] = call[j]
                                      /\ \A d \in Cpus : j \in adm[d] => j \in adm'[d]
      BY SMTT(30), Z3T(30), <1>10, <2>3 DEF Unwind, EndCall, Release
    <3>2. ASSUME NEW j \in Issuers PROVE AdmittedBy(j)'
      <4>1. AdmittedBy(j) /\ call[j].want \subseteq Cpus
        BY DEF Calls
      <4>2. CASE j = i
        BY <2>3, <4>2 DEF EndCall
      <4>3. CASE j # i
        BY <3>1, <4>1, <4>3 DEF Lowest
      <4> QED BY <4>2, <4>3
    <3> QED BY <3>2
  <2> QED BY <1>10, <2>2, <2>3 DEF Unwind
<1>11. ASSUME NEW i \in Issuers, SendKick(i) PROVE Admitted'
    BY <1>11 DEF SendKick, mailbox, handler
<1>12. ASSUME NEW i \in Issuers, NEW r \in Reasons, PostReason(i, r) PROVE Admitted'
    BY <1>12 DEF PostReason, Post, handler
<1>13. ASSUME NEW i \in Issuers, ReleaseReason(i) PROVE Admitted'
    BY SMTT(30), Z3T(30), <1>13 DEF ReleaseReason, Release, handler
<1>14. ASSUME NEW i \in Issuers, EndPost(i) PROVE Admitted'
    BY <1>14 DEF EndPost, EndCall, NoCall, mailbox, handler
<1>15. ASSUME NEW i \in Issuers, RecoveryKick(i) PROVE Admitted'
    BY <1>15 DEF RecoveryKick, mailbox, issuer, handler
<1>16. ASSUME NEW i \in Issuers, TryComplete(i) PROVE Admitted'
    BY <1>16 DEF TryComplete, mailbox, handler
<1>17. ASSUME NEW i \in Issuers, DropRequest(i) PROVE Admitted'
    BY <1>17 DEF DropRequest, mailbox, handler
<1>18. CASE UNCHANGED <<adm, req, issuer>>
    BY <1>18 DEF issuer
<1> QED
    BY <1>1, <1>2, <1>3, <1>4, <1>5, <1>6, <1>7, <1>8, <1>9, <1>10, <1>11,
       <1>12, <1>13, <1>14, <1>15, <1>16, <1>17, <1>18, IssuerFrame
    DEF IssuerNext, Publish

\* fetch_max on a requested epoch.
LEMMA RaisedGrows ==
    ASSUME NEW c \in Cpus, NEW k \in Classes, NEW e \in Nat,
           req \in [Cpus -> [Classes -> Nat]],
           req' = [req EXCEPT ![c][k] = Larger(@, e)]
    PROVE  /\ e <= req'[c][k]
           /\ \A d \in Cpus, m \in Classes :
                 req[d][m] <= req'[d][m] /\ req[d][m] \in Nat /\ req'[d][m] \in Nat
    BY SMTT(30), Z3T(30) DEF Larger

\* What an issuer has published stays requested at its targets (fetch_max).
LEMMA PublishedStep == TypeOK /\ Published /\ [Next]_vars => Published'
<1> SUFFICES ASSUME TypeOK, Published, [Next]_vars PROVE Published' OBVIOUS
<1>type. /\ req \in [Cpus -> [Classes -> Nat]] /\ call \in [Issuers -> Calls]
         /\ ipc \in [Issuers -> IssuerLabels] /\ left \in [Issuers -> SUBSET Cpus]
         /\ raise \in [Issuers -> SUBSET Classes] /\ stamp \in [Issuers -> Nat]
         /\ targets \in [Issuers -> SUBSET Cpus]
         /\ \A i \in Issuers : call[i].classes \subseteq Classes
    BY DEF TypeOK, Calls
<1> USE <1>type, ShootdownAssumption DEF Published, PublishedBy, Goto, IssuerLabels
<1>1. ASSUME NEW i \in Issuers, NEW c \in Cpus, AdmitReason(i, c) PROVE Published'
    BY <1>1 DEF AdmitReason, Admit, handler
<1>2. ASSUME NEW i \in Issuers, NEW c \in Cpus, NEW ks \in SUBSET Classes,
             IssueAll(i, c, ks)
      PROVE  Published'
    BY <1>2 DEF IssueAll, Admit, handler
<1>3. ASSUME NEW i \in Issuers, NEW c \in Cpus, NEW ks \in SUBSET Classes,
             NEW ts \in SUBSET Cpus, IssueTo(i, c, ks, ts)
      PROVE  Published'
    BY <1>3 DEF IssueTo, Admit, handler
<1>4. ASSUME NEW i \in Issuers, AdmitTarget(i) PROVE Published'
    BY SMTT(30), Z3T(30), <1>4 DEF AdmitTarget, Admit, handler
<1>5. ASSUME NEW i \in Issuers, TakeEpoch(i) PROVE Published'
    BY SMTT(30), Z3T(30), <1>5 DEF TakeEpoch, handler
<1>6. ASSUME NEW i \in Issuers, VisitTarget(i) PROVE Published'
  <2>1. /\ ipc[i] = "visit" /\ UNCHANGED <<req, call, stamp, targets>>
        /\ \/ UNCHANGED raise /\ \E l \in {"held", "drop", "unwind"} : Goto(i, l)
           \/ /\ raise' = [raise EXCEPT ![i] = call[i].classes]
              /\ Goto(i, "raise") /\ UNCHANGED left
           \/ UNCHANGED <<raise, ipc>>
    BY <1>6 DEF VisitTarget
  <2>2. \A j \in Issuers : j # i => left'[j] = left[j]
    <3>1. UNCHANGED left \/ \E c \in Cpus : left' = [left EXCEPT ![i] = @ \ {c}]
      BY <1>6 DEF VisitTarget
    <3> QED BY <3>1
  <2>3. ASSUME NEW j \in Issuers PROVE PublishedBy(j)'
    <3>1. PublishedBy(j)
      OBVIOUS
    <3>2. CASE j # i
      <4>1. ipc'[j] = ipc[j] /\ raise'[j] = raise[j]
        BY <2>1, <3>2
      <4> QED BY <2>1, <2>2, <3>1, <3>2, <4>1 DEF Lowest
    <3>3. CASE j = i
      <4>1. \/ ipc'[i] \in {"held", "drop", "unwind", "visit"}
            \/ ipc'[i] = "raise" /\ raise'[i] = call[i].classes
        BY <2>1
      <4> QED BY <2>1, <3>1, <3>3, <4>1
    <3> QED BY <3>2, <3>3
  <2> QED BY <2>3
<1>7. ASSUME NEW i \in Issuers, RaiseEpoch(i) PROVE Published'
  <2>1. PICK c \in Cpus, k \in Classes :
            /\ Lowest(c, left[i]) /\ k \in raise[i]
            /\ req' = [req EXCEPT ![c][k] = Larger(@, stamp[i])]
            /\ raise' = [raise EXCEPT ![i] = @ \ {k}]
            /\ IF raise[i] = {k} THEN ipc' = [ipc EXCEPT ![i] = "post"]
                                 ELSE UNCHANGED ipc
    BY <1>7 DEF RaiseEpoch, Lowest
  <2>2. /\ ipc[i] = "raise" /\ UNCHANGED <<call, left, stamp, targets>>
    BY <1>7 DEF RaiseEpoch
  <2>3. \A d \in Cpus, m \in Classes :
            req[d][m] <= req'[d][m] /\ req[d][m] \in Nat /\ req'[d][m] \in Nat
    BY <1>type, <2>1, RaisedGrows
  <2>4. stamp[i] <= req'[c][k]
    BY <1>type, <2>1, RaisedGrows
  <2>5. ASSUME NEW j \in Issuers PROVE PublishedBy(j)'
    <3>1. PublishedBy(j)
      OBVIOUS
    <3>2. \A d \in targets[j], m \in call[j].classes : stamp[j] <= req'[d][m]
      <4> TAKE d \in targets[j], m \in call[j].classes
      <4>1. d \in Cpus /\ m \in Classes /\ stamp[j] \in Nat
        OBVIOUS
      <4>2. stamp[j] <= req[d][m]
        BY <3>1
      <4> QED BY <2>3, <4>1, <4>2, AtMostTransitive
    <3>3. \A d \in Cpus, m \in call[j].classes \ raise[j] :
              ipc[j] \in {"raise", "post"} /\ Lowest(d, left[j])
              => stamp[j] <= req'[d][m]
      <4> TAKE d \in Cpus, m \in call[j].classes \ raise[j]
      <4> HAVE ipc[j] \in {"raise", "post"} /\ Lowest(d, left[j])
      <4>1. m \in Classes /\ stamp[j] \in Nat
        OBVIOUS
      <4>2. stamp[j] <= req[d][m]
        BY <3>1
      <4> QED BY <2>3, <4>1, <4>2, AtMostTransitive
    <3>4. CASE j # i
      <4>1. ipc'[j] = ipc[j] /\ raise'[j] = raise[j]
        BY <2>1, <3>4
      <4> QED BY <2>2, <3>1, <3>2, <3>3, <4>1 DEF Lowest
    <3>5. CASE j = i
      <4>1. raise'[i] = raise[i] \ {k} /\ ipc'[i] \in {"raise", "post"}
        BY <2>1, <2>2
      <4>2. ipc'[i] = "post" => raise'[i] = {}
        BY <2>1, <2>2
      <4>3. \A d \in Cpus : Lowest(d, left[i]) => d = c
        BY <2>1, LowestUnique
      <4>4. \A d \in Cpus, m \in call[i].classes \ raise'[i] :
                Lowest(d, left[i]) => stamp[i] <= req'[d][m]
        BY <2>2, <2>4, <3>3, <3>5, <4>1, <4>3
      <4> QED BY <2>2, <3>2, <3>5, <4>1, <4>2, <4>4 DEF Lowest
    <3> QED BY <3>4, <3>5
  <2> QED BY <2>5
<1>8. ASSUME NEW i \in Issuers, PostMaintenance(i) PROVE Published'
    BY SMTT(30), Z3T(30), <1>8 DEF PostMaintenance, Post, handler
<1>9. ASSUME NEW i \in Issuers, DropTarget(i) PROVE Published'
    BY SMTT(30), Z3T(30), <1>9 DEF DropTarget, Release, handler
<1>10. ASSUME NEW i \in Issuers, Unwind(i) PROVE Published'
  <2>1. UNCHANGED req /\ (UNCHANGED issuer \/ EndCall(i))
    BY <1>10 DEF Unwind
  <2>2. CASE UNCHANGED issuer
    BY <2>1, <2>2 DEF issuer
  <2>3. CASE EndCall(i)
    BY <2>1, <2>3 DEF EndCall, NoCall
  <2> QED BY <2>1, <2>2, <2>3
<1>11. ASSUME NEW i \in Issuers, SendKick(i) PROVE Published'
    BY <1>11 DEF SendKick, mailbox, handler
<1>12. ASSUME NEW i \in Issuers, NEW r \in Reasons, PostReason(i, r) PROVE Published'
    BY <1>12 DEF PostReason, Post, handler
<1>13. ASSUME NEW i \in Issuers, ReleaseReason(i) PROVE Published'
    BY <1>13 DEF ReleaseReason, Release, handler
<1>14. ASSUME NEW i \in Issuers, EndPost(i) PROVE Published'
    BY <1>14 DEF EndPost, EndCall, NoCall, mailbox, handler
<1>15. ASSUME NEW i \in Issuers, RecoveryKick(i) PROVE Published'
    BY <1>15 DEF RecoveryKick, mailbox, issuer, handler
<1>16. ASSUME NEW i \in Issuers, TryComplete(i) PROVE Published'
    BY <1>16 DEF TryComplete, mailbox, handler
<1>17. ASSUME NEW i \in Issuers, DropRequest(i) PROVE Published'
    BY <1>17 DEF DropRequest, mailbox, handler
<1>18. CASE UNCHANGED <<adm, req, issuer>>
    BY <1>18 DEF issuer
<1> QED
    BY <1>1, <1>2, <1>3, <1>4, <1>5, <1>6, <1>7, <1>8, <1>9, <1>10, <1>11,
       <1>12, <1>13, <1>14, <1>15, <1>16, <1>17, <1>18, IssuerFrame
    DEF IssuerNext, Publish

\* A CPU that admits nobody gains no admission.
LEMMA ClosedStep ==
    ASSUME TypeOK, [Next]_vars, NEW d \in Cpus, state[d] # "online", adm[d] = {}
    PROVE  adm'[d] = {}
<1>type. adm \in [Cpus -> SUBSET Issuers]
    BY DEF TypeOK
<1> USE <1>type DEF CanAdmit, Admit, Release
<1>1. ASSUME NEW i \in Issuers, NEW c \in Cpus, AdmitReason(i, c) PROVE adm'[d] = {}
    BY <1>1 DEF AdmitReason
<1>2. ASSUME NEW i \in Issuers, NEW c \in Cpus, NEW ks \in SUBSET Classes,
             IssueAll(i, c, ks)
      PROVE  adm'[d] = {}
    BY <1>2 DEF IssueAll
<1>3. ASSUME NEW i \in Issuers, NEW c \in Cpus, NEW ks \in SUBSET Classes,
             NEW ts \in SUBSET Cpus, IssueTo(i, c, ks, ts)
      PROVE  adm'[d] = {}
    BY <1>3 DEF IssueTo
<1>4. ASSUME NEW i \in Issuers, AdmitTarget(i) PROVE adm'[d] = {}
    BY <1>4 DEF AdmitTarget
<1>5. ASSUME NEW i \in Issuers, TakeEpoch(i) PROVE adm'[d] = {}
    BY <1>5 DEF TakeEpoch
<1>6. ASSUME NEW i \in Issuers, VisitTarget(i) PROVE adm'[d] = {}
    BY <1>6 DEF VisitTarget
<1>7. ASSUME NEW i \in Issuers, RaiseEpoch(i) PROVE adm'[d] = {}
    BY <1>7 DEF RaiseEpoch
<1>8. ASSUME NEW i \in Issuers, PostMaintenance(i) PROVE adm'[d] = {}
    BY <1>8 DEF PostMaintenance, Post
<1>9. ASSUME NEW i \in Issuers, DropTarget(i) PROVE adm'[d] = {}
    BY <1>9 DEF DropTarget
<1>10. ASSUME NEW i \in Issuers, Unwind(i) PROVE adm'[d] = {}
    BY <1>10 DEF Unwind
<1>11. ASSUME NEW i \in Issuers, SendKick(i) PROVE adm'[d] = {}
    BY <1>11 DEF SendKick, mailbox
<1>12. ASSUME NEW i \in Issuers, NEW r \in Reasons, PostReason(i, r) PROVE adm'[d] = {}
    BY <1>12 DEF PostReason, Post
<1>13. ASSUME NEW i \in Issuers, ReleaseReason(i) PROVE adm'[d] = {}
    BY <1>13 DEF ReleaseReason
<1>14. ASSUME NEW i \in Issuers, EndPost(i) PROVE adm'[d] = {}
    BY <1>14 DEF EndPost, mailbox
<1>15. ASSUME NEW i \in Issuers, RecoveryKick(i) PROVE adm'[d] = {}
    BY <1>15 DEF RecoveryKick, mailbox
<1>16. ASSUME NEW i \in Issuers, TryComplete(i) PROVE adm'[d] = {}
    BY <1>16 DEF TryComplete, mailbox
<1>17. ASSUME NEW i \in Issuers, DropRequest(i) PROVE adm'[d] = {}
    BY <1>17 DEF DropRequest, mailbox
<1>18. CASE UNCHANGED <<adm, req, issuer>>
    BY <1>18
<1> QED
    BY <1>1, <1>2, <1>3, <1>4, <1>5, <1>6, <1>7, <1>8, <1>9, <1>10, <1>11,
       <1>12, <1>13, <1>14, <1>15, <1>16, <1>17, <1>18, IssuerFrame
    DEF IssuerNext, Publish

\* A CPU without admissions that admits nobody receives nothing new.
LEMMA QuietStep ==
    ASSUME TypeOK, EpochOrder, Admitted, [Next]_vars,
           NEW d \in Cpus, state[d] # "online", adm[d] = {}
    PROVE  /\ adm'[d] = {} /\ pending'[d] \subseteq pending[d]
           /\ Drained(d) => Drained(d)'
<1> DEFINE Quiet == /\ pending'[d] \subseteq pending[d]
                    /\ req'[d] = req[d] /\ (Drained(d) => Drained(d)')
<1>type. /\ req \in [Cpus -> [Classes -> Nat]] /\ done \in [Cpus -> [Classes -> Nat]]
         /\ snap \in [Cpus -> [Classes -> Nat]]
         /\ pending \in [Cpus -> SUBSET Reasons]
         /\ \A i \in Issuers : ipc[i] # "idle" => call[i].cpu \in Cpus
    BY DEF TypeOK
<1>held. \A i \in Issuers :
            /\ ipc[i] \notin {"idle", "posted"} => call[i].cpu # d
            /\ ipc[i] \in {"raise", "post"} => ~ Lowest(d, left[i])
    BY DEF Admitted, AdmittedBy, Lowest
<1> SUFFICES Quiet
    BY ClosedStep
<1> USE <1>type, <1>held DEF Drained
<1>1. ASSUME NEW i \in Issuers, RaiseEpoch(i) PROVE Quiet
    BY <1>1 DEF RaiseEpoch, Larger, handler
<1>2. ASSUME NEW i \in Issuers, PostMaintenance(i) PROVE Quiet
    BY <1>2 DEF PostMaintenance, Post, handler
<1>3. ASSUME NEW i \in Issuers, NEW r \in Reasons, PostReason(i, r) PROVE Quiet
    BY <1>3 DEF PostReason, Post, handler
<1>4. ASSUME NEW c \in Cpus, TakeReasons(c) PROVE Quiet
    BY <1>4 DEF TakeReasons, issuer
<1>5. ASSUME NEW c \in Cpus, LoadRequested(c) PROVE Quiet
    BY <1>5 DEF LoadRequested, mailbox, issuer
<1>6. ASSUME NEW c \in Cpus, MaintainLocal(c) PROVE Quiet
    BY <1>6 DEF MaintainLocal, EndService, Zero, mailbox, issuer
<1>7. ASSUME NEW c \in Cpus, Acknowledge(c) PROVE Quiet
  <2>1. PICK k \in Classes : done' = [done EXCEPT ![c][k] = Larger(@, snap[c][k])]
    BY <1>7 DEF Acknowledge
  <2>2. UNCHANGED <<adm, pending, req>>
    BY <1>7 DEF Acknowledge
  <2>3. ASSUME Drained(d), NEW m \in Classes PROVE req[d][m] = done'[d][m]
    <3>1. req[d][m] = done[d][m] /\ snap[d][m] <= req[d][m]
      BY <2>3 DEF EpochOrder
    <3>2. done'[d][m] = done[d][m] \/ done'[d][m] = Larger(done[d][m], snap[d][m])
      BY <2>1
    <3>3. done[d][m] \in Nat /\ snap[d][m] \in Nat
      OBVIOUS
    <3> HIDE <1>type, <1>held
    <3> QED BY SMTT(30), Z3T(30), <3>1, <3>2, <3>3 DEF Larger
  <2> QED BY <2>2, <2>3
<1>8. CASE SameWork
    BY <1>8 DEF SameWork
<1> QED
    BY <1>1, <1>2, <1>3, <1>4, <1>5, <1>6, <1>7, <1>8, FrameStep
    DEF Frames, WorkNext, Handle

\* Lifecycle calls are made one at a time.
Serialised == \A x, y \in Controllers : x = y

\* What complete_offline has checked stays true until it commits, when no other
\* lifecycle call intervenes.
LEMMA OfflineStep ==
    ASSUME Serialised, TypeOK, EpochOrder, Admitted, Closing, OfflineDrained,
           [Next]_vars
    PROVE  Closing' /\ OfflineDrained'
<1>quiet. \A d \in Cpus : state[d] # "online" /\ adm[d] = {} =>
              /\ adm'[d] = {} /\ pending'[d] \subseteq pending[d]
              /\ Drained(d) => Drained(d)'
    BY QuietStep
<1>type. /\ state \in [Cpus -> {"offline", "online", "draining"}]
         /\ ctl \in [Controllers -> [at : ControlLabels, cpu : Nat]]
         /\ \A x \in Controllers : ctl[x].at # "idle" => ctl[x].cpu \in Cpus
    BY DEF TypeOK
<1>epoch. \A d \in Cpus, k \in Classes :
              /\ req[d][k] \in Nat /\ done[d][k] \in Nat
              /\ done[d][k] <= req[d][k]
    BY SMTT(30), Z3T(30) DEF TypeOK, EpochOrder
<1>1. CASE UNCHANGED <<state, ctl>>
  <2>1. Closing'
    <3> SUFFICES ASSUME NEW x \in Controllers, NEW d \in Nat, d = ctl[x].cpu
                 PROVE  /\ ctl[x].at \in {"epochs", "reasons", "commit"} =>
                              state[d] = "draining" /\ adm'[d] = {}
                        /\ ctl[x].at \in {"reasons", "commit"} => Drained(d)'
                        /\ ctl[x].at = "commit" => pending'[d] = {}
      BY SMTT(30), Z3T(30), <1>1, <1>type DEF Closing, Drained
    <3>1. ctl[x].at \in {"epochs", "reasons", "commit"} =>
              d \in Cpus /\ state[d] = "draining" /\ adm[d] = {}
      BY <1>type DEF Closing
    <3>2. /\ ctl[x].at \in {"reasons", "commit"} => Drained(d)
          /\ ctl[x].at = "commit" => pending[d] = {}
      BY DEF Closing
    <3> QED BY <1>quiet, <3>1, <3>2
  <2>2. OfflineDrained'
    BY <1>1, <1>quiet DEF OfflineDrained, Drained
  <2> QED BY <2>1, <2>2
<1>2. ASSUME NEW x \in Controllers, Lifecycle(x) PROVE Closing' /\ OfflineDrained'
  <2>only. \A y \in Controllers : y = x
    BY DEF Serialised
  <2>1. ASSUME NEW c \in Cpus, CheckMailbox(x, c) PROVE Closing' /\ OfflineDrained'
    BY <2>1, <2>only, <1>type
    DEF CheckMailbox, ControlGoto, mailbox, Closing, OfflineDrained, Drained
  <2>2. ASSUME NEW c \in Cpus, BeginOffline(x, c) PROVE Closing' /\ OfflineDrained'
    BY <2>2, <2>only, <1>type DEF BeginOffline, Closing, OfflineDrained, Drained
  <2>3. ASSUME NEW c \in Cpus, CheckDraining(x, c) PROVE Closing' /\ OfflineDrained'
    BY <2>3, <2>only, <1>type
    DEF CheckDraining, ControlGoto, mailbox, Closing, OfflineDrained, Drained
  <2>4. CASE PublishOnline(x)
    BY <2>4, <2>only, <1>type
    DEF PublishOnline, ControlDone, AtRest, Closing, OfflineDrained, Drained
  <2>5. CASE CheckEpochs(x)
    BY SMTT(30), Z3T(30), <2>5, <2>only, <1>type, <1>epoch
    DEF CheckEpochs, ControlGoto, ControlDone, AtRest, mailbox, Closing,
        OfflineDrained, Drained
  <2>6. CASE CheckReasons(x)
    BY SMTT(30), Z3T(30), <2>6, <2>only, <1>type
    DEF CheckReasons, ControlGoto, ControlDone, AtRest, mailbox, Closing,
        OfflineDrained, Drained
  <2>7. CASE CommitOffline(x)
    BY SMTT(30), Z3T(30), <2>7, <2>only, <1>type
    DEF CommitOffline, ControlDone, AtRest, Closing, OfflineDrained, Drained
  <2> QED BY <1>2, <2>1, <2>2, <2>3, <2>4, <2>5, <2>6, <2>7 DEF Lifecycle
<1> QED BY <1>1, <1>2, FrameStep DEF Frames

\* The inductive invariant of the lifecycle theorems.
OfflineInv == TypeOK /\ EpochOrder /\ Admitted /\ Published /\ Closing /\ OfflineDrained

\* The lifecycle invariant holds when lifecycle calls are made one at a time.
LEMMA OfflineInvHolds == ASSUME Serialised PROVE Safety => []OfflineInv
<1>1. Init => OfflineInv
  <2> SUFFICES ASSUME Init PROVE OfflineInv OBVIOUS
  <2>1. TypeOK /\ EpochOrder
    BY TypeInit, EpochInit
  <2>2. Admitted /\ Published
    BY DEF Init, Admitted, AdmittedBy, Published, PublishedBy, Empty
  <2>3. Closing /\ OfflineDrained
    BY DEF Init, Closing, OfflineDrained, Drained, AtRest, Zero
  <2> QED BY <2>1, <2>2, <2>3 DEF OfflineInv
<1>2. OfflineInv /\ [Next]_vars => OfflineInv'
    BY TypeNext, EpochStep, AdmittedStep, PublishedStep, OfflineStep DEF OfflineInv
<1> QED BY <1>1, <1>2, PTL DEF Safety

\* complete_offline commits only a drained CPU, when lifecycle calls are made
\* one at a time.
THEOREM OfflineIsDrained == ASSUME Serialised PROVE Safety => []OfflineDrained
<1>1. OfflineInv => OfflineDrained
    BY DEF OfflineInv
<1> QED BY <1>1, OfflineInvHolds, PTL

\* Under the same condition a live request keeps its issuer's CPU, and every
\* target that has yet to acknowledge it, from committing offline.
THEOREM RequestsPin == ASSUME Serialised PROVE Safety => []RequestPins
<1>1. OfflineInv => RequestPins
  <2> SUFFICES ASSUME OfflineInv, NEW i \in Issuers, ipc[i] = "held"
               PROVE  /\ state[call[i].cpu] # "offline"
                      /\ \A c \in targets[i] : TargetPending(i, c) => state[c] # "offline"
    BY DEF RequestPins
  <2>1. call[i].cpu \in Cpus /\ adm[call[i].cpu] # {}
    BY DEF OfflineInv, TypeOK, Admitted, AdmittedBy
  <2>2. ASSUME NEW c \in targets[i], TargetPending(i, c) PROVE ~ Drained(c)
    <3>1. PICK k \in call[i].classes : done[c][k] < stamp[i]
      BY <2>2 DEF TargetPending
    <3>2. stamp[i] <= req[c][k]
      BY DEF OfflineInv, Published, PublishedBy
    <3>3. c \in Cpus /\ k \in Classes /\ stamp[i] \in Nat
      BY DEF OfflineInv, TypeOK, Calls
    <3>4. done[c][k] \in Nat /\ req[c][k] \in Nat
      BY SMTT(30), Z3T(30), <3>3 DEF OfflineInv, TypeOK
    <3>5. req[c][k] # done[c][k]
      BY SMTT(30), Z3T(30), <3>1, <3>2, <3>3, <3>4
    <3> QED BY <3>3, <3>5 DEF Drained
  <2>3. targets[i] \subseteq Cpus
    BY DEF OfflineInv, TypeOK
  <2> QED BY <2>1, <2>2, <2>3 DEF OfflineInv, OfflineDrained
<1> QED BY <1>1, OfflineInvHolds, PTL
=============================================================================
