--------------------------- MODULE TaskWakeProofs ---------------------------
(***************************************************************************)
(* The steps of affinity calls and of CPUs keep the invariant of           *)
(* TaskWakeStepProofs; from it: the model's words keep their types, no     *)
(* fail-stop is reached, the stack is live on one CPU only, no wake is     *)
(* lost, and set_current_affinity returns on an allowed CPU.               *)
(***************************************************************************)
EXTENDS TaskWakeStepProofs

\* A leaf that names no prover is one for Zenon.
USE ZenonT(180)

-----------------------------------------------------------------------------
(* set_task_affinity.                                                      *)

\* The affinity claim is dropped by its owner (AffinityMutation::drop).
LEMMA FinishAffinityKeeps ==
    ASSUME Inv, NEW a \in Setters \cup {Task}, FinishAffinity(a) PROVE Inv'
\* AffinityMutation::drop releases the claim.
<1>1. ASSUME FinishAffinity(a), mutation = Mut("affinity", FALSE) PROVE Inv'
  <2> USE <1>1
  <2> USE TaskWakeAssumption DEF Actors
  <2>1. /\ pc[a] = IF a = Task THEN "selffinish" ELSE "finish"
        /\ HoldsAffinity(a)
    BY DEF FinishAffinity, Here, Inv, RoleInv, RoleTask, RoleWaker, RoleSetter,
       SetterLabels, TaskLabels, HoldsAffinity,
       SelfLabels, ClaimLabels, LinkLabels
  <2>2. /\ mutation.owner = "affinity" /\ mutation.wake = FALSE
        /\ mutation # WakeOwned
        /\ mutation # Mut("affinity", TRUE)
    BY MutIs
  <2>3. /\ Goto(a, (IF a = Task THEN "begin" ELSE "idle")) /\ mutation' = Idle
        /\ ret' = [ret EXCEPT ![a] = (IF a = Task THEN "begin" ELSE "idle")]
        /\ UNCHANGED <<bw, task, hand, ready, cur, cpu, locked, loc, events,
                       budget, fault>>
    BY <2>1, <2>2 DEF FinishAffinity, sched, env
  <2>4. /\ a = Task => pc[a] = "selffinish"
        /\ a # Task => pc[a] = "finish"
    BY <2>1
  <2>5. /\ a = Task => pc'[a] = "begin"
        /\ a # Task => pc'[a] = "idle"
        /\ pc' \in [Actors -> Labels] /\ \A b \in Actors \ {a} : pc'[b] = pc[b]
    BY <2>3, Goes DEF Inv, Typed, Labels, WakeLabels, TaskLabels, SetterLabels
  <2>6. /\ a = Task => ret'[a] = "begin"
        /\ a # Task => ret'[a] = "idle"
        /\ ret' \in [Actors -> Returns]
        /\ \A b \in Actors \ {a} : ret'[b] = ret[b]
    BY <2>3 DEF Inv, Typed, Returns, TaskLabels
  <2>7. /\ mutation'.owner = "none" /\ mutation'.wake = FALSE /\ mutation.wake = FALSE
        /\ mutation' \in MutationWords /\ mutation.owner = "affinity"
        /\ mutation # WakeOwned /\ mutation' # WakeOwned
    BY <2>3, <2>2, MutIs
  <2>8. /\ ~hand.pending /\ \A b \in Actors : pc[b] \notin ClaimLabels
        /\ \A b \in Actors : HoldsAffinity(b) => b = a
        /\ \A c \in Cpus : cpu[c].pc \notin {"take", "delegated"}
    BY <2>1, <2>2, NoWakeClaim
       DEF Inv, MutationInv, MutationTask, MutationOnce, MutationHeld, MutationActor,
           MutationCpu
  <2>9. a = Task => task.state = "Running"  BY <2>1 DEF Inv, StackInv, RunLabels
  <2>10. SessionInv'
    <3>1. Polled' => Polled  BY <2>3, <2>4, <2>5, <2>6 DEF Polled, Continues, SchedLabels
    <3>2. WakeUnderway => WakeUnderway'  BY <2>3, <2>4, <2>5, <2>7 DEF WakeUnderway
    <3>3. bw.owner <=> pc'[Task] \in {"beginblock", "abort", "publish", "commit"}
      BY <2>3, <2>4, <2>5 DEF Inv, SessionInv
    <3>4. \A w \in Wakers : pc[w] = "mark" => pc'[w] = "mark"  BY <2>4, <2>5
    <3>5. QED  BY <2>3, <3>1, <3>2, <3>3, <3>4 DEF Inv, SessionInv
  <2> USE <2>3, <2>4, <2>5, <2>6, <2>7, <2>8, <2>9
  <2>11. Typed'  BY DEF Inv, Typed
  <2>12. ~fault'  BY DEF Inv
  <2>13. RoleInv'
    <3>1. RoleTask'
      BY DEF Inv, RoleInv, RoleTask, ClaimLabels, LinkLabels, SetterLabels, TaskLabels,
             SchedLabels, SafePoints
    <3>2. ASSUME NEW y \in Wakers PROVE RoleWaker(y)'
      BY <3>2
         DEF Inv, RoleInv, RoleWaker, ClaimLabels, LinkLabels, SetterLabels,
             TaskLabels, SchedLabels, SafePoints
    <3>3. ASSUME NEW z \in Setters PROVE RoleSetter(z)'
      BY <3>3
         DEF Inv, RoleInv, RoleSetter, ClaimLabels, LinkLabels, SetterLabels,
             TaskLabels, SchedLabels, SafePoints
    <3> QED  BY <3>1, <3>2, <3>3 DEF RoleInv
  <2>14. StackInv'  BY DEF Inv, StackInv, ClaimLabels, LinkLabels, RunLabels
  <2>15. TokenInv'
    <3>1. TokenTask'  BY DEF Inv, TokenInv, TokenTask
    <3>2. ASSUME NEW b \in Actors PROVE TokenActor(b)'
      BY <3>2 DEF Inv, TokenInv, TokenActor
    <3>3. ASSUME NEW x \in Cpus PROVE TokenCpu(x)'
      BY <3>3 DEF Inv, TokenInv, TokenCpu
    <3> QED  BY <3>1, <3>2, <3>3 DEF TokenInv
  <2>16. LinkInv'
    <3>1. \A x \in Cpus : CpuLinks(x)' <=> CpuLinks(x)  BY DEF CpuLinks
    <3>2. \A b \in Actors : ActorLinks(b)' <=> ActorLinks(b)
      BY DEF ActorLinks, LinkLabels
    <3> QED  BY <3>1, <3>2, LinkFrame DEF Inv
  <2>17. HelperInv'  BY DEF Inv, HelperInv, HelperCpu
  <2>18. SlotInv'  BY DEF Inv, SlotInv, SlotTask, SlotHeld, SlotActor, SlotCpu
  <2>19. MutationInv'
    <3>1. \A b \in Actors : ~HoldsAffinity(b)'
      BY DEF HoldsAffinity, SelfLabels, SchedLabels, SetterLabels, ClaimLabels,
         LinkLabels
    <3>2. MutationTask'
      BY <3>1 DEF Inv, MutationInv, MutationTask, ClaimLabels, LinkLabels
    <3>3. MutationOnce'
      BY <3>1 DEF Inv, MutationInv, MutationOnce, ClaimLabels, LinkLabels
    <3>4. MutationHeld'
      BY <3>1 DEF Inv, MutationInv, MutationHeld, ClaimLabels, LinkLabels
    <3>5. ASSUME NEW b \in Actors PROVE MutationActor(b)'
      BY <3>1, <3>5 DEF Inv, MutationInv, MutationActor, ClaimLabels, LinkLabels
    <3>6. ASSUME NEW x \in Cpus PROVE MutationCpu(x)'
      BY <3>1, <3>6 DEF Inv, MutationInv, MutationCpu, ClaimLabels, LinkLabels
    <3> QED  BY <3>2, <3>3, <3>4, <3>5, <3>6 DEF MutationInv
  <2>20. StealInv'  BY DEF Inv, StealInv, StealOnce, StealCpu, StealLabels
  <2>21. PlaceInv'
    <3>1. PlaceTask'  BY DEF Inv, PlaceInv, PlaceTask
    <3>2. ASSUME NEW b \in Actors PROVE PlaceActor(b)'
      BY <3>2 DEF Inv, PlaceInv, PlaceActor, LinkLabels
    <3>3. ASSUME NEW x \in Cpus PROVE PlaceCpu(x)'
      BY <3>3 DEF Inv, PlaceInv, PlaceCpu
    <3> QED  BY <3>1, <3>2, <3>3 DEF PlaceInv
  <2>22. MaskInv'
    <3>1. MaskTask'  BY DEF Inv, MaskInv, MaskTask, MaskSetter, LinkLabels
    <3>2. ASSUME NEW z \in Setters PROVE MaskSetter(z)'
      BY <3>2 DEF Inv, MaskInv, MaskSetter, LinkLabels
    <3>3. ASSUME NEW b \in Actors PROVE MaskActor(b)'
      BY <3>3 DEF Inv, MaskInv, MaskActor, LinkLabels
    <3>4. ASSUME NEW x \in Cpus PROVE MaskCpu(x)'
      BY <3>4 DEF Inv, MaskInv, MaskCpu, LinkLabels
    <3> QED  BY <3>1, <3>2, <3>3, <3>4 DEF MaskInv
  <2>23. PreemptInv'  BY DEF Inv, PreemptInv, Picked, MoveUnderway
  <2>24. SelfInv'
    BY DEF Inv, SelfInv, SelfTask, SelfCpu, SelfMoves, Continues, SchedLabels
  <2>25. ActiveInv'
    BY DEF Inv, ActiveInv, InSession, SessionLabels, SchedLabels, ClaimLabels,
       LinkLabels
  <2>26. QED
    BY <2>10, <2>11, <2>12, <2>13, <2>14, <2>15, <2>16, <2>17, <2>18, <2>19, <2>20,
       <2>21, <2>22, <2>23, <2>24, <2>25 DEF Inv
\* ... or inherits the wake that found the affinity owner.
<1>2. ASSUME FinishAffinity(a), mutation = Mut("affinity", TRUE) PROVE Inv'
  <2> USE <1>2
  <2> USE TaskWakeAssumption DEF Actors
  <2>1. /\ pc[a] = IF a = Task THEN "selffinish" ELSE "finish"
        /\ HoldsAffinity(a)
    BY DEF FinishAffinity, Here, Inv, RoleInv, RoleTask, RoleWaker, RoleSetter,
       SetterLabels, TaskLabels, HoldsAffinity,
       SelfLabels, ClaimLabels, LinkLabels
  <2>2. /\ mutation.owner = "affinity" /\ mutation.wake = TRUE
        /\ mutation # WakeOwned
        /\ mutation # Mut("affinity", FALSE)
    BY MutIs
  <2>3. /\ Goto(a, "select") /\ mutation' = WakeOwned
        /\ ret' = [ret EXCEPT ![a] = (IF a = Task THEN "begin" ELSE "idle")]
        /\ UNCHANGED <<bw, task, hand, ready, cur, cpu, locked, loc, events,
                       budget, fault>>
    BY <2>1, <2>2 DEF FinishAffinity, sched, env
  <2>4. /\ a = Task => pc[a] = "selffinish"
        /\ a # Task => pc[a] = "finish"
    BY <2>1
  <2>5. /\ pc'[a] = "select"
        /\ pc' \in [Actors -> Labels] /\ \A b \in Actors \ {a} : pc'[b] = pc[b]
    BY <2>3, Goes DEF Inv, Typed, Labels, WakeLabels, TaskLabels, SetterLabels
  <2>6. /\ a = Task => ret'[a] = "begin"
        /\ a # Task => ret'[a] = "idle"
        /\ ret' \in [Actors -> Returns]
        /\ \A b \in Actors \ {a} : ret'[b] = ret[b]
    BY <2>3 DEF Inv, Typed, Returns, TaskLabels
  <2>7. /\ mutation'.owner = "none" /\ mutation'.wake = TRUE /\ mutation.wake = TRUE
        /\ mutation' \in MutationWords /\ mutation.owner = "affinity"
        /\ mutation # WakeOwned /\ mutation' = WakeOwned
    BY <2>3, <2>2, MutIs
  <2>8. /\ ~hand.pending /\ \A b \in Actors : pc[b] \notin ClaimLabels
        /\ \A b \in Actors : HoldsAffinity(b) => b = a
        /\ \A c \in Cpus : cpu[c].pc \notin {"take", "delegated"}
    BY <2>1, <2>2, NoWakeClaim
       DEF Inv, MutationInv, MutationTask, MutationOnce, MutationHeld, MutationActor,
           MutationCpu
  <2>9. a = Task => task.state = "Running"  BY <2>1 DEF Inv, StackInv, RunLabels
  <2>10. MutationInv'
    <3>1. \A b \in Actors : ~HoldsAffinity(b)'
      BY <2>3, <2>4, <2>5, <2>6, <2>7, <2>8 DEF HoldsAffinity, SelfLabels, SchedLabels,
         SetterLabels, ClaimLabels, LinkLabels
    <3>2. /\ \A b \in Actors : pc'[b] \in ClaimLabels => b = a
          /\ \E b \in Actors : pc'[b] \in {"select", "unblock"}
          /\ \A b \in Actors : pc'[b] # "release"
      BY <2>5, <2>8 DEF ClaimLabels
    <3>3. /\ pc'[Task] \notin {"publish", "commit", "finishblock"}
          /\ \A c \in Cpus : cpu[c].pc \notin {"stealmove", "stealdone"}
      BY <2>4, <2>5, <2>7
         DEF Inv, MutationInv, MutationTask, MutationOnce, MutationHeld, MutationActor,
             MutationCpu
    <3>4. QED  BY <3>1, <3>2, <3>3, <2>3, <2>7, <2>8
                  DEF MutationInv, MutationTask, MutationOnce, MutationHeld,
                      MutationActor, MutationCpu
  <2> USE <2>3, <2>4, <2>5, <2>6, <2>7, <2>8, <2>9
  <2>11. Typed'  BY DEF Inv, Typed
  <2>12. ~fault'  BY DEF Inv
  <2>13. RoleInv'
    <3>1. RoleTask'
      BY DEF Inv, RoleInv, RoleTask, ClaimLabels, LinkLabels, SetterLabels, TaskLabels,
             SchedLabels, SafePoints
    <3>2. ASSUME NEW y \in Wakers PROVE RoleWaker(y)'
      BY <3>2
         DEF Inv, RoleInv, RoleWaker, ClaimLabels, LinkLabels, SetterLabels,
             TaskLabels, SchedLabels, SafePoints
    <3>3. ASSUME NEW z \in Setters PROVE RoleSetter(z)'
      BY <3>3
         DEF Inv, RoleInv, RoleSetter, ClaimLabels, LinkLabels, SetterLabels,
             TaskLabels, SchedLabels, SafePoints
    <3> QED  BY <3>1, <3>2, <3>3 DEF RoleInv
  <2>14. StackInv'  BY DEF Inv, StackInv, ClaimLabels, LinkLabels, RunLabels
  <2>15. TokenInv'
    <3>1. TokenTask'  BY DEF Inv, TokenInv, TokenTask
    <3>2. ASSUME NEW b \in Actors PROVE TokenActor(b)'
      BY <3>2 DEF Inv, TokenInv, TokenActor
    <3>3. ASSUME NEW x \in Cpus PROVE TokenCpu(x)'
      BY <3>3 DEF Inv, TokenInv, TokenCpu
    <3> QED  BY <3>1, <3>2, <3>3 DEF TokenInv
  <2>16. LinkInv'
    <3>1. \A x \in Cpus : CpuLinks(x)' <=> CpuLinks(x)  BY DEF CpuLinks
    <3>2. \A b \in Actors : ActorLinks(b)' <=> ActorLinks(b)
      BY DEF ActorLinks, LinkLabels
    <3> QED  BY <3>1, <3>2, LinkFrame DEF Inv
  <2>17. HelperInv'  BY DEF Inv, HelperInv, HelperCpu
  <2>18. SlotInv'  BY DEF Inv, SlotInv, SlotTask, SlotHeld, SlotActor, SlotCpu
  <2>19. StealInv'  BY DEF Inv, StealInv, StealOnce, StealCpu, StealLabels
  <2>20. PlaceInv'
    <3>1. PlaceTask'  BY DEF Inv, PlaceInv, PlaceTask
    <3>2. ASSUME NEW b \in Actors PROVE PlaceActor(b)'
      BY <3>2 DEF Inv, PlaceInv, PlaceActor, LinkLabels
    <3>3. ASSUME NEW x \in Cpus PROVE PlaceCpu(x)'
      BY <3>3 DEF Inv, PlaceInv, PlaceCpu
    <3> QED  BY <3>1, <3>2, <3>3 DEF PlaceInv
  <2>21. MaskInv'
    <3>1. MaskTask'  BY DEF Inv, MaskInv, MaskTask, MaskSetter, LinkLabels
    <3>2. ASSUME NEW z \in Setters PROVE MaskSetter(z)'
      BY <3>2 DEF Inv, MaskInv, MaskSetter, LinkLabels
    <3>3. ASSUME NEW b \in Actors PROVE MaskActor(b)'
      BY <3>3 DEF Inv, MaskInv, MaskActor, LinkLabels
    <3>4. ASSUME NEW x \in Cpus PROVE MaskCpu(x)'
      BY <3>4 DEF Inv, MaskInv, MaskCpu, LinkLabels
    <3> QED  BY <3>1, <3>2, <3>3, <3>4 DEF MaskInv
  <2>22. PreemptInv'  BY DEF Inv, PreemptInv, Picked, MoveUnderway
  <2>23. SelfInv'
    BY DEF Inv, SelfInv, SelfTask, SelfCpu, SelfMoves, Continues, SchedLabels
  <2>24. ActiveInv'
    BY DEF Inv, ActiveInv, InSession, SessionLabels, SchedLabels, ClaimLabels,
       LinkLabels
  <2>25. SessionInv'
    BY SMTT(30), Z3T(30) DEF Inv, SessionInv, Polled, Continues, WakeUnderway, SchedLabels
  <2>26. QED
    BY <2>10, <2>11, <2>12, <2>13, <2>14, <2>15, <2>16, <2>17, <2>18, <2>19, <2>20,
       <2>21, <2>22, <2>23, <2>24, <2>25 DEF Inv
<1>3. HoldsAffinity(a) /\ a \in Actors
  BY TaskWakeAssumption
     DEF FinishAffinity, Here, Inv, RoleInv, RoleTask, RoleWaker, RoleSetter,
         SetterLabels,
     TaskLabels,
     HoldsAffinity, SelfLabels, ClaimLabels, LinkLabels, Actors
<1>4. mutation.owner = "affinity" /\ mutation \in MutationWords
  BY <1>3
     DEF Inv, MutationInv, MutationTask, MutationOnce, MutationHeld, MutationActor,
         MutationCpu, Typed
<1>5. mutation = Mut("affinity", FALSE) \/ mutation = Mut("affinity", TRUE)
  BY <1>4, OwnedIs
<1>6. QED  BY <1>5, <1>1, <1>2

\* The claim, the publication and the routing of an affinity change keep the invariant.
LEMMA RouteKeeps ==
    ASSUME Inv, NEW s \in Setters,
           BeginAffinity(s) \/ PublishAffinity(s) \/ RouteAffinity(s)
    PROVE  Inv'
\* AffinityMutation::try_begin on an idle word claims it.
<1>1. ASSUME BeginAffinity(s), mutation = Idle PROVE Inv'
  <2> USE <1>1
  <2> USE TaskWakeAssumption DEF Actors
  <2>1. pc[s] = "idle"  BY DEF BeginAffinity, Here
  <2>2. PICK m \in Masks : loc' = [loc EXCEPT ![s].mask = m]  BY DEF BeginAffinity
  <2>3. m \in SUBSET Cpus /\ loc \in [Actors -> Locals]  BY <2>2 DEF Inv, Typed
  <2>4. /\ pc[s] = "idle" /\ Goto(s, "admit")
        /\ mutation' = Mut("affinity", FALSE) /\ mutation = Idle
        /\ UNCHANGED <<bw, task, hand, ready, cur, cpu, locked, ret, events,
                       fault>>
    BY <2>1 DEF BeginAffinity, sched
  <2>5. /\ pc'[s] = "admit" /\ pc' \in [Actors -> Labels]
        /\ \A b \in Actors \ {s} : pc'[b] = pc[b]
    BY <2>4, Goes DEF Inv, Typed, Labels, WakeLabels, TaskLabels, SetterLabels
  <2>6. /\ loc' \in [Actors -> Locals] /\ loc'[s].cpu = loc[s].cpu /\ loc'[s].seen = loc[s].seen
        /\ \A b \in Actors \ {s} : loc'[b] = loc[b]
    BY SMTT(30), Z3T(30), <2>2, <2>3 DEF Locals
  <2>7. /\ budget'.refused = budget.refused
        /\ budget' \in [sessions : Nat, contention : Nat, self : Nat, refused : Nat,
                      calls : [Wakers \cup Setters -> Nat]]
    BY SMTT(30), Z3T(30) DEF BeginAffinity, Inv, Typed
  <2>8. /\ mutation'.owner = "affinity" /\ mutation' # WakeOwned
        /\ mutation' \in MutationWords /\ mutation.owner = "none" /\ mutation # WakeOwned
    BY <2>4, MutIs
  <2>9. /\ ~hand.pending /\ \A a \in Actors : pc[a] \notin ClaimLabels
        /\ \A a \in Actors : ~HoldsAffinity(a)
        /\ \A c \in Cpus : cpu[c].pc \notin {"take", "delegated", "stealmove", "stealdone"}
    BY <2>4, NoClaims
  <2>10. MaskInv'
    <3>1. task.state = "Blocked" => task.cpu \in task.mask
      BY <2>8 DEF Inv, MaskInv, MaskTask, MaskSetter, MaskActor, MaskCpu
    <3>2. \A a \in Actors : pc'[a] \in LinkLabels => pc[a] \in LinkLabels
      BY <2>5 DEF LinkLabels
    <3>3. \A r \in Setters \ {s} : pc'[r] = pc[r] /\ loc'[r].mask = loc[r].mask
      BY <2>5, <2>6
    <3>4. QED  BY <3>1, <3>2, <3>3, <2>4, <2>5, <2>8
                  DEF Inv, MaskInv, MaskTask, MaskSetter, MaskActor, MaskCpu
  <2>11. SessionInv'
    BY <2>4, <2>5, <2>8 DEF Inv, SessionInv, Polled, Continues, WakeUnderway,
       SchedLabels
  <2> USE <2>4, <2>5, <2>6, <2>7, <2>8, <2>9
  <2>12. Typed'  BY DEF Inv, Typed
  <2>13. ~fault'  BY DEF Inv
  <2>14. RoleInv'
    <3>1. RoleTask'
      BY DEF Inv, RoleInv, RoleTask, ClaimLabels, LinkLabels, SetterLabels, TaskLabels,
             SchedLabels, SafePoints
    <3>2. ASSUME NEW y \in Wakers PROVE RoleWaker(y)'
      BY SMTT(30), Z3T(30), <3>2
         DEF Inv, RoleInv, RoleWaker, ClaimLabels, LinkLabels, SetterLabels,
             TaskLabels, SchedLabels, SafePoints
    <3>3. ASSUME NEW z \in Setters PROVE RoleSetter(z)'
      BY <3>3
         DEF Inv, RoleInv, RoleSetter, ClaimLabels, LinkLabels, SetterLabels,
             TaskLabels, SchedLabels, SafePoints
    <3> QED  BY <3>1, <3>2, <3>3 DEF RoleInv
  <2>15. StackInv'  BY DEF Inv, StackInv, ClaimLabels, LinkLabels, RunLabels
  <2>16. TokenInv'
    <3>1. TokenTask'  BY DEF Inv, TokenInv, TokenTask
    <3>2. ASSUME NEW b \in Actors PROVE TokenActor(b)'
      BY <3>2 DEF Inv, TokenInv, TokenActor
    <3>3. ASSUME NEW x \in Cpus PROVE TokenCpu(x)'
      BY <3>3 DEF Inv, TokenInv, TokenCpu
    <3> QED  BY <3>1, <3>2, <3>3 DEF TokenInv
  <2>17. LinkInv'
    <3>1. \A x \in Cpus : CpuLinks(x)' <=> CpuLinks(x)  BY DEF CpuLinks
    <3>2. \A b \in Actors : ActorLinks(b)' <=> ActorLinks(b)
      BY DEF ActorLinks, LinkLabels
    <3> QED  BY <3>1, <3>2, LinkFrame DEF Inv
  <2>18. HelperInv'  BY DEF Inv, HelperInv, HelperCpu
  <2>19. SlotInv'  BY DEF Inv, SlotInv, SlotTask, SlotHeld, SlotActor, SlotCpu
  <2>20. MutationInv'
    <3>1. \A b \in Actors : HoldsAffinity(b)' => b = s
      BY DEF HoldsAffinity, SelfLabels, SchedLabels, SetterLabels, ClaimLabels,
         LinkLabels
    <3>2. MutationTask'
      BY <3>1 DEF Inv, MutationInv, MutationTask, ClaimLabels, LinkLabels
    <3>3. MutationOnce'
      BY <3>1 DEF Inv, MutationInv, MutationOnce, ClaimLabels, LinkLabels
    <3>4. MutationHeld'
      BY <3>1 DEF Inv, MutationInv, MutationHeld, ClaimLabels, LinkLabels
    <3>5. ASSUME NEW b \in Actors PROVE MutationActor(b)'
      BY <3>1, <3>5 DEF Inv, MutationInv, MutationActor, ClaimLabels, LinkLabels
    <3>6. ASSUME NEW x \in Cpus PROVE MutationCpu(x)'
      BY <3>1, <3>6 DEF Inv, MutationInv, MutationCpu, ClaimLabels, LinkLabels
    <3> QED  BY <3>2, <3>3, <3>4, <3>5, <3>6 DEF MutationInv
  <2>21. StealInv'
    <3>1. StealOnce'  BY DEF Inv, StealInv, StealOnce, StealLabels
    <3>2. ASSUME NEW x \in Cpus PROVE StealCpu(x)'
      BY <3>2 DEF Inv, StealInv, StealCpu, StealLabels
    <3> QED  BY <3>1, <3>2 DEF StealInv
  <2>22. PlaceInv'
    <3>1. PlaceTask'  BY DEF Inv, PlaceInv, PlaceTask
    <3>2. ASSUME NEW b \in Actors PROVE PlaceActor(b)'
      BY <3>2 DEF Inv, PlaceInv, PlaceActor, LinkLabels
    <3>3. ASSUME NEW x \in Cpus PROVE PlaceCpu(x)'
      BY <3>3 DEF Inv, PlaceInv, PlaceCpu
    <3> QED  BY <3>1, <3>2, <3>3 DEF PlaceInv
  <2>23. PreemptInv'  BY DEF Inv, PreemptInv, Picked, MoveUnderway
  <2>24. SelfInv'
    BY DEF Inv, SelfInv, SelfTask, SelfCpu, SelfMoves, Continues, SchedLabels
  <2>25. ActiveInv'
    BY DEF Inv, ActiveInv, InSession, SessionLabels, SchedLabels, ClaimLabels,
       LinkLabels
  <2>26. QED
    BY <2>10, <2>11, <2>12, <2>13, <2>14, <2>15, <2>16, <2>17, <2>18, <2>19, <2>20,
       <2>21, <2>22, <2>23, <2>24, <2>25 DEF Inv
\* ... and gives up on a task it sees Exited.
<1>2. ASSUME BeginAffinity(s), mutation # Idle PROVE Inv'
  <2> USE <1>2
  <2> USE TaskWakeAssumption DEF Actors
  <2>1. pc[s] = "idle"  BY DEF BeginAffinity, Here
  <2>2. PICK m \in Masks : loc' = [loc EXCEPT ![s].mask = m]  BY DEF BeginAffinity
  <2>3. m \in SUBSET Cpus /\ loc \in [Actors -> Locals]  BY <2>2 DEF Inv, Typed
  <2>4. /\ pc[s] = "idle"
        /\ UNCHANGED <<bw, mutation, task, hand, ready, cur, cpu, locked, pc,
                       ret, events, fault>>
    BY <2>1 DEF BeginAffinity, sched
  <2>5. /\ loc' \in [Actors -> Locals] /\ loc'[s].cpu = loc[s].cpu /\ loc'[s].seen = loc[s].seen
        /\ \A b \in Actors \ {s} : loc'[b] = loc[b]
    BY SMTT(30), Z3T(30), <2>2, <2>3 DEF Locals
  <2>6. /\ budget'.refused = budget.refused
        /\ budget' \in [sessions : Nat, contention : Nat, self : Nat, refused : Nat,
                      calls : [Wakers \cup Setters -> Nat]]
    BY SMTT(30), Z3T(30) DEF BeginAffinity, Inv, Typed
  <2> USE <2>4, <2>5, <2>6
  <2>7. Typed'  BY DEF Inv, Typed
  <2>8. ~fault'  BY DEF Inv
  <2>9. RoleInv'
    BY DEF Inv, RoleInv, RoleTask, RoleWaker, RoleSetter, ClaimLabels, LinkLabels,
       SetterLabels, TaskLabels,
       SchedLabels, SafePoints
  <2>10. StackInv'  BY DEF Inv, StackInv, ClaimLabels, LinkLabels, RunLabels
  <2>11. TokenInv'
    <3>1. TokenTask'  BY DEF Inv, TokenInv, TokenTask
    <3>2. ASSUME NEW b \in Actors PROVE TokenActor(b)'
      BY <3>2 DEF Inv, TokenInv, TokenActor
    <3>3. ASSUME NEW x \in Cpus PROVE TokenCpu(x)'
      BY <3>3 DEF Inv, TokenInv, TokenCpu
    <3> QED  BY <3>1, <3>2, <3>3 DEF TokenInv
  <2>12. LinkInv'
    <3>1. \A x \in Cpus : CpuLinks(x)' <=> CpuLinks(x)  BY DEF CpuLinks
    <3>2. \A b \in Actors : ActorLinks(b)' <=> ActorLinks(b)
      BY DEF ActorLinks, LinkLabels
    <3> QED  BY <3>1, <3>2, LinkFrame DEF Inv
  <2>13. HelperInv'  BY DEF Inv, HelperInv, HelperCpu
  <2>14. SlotInv'  BY DEF Inv, SlotInv, SlotTask, SlotHeld, SlotActor, SlotCpu
  <2>15. MutationInv'
    <3>1. \A b \in Actors : HoldsAffinity(b)' => HoldsAffinity(b)
      BY DEF HoldsAffinity, SelfLabels, SchedLabels, SetterLabels, ClaimLabels,
         LinkLabels
    <3>2. QED  BY <3>1
                  DEF Inv, MutationInv, MutationTask, MutationOnce, MutationHeld,
                      MutationActor, MutationCpu, ClaimLabels, LinkLabels
  <2>16. StealInv'  BY DEF Inv, StealInv, StealOnce, StealCpu, StealLabels
  <2>17. PlaceInv'
    <3>1. PlaceTask'  BY DEF Inv, PlaceInv, PlaceTask
    <3>2. ASSUME NEW b \in Actors PROVE PlaceActor(b)'
      BY <3>2 DEF Inv, PlaceInv, PlaceActor, LinkLabels
    <3>3. ASSUME NEW x \in Cpus PROVE PlaceCpu(x)'
      BY <3>3 DEF Inv, PlaceInv, PlaceCpu
    <3> QED  BY <3>1, <3>2, <3>3 DEF PlaceInv
  <2>18. MaskInv'
    BY DEF Inv, MaskInv, MaskTask, MaskSetter, MaskActor, MaskCpu, LinkLabels
  <2>19. PreemptInv'  BY DEF Inv, PreemptInv, Picked, MoveUnderway
  <2>20. SelfInv'
    BY DEF Inv, SelfInv, SelfTask, SelfCpu, SelfMoves, Continues, SchedLabels
  <2>21. ActiveInv'
    BY DEF Inv, ActiveInv, InSession, SessionLabels, SchedLabels, ClaimLabels,
       LinkLabels
  <2>22. SessionInv'  BY DEF Inv, SessionInv, Polled, Continues, WakeUnderway, SchedLabels
  <2>23. QED
    BY <2>7, <2>8, <2>9, <2>10, <2>11, <2>12, <2>13, <2>14, <2>15, <2>16, <2>17, <2>18,
       <2>19, <2>20, <2>21, <2>22 DEF Inv
\* set_task_affinity publishes the mask and a helper under its claim.
<1>3. ASSUME PublishAffinity(s), Goto(s, "route") PROVE Inv'
  <2> USE <1>3
  <2> USE TaskWakeAssumption DEF Actors
  <2>1. /\ pc'[s] = "route"
    BY Goes DEF Inv, Typed, Labels, WakeLabels, TaskLabels, SetterLabels
  <2>2. ~Goto(s, "finish")
    BY SMTT(30), Z3T(30), <2>1, Goes
       DEF Inv, Typed, Labels, WakeLabels, TaskLabels, SetterLabels
  <2>3. /\ pc[s] = "admit" /\ Goto(s, "route")
        /\ UNCHANGED <<bw, mutation, hand, ready, cur, cpu, locked, ret, loc,
                       events, budget, fault>>
    BY <2>2 DEF PublishAffinity, Here, sched, env
  <2>4. /\ pc'[s] = "route" /\ pc' \in [Actors -> Labels]
        /\ \A b \in Actors \ {s} : pc'[b] = pc[b]
    BY <2>3, Goes DEF Inv, Typed, Labels, WakeLabels, TaskLabels, SetterLabels
  <2>5. (IF loc[s].mask = Cpus THEN NoCpu ELSE s) \in Setters \cup {Task, NoCpu} /\ loc[s].mask \in SUBSET Cpus
    BY DEF Inv, Typed, Locals
  <2>6. /\ task \in TaskWords /\ task' = [task EXCEPT !.mask = loc[s].mask, !.helper = (IF loc[s].mask = Cpus THEN NoCpu ELSE s)]
        /\ (IF loc[s].mask = Cpus THEN NoCpu ELSE s) \in Setters \cup {Task, NoCpu}
        /\ loc[s].mask \in SUBSET Cpus
    BY <2>5, <2>2 DEF Inv, Typed, PublishAffinity
  <2>7. /\ task'.state = task.state /\ task'.cpu = task.cpu
        /\ task'.mask = loc[s].mask
        /\ task'.helper = (IF loc[s].mask = Cpus THEN NoCpu ELSE s)
        /\ task'.resched = task.resched
        /\ task' \in TaskWords
    BY <2>6 DEF TaskWords
  <2>8. /\ mutation.owner = "affinity" /\ mutation # WakeOwned
        /\ \A b \in Actors : HoldsAffinity(b) => b = s
    BY <2>3, MutIs
       DEF Inv, MutationInv, MutationTask, MutationOnce, MutationHeld, MutationActor,
           MutationCpu, HoldsAffinity, SetterLabels
  <2>9. /\ pc[Task] \notin SelfLabels /\ ~(pc[Task] \in SchedLabels /\ ret[Task] \in SelfLabels)
        /\ pc[Task] \notin {"publish", "commit", "finishblock"}
    BY <2>8
       DEF HoldsAffinity, Inv, MutationInv, MutationTask, MutationOnce, MutationHeld,
           MutationActor, MutationCpu
  <2>10. /\ ~hand.pending /\ \A b \in Actors : pc[b] \notin ClaimLabels
         /\ \A c \in Cpus : cpu[c].pc \notin {"take", "delegated"}
    BY <2>8, NoWakeClaim
  <2> USE <2>3, <2>4, <2>7, <2>8, <2>9, <2>10
  <2>11. Typed'  BY DEF Inv, Typed
  <2>12. ~fault'  BY DEF Inv
  <2>13. RoleInv'
    <3>1. RoleTask'
      BY DEF Inv, RoleInv, RoleTask, ClaimLabels, LinkLabels, SetterLabels, TaskLabels,
             SchedLabels, SafePoints
    <3>2. ASSUME NEW y \in Wakers PROVE RoleWaker(y)'
      BY <3>2
         DEF Inv, RoleInv, RoleWaker, ClaimLabels, LinkLabels, SetterLabels,
             TaskLabels, SchedLabels, SafePoints
    <3>3. ASSUME NEW z \in Setters PROVE RoleSetter(z)'
      BY <3>3
         DEF Inv, RoleInv, RoleSetter, ClaimLabels, LinkLabels, SetterLabels,
             TaskLabels, SchedLabels, SafePoints
    <3> QED  BY <3>1, <3>2, <3>3 DEF RoleInv
  <2>14. StackInv'  BY DEF Inv, StackInv, ClaimLabels, LinkLabels, RunLabels
  <2>15. TokenInv'  BY DEF Inv, TokenInv, TokenTask, TokenActor, TokenCpu
  <2>16. LinkInv'
    <3>1. \A x \in Cpus : CpuLinks(x)' <=> CpuLinks(x)  BY DEF CpuLinks
    <3>2. \A b \in Actors : ActorLinks(b)' <=> ActorLinks(b)
      BY DEF ActorLinks, LinkLabels
    <3> QED  BY <3>1, <3>2, LinkFrame DEF Inv
  <2>17. HelperInv'  BY DEF Inv, HelperInv, HelperCpu
  <2>18. SlotInv'  BY DEF Inv, SlotInv, SlotTask, SlotHeld, SlotActor, SlotCpu
  <2>19. MutationInv'
    <3>1. \A b \in Actors : HoldsAffinity(b)' => HoldsAffinity(b)
      BY DEF HoldsAffinity, SelfLabels, SchedLabels, SetterLabels, ClaimLabels,
         LinkLabels
    <3>2. MutationTask'
      BY <3>1 DEF Inv, MutationInv, MutationTask, ClaimLabels, LinkLabels
    <3>3. MutationOnce'
      BY <3>1 DEF Inv, MutationInv, MutationOnce, ClaimLabels, LinkLabels
    <3>4. MutationHeld'
      BY <3>1 DEF Inv, MutationInv, MutationHeld, ClaimLabels, LinkLabels
    <3>5. ASSUME NEW b \in Actors PROVE MutationActor(b)'
      BY <3>1, <3>5 DEF Inv, MutationInv, MutationActor, ClaimLabels, LinkLabels
    <3>6. ASSUME NEW x \in Cpus PROVE MutationCpu(x)'
      BY <3>1, <3>6 DEF Inv, MutationInv, MutationCpu, ClaimLabels, LinkLabels
    <3> QED  BY <3>2, <3>3, <3>4, <3>5, <3>6 DEF MutationInv
  <2>20. StealInv'  BY DEF Inv, StealInv, StealOnce, StealCpu, StealLabels
  <2>21. PlaceInv'
    <3>1. PlaceTask'  BY DEF Inv, PlaceInv, PlaceTask
    <3>2. ASSUME NEW b \in Actors PROVE PlaceActor(b)'
      BY <3>2 DEF Inv, PlaceInv, PlaceActor, LinkLabels
    <3>3. ASSUME NEW x \in Cpus PROVE PlaceCpu(x)'
      BY <3>3 DEF Inv, PlaceInv, PlaceCpu
    <3> QED  BY <3>1, <3>2, <3>3 DEF PlaceInv
  <2>22. MaskInv'
    BY DEF Inv, MaskInv, MaskTask, MaskSetter, MaskActor, MaskCpu, LinkLabels,
       HoldsAffinity, SetterLabels, ClaimLabels
  <2>23. PreemptInv'  BY DEF Inv, PreemptInv, Picked, MoveUnderway
  <2>24. SelfInv'
    BY DEF Inv, SelfInv, SelfTask, SelfCpu, SelfMoves, Continues, SchedLabels, SelfLabels
  <2>25. ActiveInv'
    BY DEF Inv, ActiveInv, InSession, SessionLabels, SchedLabels, ClaimLabels,
       LinkLabels
  <2>26. SessionInv'  BY DEF Inv, SessionInv, Polled, Continues, WakeUnderway, SchedLabels
  <2>27. QED
    BY <2>11, <2>12, <2>13, <2>14, <2>15, <2>16, <2>17, <2>18, <2>19, <2>20, <2>21,
       <2>22, <2>23, <2>24, <2>25, <2>26 DEF Inv
\* ... or refuses an exited task or a failed helper and leaves both.
<1>4. ASSUME PublishAffinity(s), Goto(s, "finish") PROVE Inv'
  <2> USE <1>4
  <2> USE TaskWakeAssumption DEF Actors
  <2>1. /\ pc'[s] = "finish"
    BY Goes DEF Inv, Typed, Labels, WakeLabels, TaskLabels, SetterLabels
  <2>2. ~Goto(s, "route")
    BY SMTT(30), Z3T(30), <2>1, Goes
       DEF Inv, Typed, Labels, WakeLabels, TaskLabels, SetterLabels
  <2>3. /\ pc[s] = "admit" /\ Goto(s, "finish")
        /\ UNCHANGED <<bw, mutation, task, hand, ready, cur, cpu, locked, ret,
                       loc, events, budget, fault>>
    BY <2>2 DEF PublishAffinity, Here, sched, env
  <2>4. /\ pc'[s] = "finish" /\ pc' \in [Actors -> Labels]
        /\ \A b \in Actors \ {s} : pc'[b] = pc[b]
    BY <2>3, Goes DEF Inv, Typed, Labels, WakeLabels, TaskLabels, SetterLabels
  <2>5. /\ mutation.owner = "affinity" /\ mutation # WakeOwned
        /\ \A b \in Actors : HoldsAffinity(b) => b = s
    BY <2>3, MutIs
       DEF Inv, MutationInv, MutationTask, MutationOnce, MutationHeld, MutationActor,
           MutationCpu, HoldsAffinity, SetterLabels
  <2>6. /\ pc[Task] \notin SelfLabels /\ ~(pc[Task] \in SchedLabels /\ ret[Task] \in SelfLabels)
        /\ pc[Task] \notin {"publish", "commit", "finishblock"}
    BY <2>5
       DEF HoldsAffinity, Inv, MutationInv, MutationTask, MutationOnce, MutationHeld,
           MutationActor, MutationCpu
  <2>7. /\ ~hand.pending /\ \A b \in Actors : pc[b] \notin ClaimLabels
        /\ \A c \in Cpus : cpu[c].pc \notin {"take", "delegated"}
    BY <2>5, NoWakeClaim
  <2> USE <2>3, <2>4, <2>5, <2>6, <2>7
  <2>8. Typed'  BY DEF Inv, Typed
  <2>9. ~fault'  BY DEF Inv
  <2>10. RoleInv'
    <3>1. RoleTask'
      BY DEF Inv, RoleInv, RoleTask, ClaimLabels, LinkLabels, SetterLabels, TaskLabels,
             SchedLabels, SafePoints
    <3>2. ASSUME NEW y \in Wakers PROVE RoleWaker(y)'
      BY <3>2
         DEF Inv, RoleInv, RoleWaker, ClaimLabels, LinkLabels, SetterLabels,
             TaskLabels, SchedLabels, SafePoints
    <3>3. ASSUME NEW z \in Setters PROVE RoleSetter(z)'
      BY <3>3
         DEF Inv, RoleInv, RoleSetter, ClaimLabels, LinkLabels, SetterLabels,
             TaskLabels, SchedLabels, SafePoints
    <3> QED  BY <3>1, <3>2, <3>3 DEF RoleInv
  <2>11. StackInv'  BY DEF Inv, StackInv, ClaimLabels, LinkLabels, RunLabels
  <2>12. TokenInv'  BY DEF Inv, TokenInv, TokenTask, TokenActor, TokenCpu
  <2>13. LinkInv'
    <3>1. \A x \in Cpus : CpuLinks(x)' <=> CpuLinks(x)  BY DEF CpuLinks
    <3>2. \A b \in Actors : ActorLinks(b)' <=> ActorLinks(b)
      BY DEF ActorLinks, LinkLabels
    <3> QED  BY <3>1, <3>2, LinkFrame DEF Inv
  <2>14. HelperInv'  BY DEF Inv, HelperInv, HelperCpu
  <2>15. SlotInv'  BY DEF Inv, SlotInv, SlotTask, SlotHeld, SlotActor, SlotCpu
  <2>16. MutationInv'
    <3>1. \A b \in Actors : HoldsAffinity(b)' => HoldsAffinity(b)
      BY DEF HoldsAffinity, SelfLabels, SchedLabels, SetterLabels, ClaimLabels,
         LinkLabels
    <3>2. MutationTask'
      BY <3>1 DEF Inv, MutationInv, MutationTask, ClaimLabels, LinkLabels
    <3>3. MutationOnce'
      BY <3>1 DEF Inv, MutationInv, MutationOnce, ClaimLabels, LinkLabels
    <3>4. MutationHeld'
      BY <3>1 DEF Inv, MutationInv, MutationHeld, ClaimLabels, LinkLabels
    <3>5. ASSUME NEW b \in Actors PROVE MutationActor(b)'
      BY <3>1, <3>5 DEF Inv, MutationInv, MutationActor, ClaimLabels, LinkLabels
    <3>6. ASSUME NEW x \in Cpus PROVE MutationCpu(x)'
      BY <3>1, <3>6 DEF Inv, MutationInv, MutationCpu, ClaimLabels, LinkLabels
    <3> QED  BY <3>2, <3>3, <3>4, <3>5, <3>6 DEF MutationInv
  <2>17. StealInv'  BY DEF Inv, StealInv, StealOnce, StealCpu, StealLabels
  <2>18. PlaceInv'  BY DEF Inv, PlaceInv, PlaceTask, PlaceActor, PlaceCpu, LinkLabels
  <2>19. MaskInv'
    BY DEF Inv, MaskInv, MaskTask, MaskSetter, MaskActor, MaskCpu, LinkLabels
  <2>20. PreemptInv'  BY DEF Inv, PreemptInv, Picked, MoveUnderway
  <2>21. SelfInv'
    BY DEF Inv, SelfInv, SelfTask, SelfCpu, SelfMoves, Continues, SchedLabels, SelfLabels
  <2>22. ActiveInv'
    BY DEF Inv, ActiveInv, InSession, SessionLabels, SchedLabels, ClaimLabels,
       LinkLabels
  <2>23. SessionInv'  BY DEF Inv, SessionInv, Polled, Continues, WakeUnderway, SchedLabels
  <2>24. QED
    BY <2>8, <2>9, <2>10, <2>11, <2>12, <2>13, <2>14, <2>15, <2>16, <2>17, <2>18,
       <2>19, <2>20, <2>21, <2>22, <2>23 DEF Inv
\* A Ready task is inspected in the queue its cpu_id names.
<1>5. ASSUME RouteAffinity(s), task.state = "Ready" PROVE Inv'
  <2> USE <1>5
  <2> USE TaskWakeAssumption DEF Actors
  <2>1. pc[s] = "route"  BY DEF RouteAffinity, Here
  <2>2. /\ pc[s] = "route" /\ Goto(s, "inspect")
        /\ UNCHANGED <<bw, mutation, task, hand, ready, cur, cpu, locked, ret,
                       events, budget, fault>>
    BY <2>1 DEF RouteAffinity, sched, env
  <2>3. /\ pc'[s] = "inspect" /\ pc' \in [Actors -> Labels]
        /\ \A b \in Actors \ {s} : pc'[b] = pc[b]
    BY <2>2, Goes DEF Inv, Typed, Labels, WakeLabels, TaskLabels, SetterLabels
  <2>4. /\ loc' = [loc EXCEPT ![s].cpu = task.cpu] /\ task.cpu \in Cpus
        /\ loc \in [Actors -> Locals]
    BY DEF RouteAffinity, Inv, Typed, TaskWords
  <2>5. /\ loc'[s].cpu = task.cpu /\ loc' \in [Actors -> Locals]
        /\ \A b \in Actors \ {s} : loc'[b] = loc[b]
    BY SMTT(30), Z3T(30), <2>4 DEF Locals
  <2>6. /\ mutation.owner = "affinity" /\ mutation # WakeOwned
        /\ \A b \in Actors : HoldsAffinity(b) => b = s
    BY <2>2, MutIs
       DEF Inv, MutationInv, MutationTask, MutationOnce, MutationHeld, MutationActor,
           MutationCpu, HoldsAffinity, SetterLabels
  <2>7. /\ pc[Task] \notin SelfLabels /\ ~(pc[Task] \in SchedLabels /\ ret[Task] \in SelfLabels)
        /\ pc[Task] \notin {"publish", "commit", "finishblock"}
    BY <2>6
       DEF HoldsAffinity, Inv, MutationInv, MutationTask, MutationOnce, MutationHeld,
           MutationActor, MutationCpu
  <2>8. /\ ~hand.pending /\ \A b \in Actors : pc[b] \notin ClaimLabels
        /\ \A c \in Cpus : cpu[c].pc \notin {"take", "delegated"}
    BY <2>6, NoWakeClaim
  <2> USE <2>2, <2>3, <2>5, <2>6, <2>7, <2>8
  <2>9. Typed'  BY DEF Inv, Typed
  <2>10. ~fault'  BY DEF Inv
  <2>11. RoleInv'
    <3>1. RoleTask'
      BY DEF Inv, RoleInv, RoleTask, ClaimLabels, LinkLabels, SetterLabels, TaskLabels,
             SchedLabels, SafePoints
    <3>2. ASSUME NEW y \in Wakers PROVE RoleWaker(y)'
      BY <3>2
         DEF Inv, RoleInv, RoleWaker, ClaimLabels, LinkLabels, SetterLabels,
             TaskLabels, SchedLabels, SafePoints
    <3>3. ASSUME NEW z \in Setters PROVE RoleSetter(z)'
      BY <3>3
         DEF Inv, RoleInv, RoleSetter, ClaimLabels, LinkLabels, SetterLabels,
             TaskLabels, SchedLabels, SafePoints
    <3> QED  BY <3>1, <3>2, <3>3 DEF RoleInv
  <2>12. StackInv'  BY DEF Inv, StackInv, ClaimLabels, LinkLabels, RunLabels
  <2>13. TokenInv'
    <3>1. TokenTask'  BY DEF Inv, TokenInv, TokenTask
    <3>2. ASSUME NEW b \in Actors PROVE TokenActor(b)'
      BY <3>2 DEF Inv, TokenInv, TokenActor
    <3>3. ASSUME NEW x \in Cpus PROVE TokenCpu(x)'
      BY <3>3 DEF Inv, TokenInv, TokenCpu
    <3> QED  BY <3>1, <3>2, <3>3 DEF TokenInv
  <2>14. LinkInv'
    <3>1. \A x \in Cpus : CpuLinks(x)' <=> CpuLinks(x)  BY DEF CpuLinks
    <3>2. \A b \in Actors : ActorLinks(b)' <=> ActorLinks(b)
      BY DEF ActorLinks, LinkLabels
    <3> QED  BY <3>1, <3>2, LinkFrame DEF Inv
  <2>15. HelperInv'  BY DEF Inv, HelperInv, HelperCpu
  <2>16. SlotInv'  BY DEF Inv, SlotInv, SlotTask, SlotHeld, SlotActor, SlotCpu
  <2>17. MutationInv'
    <3>1. \A b \in Actors : HoldsAffinity(b)' => HoldsAffinity(b)
      BY DEF HoldsAffinity, SelfLabels, SchedLabels, SetterLabels, ClaimLabels,
         LinkLabels
    <3>2. QED  BY <3>1
                  DEF Inv, MutationInv, MutationTask, MutationOnce, MutationHeld,
                      MutationActor, MutationCpu, ClaimLabels, LinkLabels
  <2>18. StealInv'  BY DEF Inv, StealInv, StealOnce, StealCpu, StealLabels
  <2>19. PlaceInv'
    <3>1. PlaceTask'  BY DEF Inv, PlaceInv, PlaceTask
    <3>2. ASSUME NEW b \in Actors PROVE PlaceActor(b)'
      BY <3>2 DEF Inv, PlaceInv, PlaceActor, LinkLabels
    <3>3. ASSUME NEW x \in Cpus PROVE PlaceCpu(x)'
      BY <3>3 DEF Inv, PlaceInv, PlaceCpu
    <3> QED  BY <3>1, <3>2, <3>3 DEF PlaceInv
  <2>20. MaskInv'
    <3>1. MaskTask'  BY DEF Inv, MaskInv, MaskTask, LinkLabels
    <3>2. ASSUME NEW z \in Setters PROVE MaskSetter(z)'
      BY <3>2 DEF Inv, MaskInv, MaskSetter, LinkLabels
    <3>3. ASSUME NEW b \in Actors PROVE MaskActor(b)'
      BY <3>3 DEF Inv, MaskInv, MaskActor, LinkLabels
    <3>4. ASSUME NEW x \in Cpus PROVE MaskCpu(x)'
      BY <3>4 DEF Inv, MaskInv, MaskCpu, LinkLabels
    <3> QED  BY <3>1, <3>2, <3>3, <3>4 DEF MaskInv
  <2>21. PreemptInv'  BY DEF Inv, PreemptInv, Picked, MoveUnderway
  <2>22. SelfInv'
    BY DEF Inv, SelfInv, SelfTask, SelfCpu, SelfMoves, Continues, SchedLabels, SelfLabels
  <2>23. ActiveInv'
    BY DEF Inv, ActiveInv, InSession, SessionLabels, SchedLabels, ClaimLabels,
       LinkLabels
  <2>24. SessionInv'  BY DEF Inv, SessionInv, Polled, Continues, WakeUnderway, SchedLabels
  <2>25. QED
    BY <2>9, <2>10, <2>11, <2>12, <2>13, <2>14, <2>15, <2>16, <2>17, <2>18, <2>19,
       <2>20, <2>21, <2>22, <2>23, <2>24 DEF Inv
\* A Running task on an excluded CPU is nudged.
<1>6. ASSUME RouteAffinity(s), task.state = "Running" PROVE Inv'
  <2> USE <1>6
  <2> USE TaskWakeAssumption DEF Actors
  <2>1. pc[s] = "route"  BY DEF RouteAffinity, Here
  <2>2. /\ pc[s] = "route" /\ Goto(s, IF task.cpu \in loc[s].mask THEN "finish" ELSE "nudge")
        /\ task.state = "Running" /\ loc[s].mask = task.mask
        /\ UNCHANGED <<bw, mutation, task, hand, ready, cur, cpu, locked, ret,
                       loc, events, budget, fault>>
    BY <2>1
       DEF RouteAffinity, sched, env, Inv, MaskInv, MaskTask, MaskSetter, MaskActor,
           MaskCpu
  <2>3. /\ pc'[s] \in {"finish", "nudge"} /\ (pc'[s] = "finish" => task.cpu \in task.mask)
        /\ pc' \in [Actors -> Labels] /\ \A b \in Actors \ {s} : pc'[b] = pc[b]
    BY SMTT(30), Z3T(30), <2>2, Goes
       DEF Inv, Typed, Labels, WakeLabels, TaskLabels, SetterLabels
  <2>4. /\ mutation.owner = "affinity" /\ mutation # WakeOwned
        /\ \A b \in Actors : HoldsAffinity(b) => b = s
    BY <2>2, MutIs
       DEF Inv, MutationInv, MutationTask, MutationOnce, MutationHeld, MutationActor,
           MutationCpu, HoldsAffinity, SetterLabels
  <2>5. /\ pc[Task] \notin SelfLabels /\ ~(pc[Task] \in SchedLabels /\ ret[Task] \in SelfLabels)
        /\ pc[Task] \notin {"publish", "commit", "finishblock"}
    BY <2>4
       DEF HoldsAffinity, Inv, MutationInv, MutationTask, MutationOnce, MutationHeld,
           MutationActor, MutationCpu
  <2>6. /\ ~hand.pending /\ \A b \in Actors : pc[b] \notin ClaimLabels
        /\ \A c \in Cpus : cpu[c].pc \notin {"take", "delegated"}
    BY <2>4, NoWakeClaim
  <2> USE <2>2, <2>3, <2>4, <2>5, <2>6
  <2>7. Typed'  BY DEF Inv, Typed
  <2>8. ~fault'  BY DEF Inv
  <2>9. RoleInv'
    <3>1. RoleTask'
      BY DEF Inv, RoleInv, RoleTask, ClaimLabels, LinkLabels, SetterLabels, TaskLabels,
             SchedLabels, SafePoints
    <3>2. ASSUME NEW y \in Wakers PROVE RoleWaker(y)'
      BY <3>2
         DEF Inv, RoleInv, RoleWaker, ClaimLabels, LinkLabels, SetterLabels,
             TaskLabels, SchedLabels, SafePoints
    <3>3. ASSUME NEW z \in Setters PROVE RoleSetter(z)'
      BY <3>3
         DEF Inv, RoleInv, RoleSetter, ClaimLabels, LinkLabels, SetterLabels,
             TaskLabels, SchedLabels, SafePoints
    <3> QED  BY <3>1, <3>2, <3>3 DEF RoleInv
  <2>10. StackInv'  BY DEF Inv, StackInv, ClaimLabels, LinkLabels, RunLabels
  <2>11. TokenInv'  BY DEF Inv, TokenInv, TokenTask, TokenActor, TokenCpu
  <2>12. LinkInv'
    BY DEF Inv, LinkInv, LinkOnce, LinkTask, LinkHeld, LinkActor, LinkCpu, CpuLinks,
           ActorLinks, LinkLabels
  <2>13. HelperInv'  BY DEF Inv, HelperInv, HelperCpu
  <2>14. SlotInv'  BY DEF Inv, SlotInv, SlotTask, SlotHeld, SlotActor, SlotCpu
  <2>15. MutationInv'
    <3>1. \A b \in Actors : HoldsAffinity(b)' => HoldsAffinity(b)
      BY DEF HoldsAffinity, SelfLabels, SchedLabels, SetterLabels, ClaimLabels,
         LinkLabels
    <3>2. QED  BY <3>1
                  DEF Inv, MutationInv, MutationTask, MutationOnce, MutationHeld,
                      MutationActor, MutationCpu, ClaimLabels, LinkLabels
  <2>16. StealInv'  BY DEF Inv, StealInv, StealOnce, StealCpu, StealLabels
  <2>17. PlaceInv'  BY DEF Inv, PlaceInv, PlaceTask, PlaceActor, PlaceCpu, LinkLabels
  <2>18. MaskInv'
    BY DEF Inv, MaskInv, MaskTask, MaskSetter, MaskActor, MaskCpu, LinkLabels
  <2>19. PreemptInv'  BY DEF Inv, PreemptInv, Picked, MoveUnderway
  <2>20. SelfInv'
    BY DEF Inv, SelfInv, SelfTask, SelfCpu, SelfMoves, Continues, SchedLabels, SelfLabels
  <2>21. ActiveInv'
    BY DEF Inv, ActiveInv, InSession, SessionLabels, SchedLabels, ClaimLabels,
       LinkLabels
  <2>22. SessionInv'  BY DEF Inv, SessionInv, Polled, Continues, WakeUnderway, SchedLabels
  <2>23. QED
    BY <2>7, <2>8, <2>9, <2>10, <2>11, <2>12, <2>13, <2>14, <2>15, <2>16, <2>17, <2>18,
       <2>19, <2>20, <2>21, <2>22 DEF Inv
\* A Blocked task has its frozen wake owner rewritten into the mask.
<1>7. ASSUME RouteAffinity(s), task.state = "Blocked" PROVE Inv'
  <2> USE <1>7
  <2> USE TaskWakeAssumption DEF Actors
  <2>1. pc[s] = "route"  BY DEF RouteAffinity, Here
  <2>2. PICK d \in IF task.cpu \in loc[s].mask THEN {task.cpu} ELSE loc[s].mask :
           task' = [task EXCEPT !.cpu = d]
    BY DEF RouteAffinity
  <2>3. loc[s].mask = task.mask /\ d \in task.mask /\ d \in Cpus
    BY SMTT(30), Z3T(30), <2>1, <2>2
       DEF Inv, MaskInv, MaskTask, MaskSetter, MaskActor, MaskCpu, Typed, TaskWords
  <2>4. /\ pc[s] = "route" /\ Goto(s, "finish") /\ task.state = "Blocked" /\ d \in task.mask
        /\ UNCHANGED <<bw, mutation, hand, ready, cur, cpu, locked, ret, loc,
                       events, budget, fault>>
    BY <2>1, <2>3 DEF RouteAffinity, sched, env
  <2>5. /\ pc'[s] = "finish" /\ pc' \in [Actors -> Labels]
        /\ \A b \in Actors \ {s} : pc'[b] = pc[b]
    BY <2>4, Goes DEF Inv, Typed, Labels, WakeLabels, TaskLabels, SetterLabels
  <2>6. /\ task \in TaskWords /\ task' = [task EXCEPT !.cpu = d]
        /\ d \in Cpus
    BY <2>2, <2>3 DEF Inv, Typed
  <2>7. /\ task'.state = task.state /\ task'.cpu = d /\ task'.mask = task.mask
        /\ task'.helper = task.helper /\ task'.resched = task.resched
        /\ task' \in TaskWords
    BY <2>6 DEF TaskWords
  <2>8. /\ mutation.owner = "affinity" /\ mutation # WakeOwned
        /\ \A b \in Actors : HoldsAffinity(b) => b = s
    BY <2>4, MutIs
       DEF Inv, MutationInv, MutationTask, MutationOnce, MutationHeld, MutationActor,
           MutationCpu, HoldsAffinity, SetterLabels
  <2>9. /\ pc[Task] \notin SelfLabels /\ ~(pc[Task] \in SchedLabels /\ ret[Task] \in SelfLabels)
        /\ pc[Task] \notin {"publish", "commit", "finishblock"}
    BY <2>8
       DEF HoldsAffinity, Inv, MutationInv, MutationTask, MutationOnce, MutationHeld,
           MutationActor, MutationCpu
  <2>10. /\ ~hand.pending /\ \A b \in Actors : pc[b] \notin ClaimLabels
         /\ \A c \in Cpus : cpu[c].pc \notin {"take", "delegated"}
    BY <2>8, NoWakeClaim
  <2>11. /\ ready = {}
         /\ \A c \in Cpus : /\ ~CpuLinks(c) /\ cpu[c].pc \notin StealLabels
                            /\ cpu[c].pc \notin MoverLabels
         /\ \A a \in Actors : ~ActorLinks(a)
    BY <2>4, NoLinks
  <2> USE <2>4, <2>5, <2>7, <2>8, <2>9, <2>10, <2>11
  <2>12. Typed'  BY DEF Inv, Typed
  <2>13. ~fault'  BY DEF Inv
  <2>14. RoleInv'
    <3>1. RoleTask'
      BY DEF Inv, RoleInv, RoleTask, ClaimLabels, LinkLabels, SetterLabels, TaskLabels,
             SchedLabels, SafePoints
    <3>2. ASSUME NEW y \in Wakers PROVE RoleWaker(y)'
      BY <3>2
         DEF Inv, RoleInv, RoleWaker, ClaimLabels, LinkLabels, SetterLabels,
             TaskLabels, SchedLabels, SafePoints
    <3>3. ASSUME NEW z \in Setters PROVE RoleSetter(z)'
      BY <3>3
         DEF Inv, RoleInv, RoleSetter, ClaimLabels, LinkLabels, SetterLabels,
             TaskLabels, SchedLabels, SafePoints
    <3> QED  BY <3>1, <3>2, <3>3 DEF RoleInv
  <2>15. StackInv'  BY DEF Inv, StackInv, ClaimLabels, LinkLabels, RunLabels
  <2>16. TokenInv'  BY DEF Inv, TokenInv, TokenTask, TokenActor, TokenCpu
  <2>17. LinkInv'
    BY DEF Inv, LinkInv, LinkOnce, LinkTask, LinkHeld, LinkActor, LinkCpu, CpuLinks,
           ActorLinks, LinkLabels
  <2>18. HelperInv'  BY DEF Inv, HelperInv, HelperCpu
  <2>19. SlotInv'  BY DEF Inv, SlotInv, SlotTask, SlotHeld, SlotActor, SlotCpu
  <2>20. MutationInv'
    <3>1. \A b \in Actors : HoldsAffinity(b)' => HoldsAffinity(b)
      BY DEF HoldsAffinity, SelfLabels, SchedLabels, SetterLabels, ClaimLabels,
         LinkLabels
    <3>2. MutationTask'
      BY <3>1 DEF Inv, MutationInv, MutationTask, ClaimLabels, LinkLabels
    <3>3. MutationOnce'
      BY <3>1 DEF Inv, MutationInv, MutationOnce, ClaimLabels, LinkLabels
    <3>4. MutationHeld'
      BY <3>1 DEF Inv, MutationInv, MutationHeld, ClaimLabels, LinkLabels
    <3>5. ASSUME NEW b \in Actors PROVE MutationActor(b)'
      BY <3>1, <3>5 DEF Inv, MutationInv, MutationActor, ClaimLabels, LinkLabels
    <3>6. ASSUME NEW x \in Cpus PROVE MutationCpu(x)'
      BY <3>1, <3>6 DEF Inv, MutationInv, MutationCpu, ClaimLabels, LinkLabels
    <3> QED  BY <3>2, <3>3, <3>4, <3>5, <3>6 DEF MutationInv
  <2>21. StealInv'  BY DEF Inv, StealInv, StealOnce, StealCpu, StealLabels
  <2>22. PlaceInv'
    <3>1. PlaceTask'
      BY SMTT(30), Z3T(30)
         DEF Inv, PlaceInv, PlaceTask, ActorLinks, MoverLabels, ClaimLabels
    <3>2. ASSUME NEW b \in Actors PROVE PlaceActor(b)'
      BY SMTT(30), Z3T(30), <3>2
         DEF Inv, PlaceInv, PlaceActor, LinkLabels, ActorLinks, MoverLabels, ClaimLabels
    <3>3. ASSUME NEW x \in Cpus PROVE PlaceCpu(x)'
      BY <3>3 DEF Inv, PlaceInv, PlaceCpu, ActorLinks, MoverLabels, ClaimLabels
    <3> QED  BY <3>1, <3>2, <3>3 DEF PlaceInv
  <2>23. MaskInv'
    <3>1. MaskTask'  BY DEF Inv, MaskInv, MaskTask, LinkLabels
    <3>2. ASSUME NEW z \in Setters PROVE MaskSetter(z)'
      BY <3>2 DEF Inv, MaskInv, MaskSetter, LinkLabels
    <3>3. ASSUME NEW b \in Actors PROVE MaskActor(b)'
      BY <3>3 DEF Inv, MaskInv, MaskActor, LinkLabels
    <3>4. ASSUME NEW x \in Cpus PROVE MaskCpu(x)'
      BY <3>4 DEF Inv, MaskInv, MaskCpu, LinkLabels
    <3> QED  BY <3>1, <3>2, <3>3, <3>4 DEF MaskInv
  <2>24. PreemptInv'
    BY DEF Inv, PreemptInv, Picked, MoveUnderway, MoverLabels, ActorLinks
  <2>25. SelfInv'
    BY DEF Inv, SelfInv, SelfTask, SelfCpu, SelfMoves, Continues, SchedLabels, SelfLabels
  <2>26. ActiveInv'
    BY DEF Inv, ActiveInv, InSession, SessionLabels, SchedLabels, ClaimLabels,
       LinkLabels
  <2>27. SessionInv'
    BY SMTT(30), Z3T(30) DEF Inv, SessionInv, Polled, Continues, WakeUnderway, SchedLabels
  <2>28. QED
    BY <2>12, <2>13, <2>14, <2>15, <2>16, <2>17, <2>18, <2>19, <2>20, <2>21, <2>22,
       <2>23, <2>24, <2>25, <2>26, <2>27 DEF Inv
\* An Exited task only has the helper retired.
<1>8. ASSUME RouteAffinity(s), task.state = "Exited" PROVE Inv'
  <2> USE <1>8
  <2> USE TaskWakeAssumption DEF Actors
  <2>1. pc[s] = "route"  BY DEF RouteAffinity, Here
  <2>2. /\ pc[s] = "route" /\ Goto(s, "retire") /\ task.state = "Exited"
        /\ UNCHANGED <<bw, mutation, task, hand, ready, cur, cpu, locked, ret,
                       loc, events, budget, fault>>
    BY <2>1 DEF RouteAffinity, sched, env
  <2>3. /\ pc'[s] = "retire" /\ pc' \in [Actors -> Labels]
        /\ \A b \in Actors \ {s} : pc'[b] = pc[b]
    BY <2>2, Goes DEF Inv, Typed, Labels, WakeLabels, TaskLabels, SetterLabels
  <2>4. /\ mutation.owner = "affinity" /\ mutation # WakeOwned
        /\ \A b \in Actors : HoldsAffinity(b) => b = s
    BY <2>2, MutIs
       DEF Inv, MutationInv, MutationTask, MutationOnce, MutationHeld, MutationActor,
           MutationCpu, HoldsAffinity, SetterLabels
  <2>5. /\ pc[Task] \notin SelfLabels /\ ~(pc[Task] \in SchedLabels /\ ret[Task] \in SelfLabels)
        /\ pc[Task] \notin {"publish", "commit", "finishblock"}
    BY <2>4
       DEF HoldsAffinity, Inv, MutationInv, MutationTask, MutationOnce, MutationHeld,
           MutationActor, MutationCpu
  <2>6. /\ ~hand.pending /\ \A b \in Actors : pc[b] \notin ClaimLabels
        /\ \A c \in Cpus : cpu[c].pc \notin {"take", "delegated"}
    BY <2>4, NoWakeClaim
  <2>7. /\ ready = {}
        /\ \A c \in Cpus : /\ ~CpuLinks(c) /\ cpu[c].pc \notin StealLabels
                           /\ cpu[c].pc \notin MoverLabels
        /\ \A a \in Actors : ~ActorLinks(a)
    BY <2>2, NoLinks
  <2> USE <2>2, <2>3, <2>4, <2>5, <2>6, <2>7
  <2>8. Typed'  BY DEF Inv, Typed
  <2>9. ~fault'  BY DEF Inv
  <2>10. RoleInv'
    <3>1. RoleTask'
      BY DEF Inv, RoleInv, RoleTask, ClaimLabels, LinkLabels, SetterLabels, TaskLabels,
             SchedLabels, SafePoints
    <3>2. ASSUME NEW y \in Wakers PROVE RoleWaker(y)'
      BY <3>2
         DEF Inv, RoleInv, RoleWaker, ClaimLabels, LinkLabels, SetterLabels,
             TaskLabels, SchedLabels, SafePoints
    <3>3. ASSUME NEW z \in Setters PROVE RoleSetter(z)'
      BY <3>3
         DEF Inv, RoleInv, RoleSetter, ClaimLabels, LinkLabels, SetterLabels,
             TaskLabels, SchedLabels, SafePoints
    <3> QED  BY <3>1, <3>2, <3>3 DEF RoleInv
  <2>11. StackInv'  BY DEF Inv, StackInv, ClaimLabels, LinkLabels, RunLabels
  <2>12. TokenInv'  BY DEF Inv, TokenInv, TokenTask, TokenActor, TokenCpu
  <2>13. LinkInv'
    BY DEF Inv, LinkInv, LinkOnce, LinkTask, LinkHeld, LinkActor, LinkCpu, CpuLinks,
           ActorLinks, LinkLabels
  <2>14. HelperInv'  BY DEF Inv, HelperInv, HelperCpu
  <2>15. SlotInv'  BY DEF Inv, SlotInv, SlotTask, SlotHeld, SlotActor, SlotCpu
  <2>16. MutationInv'
    <3>1. \A b \in Actors : HoldsAffinity(b)' => HoldsAffinity(b)
      BY DEF HoldsAffinity, SelfLabels, SchedLabels, SetterLabels, ClaimLabels,
         LinkLabels
    <3>2. QED  BY <3>1
                  DEF Inv, MutationInv, MutationTask, MutationOnce, MutationHeld,
                      MutationActor, MutationCpu, ClaimLabels, LinkLabels
  <2>17. StealInv'  BY DEF Inv, StealInv, StealOnce, StealCpu, StealLabels
  <2>18. PlaceInv'  BY DEF Inv, PlaceInv, PlaceTask, PlaceActor, PlaceCpu, LinkLabels
  <2>19. MaskInv'
    BY DEF Inv, MaskInv, MaskTask, MaskSetter, MaskActor, MaskCpu, LinkLabels
  <2>20. PreemptInv'
    BY DEF Inv, PreemptInv, Picked, MoveUnderway, MoverLabels, ActorLinks
  <2>21. SelfInv'
    BY DEF Inv, SelfInv, SelfTask, SelfCpu, SelfMoves, Continues, SchedLabels, SelfLabels
  <2>22. ActiveInv'
    BY DEF Inv, ActiveInv, InSession, SessionLabels, SchedLabels, ClaimLabels,
       LinkLabels
  <2>23. SessionInv'  BY DEF Inv, SessionInv, Polled, Continues, WakeUnderway, SchedLabels
  <2>24. QED
    BY <2>8, <2>9, <2>10, <2>11, <2>12, <2>13, <2>14, <2>15, <2>16, <2>17, <2>18,
       <2>19, <2>20, <2>21, <2>22, <2>23 DEF Inv
<1>9. PublishAffinity(s) => Goto(s, "route") \/ Goto(s, "finish")  BY DEF PublishAffinity
<1>10. task.state \in {"Ready", "Running", "Blocked", "Exited"}
  BY DEF Inv, Typed, TaskWords
<1>11. QED  BY <1>1, <1>2, <1>3, <1>4, <1>5, <1>6, <1>7, <1>8, <1>9, <1>10

\* migrate_ready_task, the nudge and the retirement of the helper keep the invariant.
LEMMA MoveKeeps ==
    ASSUME Inv, NEW s \in Setters,
           \/ InspectReady(s) \/ DetachReady(s) \/ AttachReady(s) \/ RestoreReady(s)
           \/ NudgeTask(s) \/ RetireHelper(s)
    PROVE  Inv'
\* migrate_ready_task, up to its source lock.
<1>1. CASE InspectReady(s)
  <2> USE <1>1
  <2> USE TaskWakeAssumption DEF Actors
  <2>1. /\ pc[s] = "inspect"
        /\ \/ Goto(s, "nudge") \/ Goto(s, "detach")
           \/ Goto(s, "retire") /\ loc[s].cpu \in task.mask
        /\ UNCHANGED <<bw, mutation, task, hand, ready, cur, cpu, locked, ret,
                       loc, events, budget, fault>>
    BY DEF InspectReady, Here, words, sched, env
  <2>2. /\ pc'[s] \in {"nudge", "detach", "retire"}
        /\ pc'[s] = "retire" => loc[s].cpu \in task.mask
        /\ pc' \in [Actors -> Labels] /\ \A b \in Actors \ {s} : pc'[b] = pc[b]
    BY SMTT(30), Z3T(30), <2>1, Goes
       DEF Inv, Typed, Labels, WakeLabels, TaskLabels, SetterLabels
  <2>3. /\ mutation.owner = "affinity" /\ mutation # WakeOwned
        /\ \A b \in Actors : HoldsAffinity(b) => b = s
    BY <2>1, MutIs
       DEF Inv, MutationInv, MutationTask, MutationOnce, MutationHeld, MutationActor,
           MutationCpu, HoldsAffinity, SetterLabels
  <2>4. /\ pc[Task] \notin SelfLabels /\ ~(pc[Task] \in SchedLabels /\ ret[Task] \in SelfLabels)
        /\ pc[Task] \notin {"publish", "commit", "finishblock"}
    BY <2>3
       DEF HoldsAffinity, Inv, MutationInv, MutationTask, MutationOnce, MutationHeld,
           MutationActor, MutationCpu
  <2>5. /\ ~hand.pending /\ \A b \in Actors : pc[b] \notin ClaimLabels
        /\ \A c \in Cpus : cpu[c].pc \notin {"take", "delegated"}
    BY <2>3, NoWakeClaim
  <2> USE <2>1, <2>2, <2>3, <2>4, <2>5
  <2>6. Typed'  BY DEF Inv, Typed
  <2>7. ~fault'  BY DEF Inv
  <2>8. RoleInv'
    <3>1. RoleTask'
      BY DEF Inv, RoleInv, RoleTask, ClaimLabels, LinkLabels, SetterLabels, TaskLabels,
             SchedLabels, SafePoints
    <3>2. ASSUME NEW y \in Wakers PROVE RoleWaker(y)'
      BY <3>2
         DEF Inv, RoleInv, RoleWaker, ClaimLabels, LinkLabels, SetterLabels,
             TaskLabels, SchedLabels, SafePoints
    <3>3. ASSUME NEW z \in Setters PROVE RoleSetter(z)'
      BY <3>3
         DEF Inv, RoleInv, RoleSetter, ClaimLabels, LinkLabels, SetterLabels,
             TaskLabels, SchedLabels, SafePoints
    <3> QED  BY <3>1, <3>2, <3>3 DEF RoleInv
  <2>9. StackInv'  BY DEF Inv, StackInv, ClaimLabels, LinkLabels, RunLabels
  <2>10. TokenInv'  BY DEF Inv, TokenInv, TokenTask, TokenActor, TokenCpu
  <2>11. LinkInv'
    <3>1. \A x \in Cpus : CpuLinks(x)' <=> CpuLinks(x)  BY DEF CpuLinks
    <3>2. \A b \in Actors : ActorLinks(b)' <=> ActorLinks(b)
      BY DEF ActorLinks, LinkLabels
    <3> QED  BY <3>1, <3>2, LinkFrame DEF Inv
  <2>12. HelperInv'  BY DEF Inv, HelperInv, HelperCpu
  <2>13. SlotInv'  BY DEF Inv, SlotInv, SlotTask, SlotHeld, SlotActor, SlotCpu
  <2>14. MutationInv'
    <3>1. \A b \in Actors : HoldsAffinity(b)' => HoldsAffinity(b)
      BY DEF HoldsAffinity, SelfLabels, SchedLabels, SetterLabels, ClaimLabels,
         LinkLabels
    <3>2. MutationTask'
      BY <3>1 DEF Inv, MutationInv, MutationTask, ClaimLabels, LinkLabels
    <3>3. MutationOnce'
      BY <3>1 DEF Inv, MutationInv, MutationOnce, ClaimLabels, LinkLabels
    <3>4. MutationHeld'
      BY <3>1 DEF Inv, MutationInv, MutationHeld, ClaimLabels, LinkLabels
    <3>5. ASSUME NEW b \in Actors PROVE MutationActor(b)'
      BY <3>1, <3>5 DEF Inv, MutationInv, MutationActor, ClaimLabels, LinkLabels
    <3>6. ASSUME NEW x \in Cpus PROVE MutationCpu(x)'
      BY <3>1, <3>6 DEF Inv, MutationInv, MutationCpu, ClaimLabels, LinkLabels
    <3> QED  BY <3>2, <3>3, <3>4, <3>5, <3>6 DEF MutationInv
  <2>15. StealInv'  BY DEF Inv, StealInv, StealOnce, StealCpu, StealLabels
  <2>16. PlaceInv'  BY DEF Inv, PlaceInv, PlaceTask, PlaceActor, PlaceCpu, LinkLabels
  <2>17. MaskInv'
    BY DEF Inv, MaskInv, MaskTask, MaskSetter, MaskActor, MaskCpu, LinkLabels
  <2>18. PreemptInv'  BY DEF Inv, PreemptInv, Picked, MoveUnderway
  <2>19. SelfInv'
    BY DEF Inv, SelfInv, SelfTask, SelfCpu, SelfMoves, Continues, SchedLabels, SelfLabels
  <2>20. ActiveInv'
    BY DEF Inv, ActiveInv, InSession, SessionLabels, SchedLabels, ClaimLabels,
       LinkLabels
  <2>21. SessionInv'  BY DEF Inv, SessionInv, Polled, Continues, WakeUnderway, SchedLabels
  <2>22. QED
    BY <2>6, <2>7, <2>8, <2>9, <2>10, <2>11, <2>12, <2>13, <2>14, <2>15, <2>16, <2>17,
       <2>18, <2>19, <2>20, <2>21 DEF Inv
\* Under the source lock the parked task is detached and its target published.
<1>2. ASSUME DetachReady(s), Goto(s, "attach") PROVE Inv'
  <2> USE <1>2
  <2> USE TaskWakeAssumption DEF Actors
  <2>1. ~Goto(s, "nudge")
    BY SMTT(30), Z3T(30), Goes
       DEF Inv, Typed, Labels, WakeLabels, TaskLabels, SetterLabels
  <2>2. PICK d \in task.mask \ {loc[s].cpu} : task' = [task EXCEPT !.cpu = d]
    BY <2>1 DEF DetachReady
  <2>3. /\ loc[s].cpu \in ready /\ loc[s].cpu \notin locked /\ ~HasOwnerOrHandoff
        /\ ready' = ready \ {loc[s].cpu} /\ d \in Cpus
    BY <2>1, <2>2 DEF DetachReady, Inv, Typed, TaskWords
  <2>4. ready = {loc[s].cpu}
    BY SMTT(30), Z3T(30), <2>3
       DEF Inv, LinkInv, LinkOnce, LinkTask, LinkHeld, LinkActor, LinkCpu
  <2>5. /\ pc[s] = "detach" /\ Goto(s, "attach") /\ ready' = {} /\ ready # {}
        /\ hand.token = 0 /\ ~hand.slot
        /\ UNCHANGED <<bw, mutation, hand, cur, cpu, locked, ret, loc, events,
                       budget, fault>>
    BY <2>1, <2>3, <2>4 DEF DetachReady, Here, env, HasOwnerOrHandoff
  <2>6. /\ pc'[s] = "attach" /\ pc' \in [Actors -> Labels]
        /\ \A b \in Actors \ {s} : pc'[b] = pc[b]
    BY <2>5, Goes DEF Inv, Typed, Labels, WakeLabels, TaskLabels, SetterLabels
  <2>7. /\ task \in TaskWords /\ task' = [task EXCEPT !.cpu = d]
        /\ d \in Cpus
    BY <2>2, <2>3 DEF Inv, Typed
  <2>8. /\ task'.state = task.state /\ task'.cpu = d /\ task'.mask = task.mask
        /\ task'.helper = task.helper /\ task'.resched = task.resched
        /\ task' \in TaskWords
    BY <2>7 DEF TaskWords
  <2>9. /\ mutation.owner = "affinity" /\ mutation # WakeOwned
        /\ \A b \in Actors : HoldsAffinity(b) => b = s
    BY <2>5, MutIs
       DEF Inv, MutationInv, MutationTask, MutationOnce, MutationHeld, MutationActor,
           MutationCpu, HoldsAffinity, SetterLabels
  <2>10. /\ pc[Task] \notin SelfLabels /\ ~(pc[Task] \in SchedLabels /\ ret[Task] \in SelfLabels)
         /\ pc[Task] \notin {"publish", "commit", "finishblock"}
    BY <2>9
       DEF HoldsAffinity, Inv, MutationInv, MutationTask, MutationOnce, MutationHeld,
           MutationActor, MutationCpu
  <2>11. /\ ~hand.pending /\ \A b \in Actors : pc[b] \notin ClaimLabels
         /\ \A c \in Cpus : cpu[c].pc \notin {"take", "delegated"}
    BY <2>9, NoWakeClaim
  <2>12. /\ task.state = "Ready"
         /\ \A c \in Cpus : /\ ~CpuLinks(c) /\ cpu[c].pc \notin StealLabels
                            /\ cpu[c].pc \notin MoverLabels
         /\ \A a \in Actors : ~ActorLinks(a)
    BY <2>3, <2>5, Queued, NoStealer
  <2>13. pc[Task] \in {"resumed", "exited"}
    BY <2>5 DEF Inv, StackInv, TokenInv, TokenTask, TokenActor, TokenCpu
  <2>14. StackInv'
    BY <2>5, <2>6, <2>8, <2>12, <2>13 DEF Inv, StackInv, RunLabels, ClaimLabels,
       LinkLabels
  <2>15. LinkInv'
    <3>1. LinkOnce'
      BY SMTT(30), Z3T(30), <2>5, <2>6, <2>8, <2>12, <2>9
         DEF Inv, LinkInv, LinkOnce, ActorLinks, CpuLinks, LinkLabels
    <3>2. LinkTask'
      BY <2>5, <2>6, <2>8, <2>12, <2>9
         DEF Inv, LinkInv, LinkTask, ActorLinks, CpuLinks, LinkLabels
    <3>3. LinkHeld'
      BY <2>5, <2>6, <2>8, <2>12, <2>9
         DEF Inv, LinkInv, LinkHeld, ActorLinks, CpuLinks, LinkLabels
    <3>4. ASSUME NEW b \in Actors PROVE LinkActor(b)'
      BY <2>5, <2>6, <2>8, <2>12, <2>9, <3>4
         DEF Inv, LinkInv, LinkOnce, LinkTask, LinkHeld, LinkCpu, LinkActor,
             ActorLinks, CpuLinks, LinkLabels
    <3>5. ASSUME NEW x \in Cpus PROVE LinkCpu(x)'
      BY <2>5, <2>6, <2>8, <2>12, <2>9, <3>5
         DEF Inv, LinkInv, LinkCpu, ActorLinks, CpuLinks, LinkLabels
    <3> QED  BY <3>1, <3>2, <3>3, <3>4, <3>5 DEF LinkInv
  <2>16. SessionInv'
    BY <2>5, <2>6, <2>8, <2>12 DEF Inv, SessionInv, Polled, Continues, WakeUnderway
  <2> USE <2>5, <2>6, <2>8, <2>9, <2>10, <2>11, <2>12, <2>13
  <2>17. Typed'  BY DEF Inv, Typed
  <2>18. ~fault'  BY DEF Inv
  <2>19. RoleInv'
    <3>1. RoleTask'
      BY DEF Inv, RoleInv, RoleTask, ClaimLabels, LinkLabels, SetterLabels, TaskLabels,
             SchedLabels, SafePoints
    <3>2. ASSUME NEW y \in Wakers PROVE RoleWaker(y)'
      BY <3>2
         DEF Inv, RoleInv, RoleWaker, ClaimLabels, LinkLabels, SetterLabels,
             TaskLabels, SchedLabels, SafePoints
    <3>3. ASSUME NEW z \in Setters PROVE RoleSetter(z)'
      BY <3>3
         DEF Inv, RoleInv, RoleSetter, ClaimLabels, LinkLabels, SetterLabels,
             TaskLabels, SchedLabels, SafePoints
    <3> QED  BY <3>1, <3>2, <3>3 DEF RoleInv
  <2>20. TokenInv'  BY DEF Inv, TokenInv, TokenTask, TokenActor, TokenCpu
  <2>21. HelperInv'  BY DEF Inv, HelperInv, HelperCpu
  <2>22. SlotInv'  BY DEF Inv, SlotInv, SlotTask, SlotHeld, SlotActor, SlotCpu
  <2>23. MutationInv'
    <3>1. \A b \in Actors : HoldsAffinity(b)' => HoldsAffinity(b)
      BY DEF HoldsAffinity, SelfLabels, SchedLabels, SetterLabels, ClaimLabels,
         LinkLabels
    <3>2. QED  BY <3>1
                  DEF Inv, MutationInv, MutationTask, MutationOnce, MutationHeld,
                      MutationActor, MutationCpu, ClaimLabels, LinkLabels
  <2>24. StealInv'  BY DEF Inv, StealInv, StealOnce, StealCpu, StealLabels
  <2>25. PlaceInv'
    <3>1. PlaceTask'
      BY DEF Inv, PlaceInv, PlaceTask, MoverLabels, ActorLinks, ClaimLabels
    <3>2. ASSUME NEW b \in Actors PROVE PlaceActor(b)'
      BY SMTT(30), Z3T(30), <3>2
         DEF Inv, PlaceInv, PlaceActor, LinkLabels, MoverLabels, ActorLinks, ClaimLabels
    <3>3. ASSUME NEW x \in Cpus PROVE PlaceCpu(x)'
      BY <3>3 DEF Inv, PlaceInv, PlaceCpu, MoverLabels, ActorLinks, ClaimLabels
    <3> QED  BY <3>1, <3>2, <3>3 DEF PlaceInv
  <2>26. MaskInv'
    <3>1. MaskTask'  BY DEF Inv, MaskInv, MaskTask, LinkLabels
    <3>2. ASSUME NEW z \in Setters PROVE MaskSetter(z)'
      BY <3>2 DEF Inv, MaskInv, MaskSetter, LinkLabels
    <3>3. ASSUME NEW b \in Actors PROVE MaskActor(b)'
      BY <3>3 DEF Inv, MaskInv, MaskActor, LinkLabels
    <3>4. ASSUME NEW x \in Cpus PROVE MaskCpu(x)'
      BY <3>4 DEF Inv, MaskInv, MaskCpu, LinkLabels
    <3> QED  BY <3>1, <3>2, <3>3, <3>4 DEF MaskInv
  <2>27. PreemptInv'  BY DEF Inv, PreemptInv, Picked, MoveUnderway, MoverLabels
  <2>28. SelfInv'
    BY DEF Inv, SelfInv, SelfTask, SelfCpu, SelfMoves, Continues, SchedLabels, SelfLabels
  <2>29. ActiveInv'
    BY DEF Inv, ActiveInv, InSession, SessionLabels, SchedLabels, ClaimLabels,
       LinkLabels
  <2>30. QED
    BY <2>14, <2>15, <2>16, <2>17, <2>18, <2>19, <2>20, <2>21, <2>22, <2>23, <2>24,
       <2>25, <2>26, <2>27, <2>28, <2>29 DEF Inv
\* ... or finds it gone, and nudges it.
<1>3. ASSUME DetachReady(s), Goto(s, "nudge") PROVE Inv'
  <2> USE <1>3
  <2> USE TaskWakeAssumption DEF Actors
  <2>1. ~Goto(s, "attach")
    BY SMTT(30), Z3T(30), Goes
       DEF Inv, Typed, Labels, WakeLabels, TaskLabels, SetterLabels
  <2>2. /\ pc[s] = "detach" /\ Goto(s, "nudge")
        /\ UNCHANGED <<bw, mutation, task, hand, ready, cur, cpu, locked, ret,
                       loc, events, budget, fault>>
    BY <2>1 DEF DetachReady, Here, env
  <2>3. /\ pc'[s] = "nudge" /\ pc' \in [Actors -> Labels]
        /\ \A b \in Actors \ {s} : pc'[b] = pc[b]
    BY <2>2, Goes DEF Inv, Typed, Labels, WakeLabels, TaskLabels, SetterLabels
  <2>4. /\ mutation.owner = "affinity" /\ mutation # WakeOwned
        /\ \A b \in Actors : HoldsAffinity(b) => b = s
    BY <2>2, MutIs
       DEF Inv, MutationInv, MutationTask, MutationOnce, MutationHeld, MutationActor,
           MutationCpu, HoldsAffinity, SetterLabels
  <2>5. /\ pc[Task] \notin SelfLabels /\ ~(pc[Task] \in SchedLabels /\ ret[Task] \in SelfLabels)
        /\ pc[Task] \notin {"publish", "commit", "finishblock"}
    BY <2>4
       DEF HoldsAffinity, Inv, MutationInv, MutationTask, MutationOnce, MutationHeld,
           MutationActor, MutationCpu
  <2>6. /\ ~hand.pending /\ \A b \in Actors : pc[b] \notin ClaimLabels
        /\ \A c \in Cpus : cpu[c].pc \notin {"take", "delegated"}
    BY <2>4, NoWakeClaim
  <2> USE <2>2, <2>3, <2>4, <2>5, <2>6
  <2>7. Typed'  BY DEF Inv, Typed
  <2>8. ~fault'  BY DEF Inv
  <2>9. RoleInv'
    <3>1. RoleTask'
      BY DEF Inv, RoleInv, RoleTask, ClaimLabels, LinkLabels, SetterLabels, TaskLabels,
             SchedLabels, SafePoints
    <3>2. ASSUME NEW y \in Wakers PROVE RoleWaker(y)'
      BY <3>2
         DEF Inv, RoleInv, RoleWaker, ClaimLabels, LinkLabels, SetterLabels,
             TaskLabels, SchedLabels, SafePoints
    <3>3. ASSUME NEW z \in Setters PROVE RoleSetter(z)'
      BY <3>3
         DEF Inv, RoleInv, RoleSetter, ClaimLabels, LinkLabels, SetterLabels,
             TaskLabels, SchedLabels, SafePoints
    <3> QED  BY <3>1, <3>2, <3>3 DEF RoleInv
  <2>10. StackInv'  BY DEF Inv, StackInv, ClaimLabels, LinkLabels, RunLabels
  <2>11. TokenInv'  BY DEF Inv, TokenInv, TokenTask, TokenActor, TokenCpu
  <2>12. LinkInv'
    <3>1. \A x \in Cpus : CpuLinks(x)' <=> CpuLinks(x)  BY DEF CpuLinks
    <3>2. \A b \in Actors : ActorLinks(b)' <=> ActorLinks(b)
      BY DEF ActorLinks, LinkLabels
    <3> QED  BY <3>1, <3>2, LinkFrame DEF Inv
  <2>13. HelperInv'  BY DEF Inv, HelperInv, HelperCpu
  <2>14. SlotInv'  BY DEF Inv, SlotInv, SlotTask, SlotHeld, SlotActor, SlotCpu
  <2>15. MutationInv'
    <3>1. \A b \in Actors : HoldsAffinity(b)' => HoldsAffinity(b)
      BY DEF HoldsAffinity, SelfLabels, SchedLabels, SetterLabels, ClaimLabels,
         LinkLabels
    <3>2. MutationTask'
      BY <3>1 DEF Inv, MutationInv, MutationTask, ClaimLabels, LinkLabels
    <3>3. MutationOnce'
      BY <3>1 DEF Inv, MutationInv, MutationOnce, ClaimLabels, LinkLabels
    <3>4. MutationHeld'
      BY <3>1 DEF Inv, MutationInv, MutationHeld, ClaimLabels, LinkLabels
    <3>5. ASSUME NEW b \in Actors PROVE MutationActor(b)'
      BY <3>1, <3>5 DEF Inv, MutationInv, MutationActor, ClaimLabels, LinkLabels
    <3>6. ASSUME NEW x \in Cpus PROVE MutationCpu(x)'
      BY <3>1, <3>6 DEF Inv, MutationInv, MutationCpu, ClaimLabels, LinkLabels
    <3> QED  BY <3>2, <3>3, <3>4, <3>5, <3>6 DEF MutationInv
  <2>16. StealInv'  BY DEF Inv, StealInv, StealOnce, StealCpu, StealLabels
  <2>17. PlaceInv'  BY DEF Inv, PlaceInv, PlaceTask, PlaceActor, PlaceCpu, LinkLabels
  <2>18. MaskInv'
    BY DEF Inv, MaskInv, MaskTask, MaskSetter, MaskActor, MaskCpu, LinkLabels
  <2>19. PreemptInv'  BY DEF Inv, PreemptInv, Picked, MoveUnderway
  <2>20. SelfInv'
    BY DEF Inv, SelfInv, SelfTask, SelfCpu, SelfMoves, Continues, SchedLabels, SelfLabels
  <2>21. ActiveInv'
    BY DEF Inv, ActiveInv, InSession, SessionLabels, SchedLabels, ClaimLabels,
       LinkLabels
  <2>22. SessionInv'  BY DEF Inv, SessionInv, Polled, Continues, WakeUnderway, SchedLabels
  <2>23. QED
    BY <2>7, <2>8, <2>9, <2>10, <2>11, <2>12, <2>13, <2>14, <2>15, <2>16, <2>17, <2>18,
       <2>19, <2>20, <2>21, <2>22 DEF Inv
\* enqueue_task(Migrate) links the parked task on its new queue.
<1>4. ASSUME AttachReady(s), Goto(s, "retire") PROVE Inv'
  <2> USE <1>4
  <2> USE TaskWakeAssumption DEF Actors
  <2>1. ~Goto(s, "restore")
    BY SMTT(30), Z3T(30), Goes
       DEF Inv, Typed, Labels, WakeLabels, TaskLabels, SetterLabels
  <2>2. pc[s] = "attach"  BY DEF AttachReady, Here
  <2>3. /\ task.state = "Ready" /\ ready = {} /\ hand.token = 0
        /\ \A c \in Cpus : /\ ~CpuLinks(c) /\ cpu[c].pc \notin StealLabels
                           /\ cpu[c].pc \notin MoverLabels
        /\ \A a \in Actors \ {s} : ~ActorLinks(a)
    BY <2>2, LinkingActor DEF Inv, TokenInv, TokenTask, TokenActor, TokenCpu, ActorLinks
  <2>4. /\ pc[s] = "attach" /\ Goto(s, "retire") /\ ready' = {task.cpu}
        /\ UNCHANGED <<bw, mutation, task, hand, cur, cpu, locked, ret, loc,
                       events, budget, fault>>
    BY <2>1, <2>3 DEF AttachReady, Here, EnqueueMigrate
  <2>5. /\ pc'[s] = "retire" /\ pc' \in [Actors -> Labels]
        /\ \A b \in Actors \ {s} : pc'[b] = pc[b]
    BY <2>4, Goes DEF Inv, Typed, Labels, WakeLabels, TaskLabels, SetterLabels
  <2>6. task.cpu \in Cpus  BY DEF Inv, Typed, TaskWords
  <2>7. /\ mutation.owner = "affinity" /\ mutation # WakeOwned
        /\ \A b \in Actors : HoldsAffinity(b) => b = s
    BY <2>4, MutIs
       DEF Inv, MutationInv, MutationTask, MutationOnce, MutationHeld, MutationActor,
           MutationCpu, HoldsAffinity, SetterLabels
  <2>8. /\ pc[Task] \notin SelfLabels /\ ~(pc[Task] \in SchedLabels /\ ret[Task] \in SelfLabels)
        /\ pc[Task] \notin {"publish", "commit", "finishblock"}
    BY <2>7
       DEF HoldsAffinity, Inv, MutationInv, MutationTask, MutationOnce, MutationHeld,
           MutationActor, MutationCpu
  <2>9. /\ ~hand.pending /\ \A b \in Actors : pc[b] \notin ClaimLabels
        /\ \A c \in Cpus : cpu[c].pc \notin {"take", "delegated"}
    BY <2>7, NoWakeClaim
  <2>10. /\ cur = NoCpu /\ pc[Task] \in {"resumed", "exited"}
    BY <2>3 DEF Inv, StackInv, TokenInv, TokenTask, TokenActor, TokenCpu
  <2> USE <2>3, <2>4, <2>5, <2>6, <2>7, <2>8, <2>9, <2>10
  <2>11. Typed'  BY DEF Inv, Typed
  <2>12. ~fault'  BY DEF Inv
  <2>13. RoleInv'
    BY DEF Inv, RoleInv, RoleTask, RoleWaker, RoleSetter, ClaimLabels, LinkLabels,
       SetterLabels, TaskLabels,
       SchedLabels, SafePoints
  <2>14. StackInv'  BY DEF Inv, StackInv, ClaimLabels, LinkLabels, RunLabels
  <2>15. TokenInv'  BY DEF Inv, TokenInv, TokenTask, TokenActor, TokenCpu
  <2>16. LinkInv'
    BY DEF Inv, LinkInv, LinkOnce, LinkTask, LinkHeld, LinkActor, LinkCpu, CpuLinks,
           ActorLinks, LinkLabels
  <2>17. HelperInv'  BY DEF Inv, HelperInv, HelperCpu
  <2>18. SlotInv'  BY DEF Inv, SlotInv, SlotTask, SlotHeld, SlotActor, SlotCpu
  <2>19. MutationInv'
    <3>1. \A b \in Actors : HoldsAffinity(b)' => HoldsAffinity(b)
      BY DEF HoldsAffinity, SelfLabels, SchedLabels, SetterLabels, ClaimLabels,
         LinkLabels
    <3>2. QED  BY <3>1
                  DEF Inv, MutationInv, MutationTask, MutationOnce, MutationHeld,
                      MutationActor, MutationCpu, ClaimLabels, LinkLabels
  <2>20. StealInv'  BY DEF Inv, StealInv, StealOnce, StealCpu, StealLabels
  <2>21. PlaceInv'
    <3>1. PlaceTask'
      BY DEF Inv, PlaceInv, PlaceTask, MoverLabels, ActorLinks, ClaimLabels
    <3>2. ASSUME NEW b \in Actors PROVE PlaceActor(b)'
      BY <3>2
         DEF Inv, PlaceInv, PlaceActor, LinkLabels, MoverLabels, ActorLinks, ClaimLabels
    <3>3. ASSUME NEW x \in Cpus PROVE PlaceCpu(x)'
      BY <3>3 DEF Inv, PlaceInv, PlaceCpu, MoverLabels, ActorLinks, ClaimLabels
    <3> QED  BY <3>1, <3>2, <3>3 DEF PlaceInv
  <2>22. MaskInv'
    BY DEF Inv, MaskInv, MaskTask, MaskSetter, MaskActor, MaskCpu, LinkLabels
  <2>23. PreemptInv'  BY DEF Inv, PreemptInv, Picked, MoveUnderway, MoverLabels
  <2>24. SelfInv'
    BY DEF Inv, SelfInv, SelfTask, SelfCpu, SelfMoves, Continues, SchedLabels, SelfLabels
  <2>25. ActiveInv'
    BY DEF Inv, ActiveInv, InSession, SessionLabels, SchedLabels, ClaimLabels,
       LinkLabels
  <2>26. SessionInv'  BY DEF Inv, SessionInv, Polled, Continues, WakeUnderway, SchedLabels
  <2>27. QED
    BY <2>11, <2>12, <2>13, <2>14, <2>15, <2>16, <2>17, <2>18, <2>19, <2>20, <2>21,
       <2>22, <2>23, <2>24, <2>25, <2>26 DEF Inv
\* A refused migration publishes the source CPU again.
<1>5. ASSUME AttachReady(s), Goto(s, "restore") PROVE Inv'
  <2> USE <1>5
  <2> USE TaskWakeAssumption DEF Actors
  <2>1. ~Goto(s, "retire")
    BY SMTT(30), Z3T(30), Goes
       DEF Inv, Typed, Labels, WakeLabels, TaskLabels, SetterLabels
  <2>2. pc[s] = "attach"  BY DEF AttachReady, Here
  <2>3. /\ task.state = "Ready" /\ ready = {} /\ hand.token = 0
        /\ \A c \in Cpus : /\ ~CpuLinks(c) /\ cpu[c].pc \notin StealLabels
                           /\ cpu[c].pc \notin MoverLabels
        /\ \A a \in Actors \ {s} : ~ActorLinks(a)
    BY <2>2, LinkingActor DEF Inv, TokenInv, TokenTask, TokenActor, TokenCpu, ActorLinks
  <2>4. /\ pc[s] = "attach" /\ Goto(s, "restore")
        /\ UNCHANGED <<bw, mutation, hand, ready, cur, cpu, locked, ret, loc,
                       events, fault>>
    BY <2>1, <2>3 DEF AttachReady, Here
  <2>5. /\ pc'[s] = "restore" /\ pc' \in [Actors -> Labels]
        /\ \A b \in Actors \ {s} : pc'[b] = pc[b]
    BY <2>4, Goes DEF Inv, Typed, Labels, WakeLabels, TaskLabels, SetterLabels
  <2>6. loc[s].cpu \in Cpus  BY DEF Inv, Typed, Locals
  <2>7. /\ task \in TaskWords /\ task' = [task EXCEPT !.cpu = loc[s].cpu]
        /\ loc[s].cpu \in Cpus
    BY <2>1, <2>6 DEF Inv, Typed, AttachReady
  <2>8. /\ task'.state = task.state /\ task'.cpu = loc[s].cpu
        /\ task'.mask = task.mask /\ task'.helper = task.helper
        /\ task'.resched = task.resched
        /\ task' \in TaskWords
    BY <2>7 DEF TaskWords
  <2>9. /\ budget'.refused # 0
        /\ budget' \in [sessions : Nat, contention : Nat, self : Nat, refused : Nat,
                      calls : [Wakers \cup Setters -> Nat]]
    BY SMTT(30), Z3T(30), <2>1 DEF AttachReady, Refuse, Inv, Typed
  <2>10. /\ mutation.owner = "affinity" /\ mutation # WakeOwned
         /\ \A b \in Actors : HoldsAffinity(b) => b = s
    BY <2>4, MutIs
       DEF Inv, MutationInv, MutationTask, MutationOnce, MutationHeld, MutationActor,
           MutationCpu, HoldsAffinity, SetterLabels
  <2>11. /\ pc[Task] \notin SelfLabels /\ ~(pc[Task] \in SchedLabels /\ ret[Task] \in SelfLabels)
         /\ pc[Task] \notin {"publish", "commit", "finishblock"}
    BY <2>10
       DEF HoldsAffinity, Inv, MutationInv, MutationTask, MutationOnce, MutationHeld,
           MutationActor, MutationCpu
  <2>12. /\ ~hand.pending /\ \A b \in Actors : pc[b] \notin ClaimLabels
         /\ \A c \in Cpus : cpu[c].pc \notin {"take", "delegated"}
    BY <2>10, NoWakeClaim
  <2>13. /\ cur = NoCpu /\ pc[Task] \in {"resumed", "exited"}
    BY <2>3 DEF Inv, StackInv, TokenInv, TokenTask, TokenActor, TokenCpu
  <2>14. MaskInv'
    BY <2>4, <2>5, <2>8, <2>3, <2>12
       DEF Inv, MaskInv, MaskTask, MaskSetter, MaskActor, MaskCpu, ClaimLabels, LinkLabels
  <2>15. SelfInv'  BY <2>9 DEF SelfInv, SelfTask, SelfCpu, SelfMoves
  <2>16. SessionInv'
    BY <2>4, <2>5, <2>8, <2>3 DEF Inv, SessionInv, Polled, Continues, WakeUnderway
  <2> USE <2>3, <2>4, <2>5, <2>8, <2>9, <2>10, <2>11, <2>12, <2>13
  <2>17. Typed'  BY DEF Inv, Typed
  <2>18. ~fault'  BY DEF Inv
  <2>19. RoleInv'
    <3>1. RoleTask'
      BY DEF Inv, RoleInv, RoleTask, ClaimLabels, LinkLabels, SetterLabels, TaskLabels,
             SchedLabels, SafePoints
    <3>2. ASSUME NEW y \in Wakers PROVE RoleWaker(y)'
      BY <3>2
         DEF Inv, RoleInv, RoleWaker, ClaimLabels, LinkLabels, SetterLabels,
             TaskLabels, SchedLabels, SafePoints
    <3>3. ASSUME NEW z \in Setters PROVE RoleSetter(z)'
      BY <3>3
         DEF Inv, RoleInv, RoleSetter, ClaimLabels, LinkLabels, SetterLabels,
             TaskLabels, SchedLabels, SafePoints
    <3> QED  BY <3>1, <3>2, <3>3 DEF RoleInv
  <2>20. StackInv'  BY DEF Inv, StackInv, ClaimLabels, LinkLabels, RunLabels
  <2>21. TokenInv'  BY DEF Inv, TokenInv, TokenTask, TokenActor, TokenCpu
  <2>22. LinkInv'
    <3>1. \A x \in Cpus : CpuLinks(x)' <=> CpuLinks(x)  BY DEF CpuLinks
    <3>2. \A b \in Actors : ActorLinks(b)' <=> ActorLinks(b)
      BY DEF ActorLinks, LinkLabels
    <3> QED  BY <3>1, <3>2, LinkFrame DEF Inv
  <2>23. HelperInv'  BY DEF Inv, HelperInv, HelperCpu
  <2>24. SlotInv'  BY DEF Inv, SlotInv, SlotTask, SlotHeld, SlotActor, SlotCpu
  <2>25. MutationInv'
    <3>1. \A b \in Actors : HoldsAffinity(b)' => HoldsAffinity(b)
      BY DEF HoldsAffinity, SelfLabels, SchedLabels, SetterLabels, ClaimLabels,
         LinkLabels
    <3>2. QED  BY <3>1
                  DEF Inv, MutationInv, MutationTask, MutationOnce, MutationHeld,
                      MutationActor, MutationCpu, ClaimLabels, LinkLabels
  <2>26. StealInv'  BY DEF Inv, StealInv, StealOnce, StealCpu, StealLabels
  <2>27. PlaceInv'
    <3>1. PlaceTask'
      BY DEF Inv, PlaceInv, PlaceTask, MoverLabels, ActorLinks, ClaimLabels
    <3>2. ASSUME NEW b \in Actors PROVE PlaceActor(b)'
      BY SMTT(30), Z3T(30), <3>2
         DEF Inv, PlaceInv, PlaceActor, LinkLabels, MoverLabels, ActorLinks, ClaimLabels
    <3>3. ASSUME NEW x \in Cpus PROVE PlaceCpu(x)'
      BY <3>3 DEF Inv, PlaceInv, PlaceCpu, MoverLabels, ActorLinks, ClaimLabels
    <3> QED  BY <3>1, <3>2, <3>3 DEF PlaceInv
  <2>28. PreemptInv'  BY DEF Inv, PreemptInv, Picked, MoveUnderway, MoverLabels
  <2>29. ActiveInv'
    BY DEF Inv, ActiveInv, InSession, SessionLabels, SchedLabels, ClaimLabels,
       LinkLabels
  <2>30. QED
    BY <2>14, <2>15, <2>16, <2>17, <2>18, <2>19, <2>20, <2>21, <2>22, <2>23, <2>24,
       <2>25, <2>26, <2>27, <2>28, <2>29 DEF Inv
\* ... where the task is linked again and nudged.
<1>6. CASE RestoreReady(s)
  <2> USE <1>6
  <2> USE TaskWakeAssumption DEF Actors
  <2>1. pc[s] = "restore"  BY DEF RestoreReady, Here
  <2>2. /\ task.state = "Ready" /\ ready = {} /\ hand.token = 0
        /\ \A c \in Cpus : /\ ~CpuLinks(c) /\ cpu[c].pc \notin StealLabels
                           /\ cpu[c].pc \notin MoverLabels
        /\ \A a \in Actors \ {s} : ~ActorLinks(a)
    BY <2>1, LinkingActor DEF Inv, TokenInv, TokenTask, TokenActor, TokenCpu, ActorLinks
  <2>3. loc[s].cpu = task.cpu  BY <2>1 DEF Inv, PlaceInv, PlaceTask, PlaceActor, PlaceCpu
  <2>4. /\ pc[s] = "restore" /\ Goto(s, "nudge") /\ ready' = {task.cpu}
        /\ UNCHANGED <<bw, mutation, task, hand, cur, cpu, locked, ret, loc,
                       events, budget, fault>>
    BY <2>2, <2>1, <2>3 DEF RestoreReady, EnqueueMigrate, words, env
  <2>5. /\ pc'[s] = "nudge" /\ pc' \in [Actors -> Labels]
        /\ \A b \in Actors \ {s} : pc'[b] = pc[b]
    BY <2>4, Goes DEF Inv, Typed, Labels, WakeLabels, TaskLabels, SetterLabels
  <2>6. task.cpu \in Cpus  BY DEF Inv, Typed, TaskWords
  <2>7. /\ mutation.owner = "affinity" /\ mutation # WakeOwned
        /\ \A b \in Actors : HoldsAffinity(b) => b = s
    BY <2>4, MutIs
       DEF Inv, MutationInv, MutationTask, MutationOnce, MutationHeld, MutationActor,
           MutationCpu, HoldsAffinity, SetterLabels
  <2>8. /\ pc[Task] \notin SelfLabels /\ ~(pc[Task] \in SchedLabels /\ ret[Task] \in SelfLabels)
        /\ pc[Task] \notin {"publish", "commit", "finishblock"}
    BY <2>7
       DEF HoldsAffinity, Inv, MutationInv, MutationTask, MutationOnce, MutationHeld,
           MutationActor, MutationCpu
  <2>9. /\ ~hand.pending /\ \A b \in Actors : pc[b] \notin ClaimLabels
        /\ \A c \in Cpus : cpu[c].pc \notin {"take", "delegated"}
    BY <2>7, NoWakeClaim
  <2>10. /\ cur = NoCpu /\ pc[Task] \in {"resumed", "exited"}
    BY <2>2 DEF Inv, StackInv, TokenInv, TokenTask, TokenActor, TokenCpu
  <2> USE <2>2, <2>4, <2>5, <2>6, <2>7, <2>8, <2>9, <2>10
  <2>11. Typed'  BY DEF Inv, Typed
  <2>12. ~fault'  BY DEF Inv
  <2>13. RoleInv'
    <3>1. RoleTask'
      BY DEF Inv, RoleInv, RoleTask, ClaimLabels, LinkLabels, SetterLabels, TaskLabels,
             SchedLabels, SafePoints
    <3>2. ASSUME NEW y \in Wakers PROVE RoleWaker(y)'
      BY <3>2
         DEF Inv, RoleInv, RoleWaker, ClaimLabels, LinkLabels, SetterLabels,
             TaskLabels, SchedLabels, SafePoints
    <3>3. ASSUME NEW z \in Setters PROVE RoleSetter(z)'
      BY <3>3
         DEF Inv, RoleInv, RoleSetter, ClaimLabels, LinkLabels, SetterLabels,
             TaskLabels, SchedLabels, SafePoints
    <3> QED  BY <3>1, <3>2, <3>3 DEF RoleInv
  <2>14. StackInv'  BY DEF Inv, StackInv, ClaimLabels, LinkLabels, RunLabels
  <2>15. TokenInv'  BY DEF Inv, TokenInv, TokenTask, TokenActor, TokenCpu
  <2>16. LinkInv'
    BY DEF Inv, LinkInv, LinkOnce, LinkTask, LinkHeld, LinkActor, LinkCpu, CpuLinks,
           ActorLinks, LinkLabels
  <2>17. HelperInv'  BY DEF Inv, HelperInv, HelperCpu
  <2>18. SlotInv'  BY DEF Inv, SlotInv, SlotTask, SlotHeld, SlotActor, SlotCpu
  <2>19. MutationInv'
    <3>1. \A b \in Actors : HoldsAffinity(b)' => HoldsAffinity(b)
      BY DEF HoldsAffinity, SelfLabels, SchedLabels, SetterLabels, ClaimLabels,
         LinkLabels
    <3>2. QED  BY <3>1
                  DEF Inv, MutationInv, MutationTask, MutationOnce, MutationHeld,
                      MutationActor, MutationCpu, ClaimLabels, LinkLabels
  <2>20. StealInv'  BY DEF Inv, StealInv, StealOnce, StealCpu, StealLabels
  <2>21. PlaceInv'
    <3>1. PlaceTask'
      BY DEF Inv, PlaceInv, PlaceTask, MoverLabels, ActorLinks, ClaimLabels
    <3>2. ASSUME NEW b \in Actors PROVE PlaceActor(b)'
      BY <3>2
         DEF Inv, PlaceInv, PlaceActor, LinkLabels, MoverLabels, ActorLinks, ClaimLabels
    <3>3. ASSUME NEW x \in Cpus PROVE PlaceCpu(x)'
      BY <3>3 DEF Inv, PlaceInv, PlaceCpu, MoverLabels, ActorLinks, ClaimLabels
    <3> QED  BY <3>1, <3>2, <3>3 DEF PlaceInv
  <2>22. MaskInv'
    BY DEF Inv, MaskInv, MaskTask, MaskSetter, MaskActor, MaskCpu, LinkLabels
  <2>23. PreemptInv'  BY DEF Inv, PreemptInv, Picked, MoveUnderway, MoverLabels
  <2>24. SelfInv'
    BY DEF Inv, SelfInv, SelfTask, SelfCpu, SelfMoves, Continues, SchedLabels, SelfLabels
  <2>25. ActiveInv'
    BY DEF Inv, ActiveInv, InSession, SessionLabels, SchedLabels, ClaimLabels,
       LinkLabels
  <2>26. SessionInv'  BY DEF Inv, SessionInv, Polled, Continues, WakeUnderway, SchedLabels
  <2>27. QED
    BY <2>11, <2>12, <2>13, <2>14, <2>15, <2>16, <2>17, <2>18, <2>19, <2>20, <2>21,
       <2>22, <2>23, <2>24, <2>25, <2>26 DEF Inv
\* The nudged task has a reschedule pending, and its waker may be called.
<1>7. CASE NudgeTask(s)
  <2> USE <1>7
  <2> USE TaskWakeAssumption DEF Actors
  <2>1. /\ pc[s] = "nudge" /\ (Goto(s, "mark") \/ Goto(s, "finish"))
        /\ ret' = [ret EXCEPT ![s] = "finish"]
        /\ UNCHANGED <<bw, mutation, hand, ready, cur, cpu, locked, loc, events,
                       budget, fault>>
    BY DEF NudgeTask, Here, sched, env
  <2>2. /\ pc'[s] \in {"mark", "finish"} /\ pc' \in [Actors -> Labels]
        /\ \A b \in Actors \ {s} : pc'[b] = pc[b]
    BY <2>1, Goes DEF Inv, Typed, Labels, WakeLabels, TaskLabels, SetterLabels
  <2>3. /\ ret'[s] = "finish" /\ ret' \in [Actors -> Returns]
        /\ \A b \in Actors \ {s} : ret'[b] = ret[b]
    BY <2>1 DEF Inv, Typed, Returns
  <2>4. /\ task \in TaskWords /\ task' = [task EXCEPT !.resched = TRUE]
    BY DEF Inv, Typed, NudgeTask
  <2>5. /\ task'.state = task.state /\ task'.cpu = task.cpu
        /\ task'.mask = task.mask /\ task'.helper = task.helper
        /\ task'.resched = TRUE
        /\ task' \in TaskWords
    BY <2>4 DEF TaskWords
  <2>6. /\ mutation.owner = "affinity" /\ mutation # WakeOwned
        /\ \A b \in Actors : HoldsAffinity(b) => b = s
    BY <2>1, MutIs
       DEF Inv, MutationInv, MutationTask, MutationOnce, MutationHeld, MutationActor,
           MutationCpu, HoldsAffinity, SetterLabels
  <2>7. /\ pc[Task] \notin SelfLabels /\ ~(pc[Task] \in SchedLabels /\ ret[Task] \in SelfLabels)
        /\ pc[Task] \notin {"publish", "commit", "finishblock"}
    BY <2>6
       DEF HoldsAffinity, Inv, MutationInv, MutationTask, MutationOnce, MutationHeld,
           MutationActor, MutationCpu
  <2>8. /\ ~hand.pending /\ \A b \in Actors : pc[b] \notin ClaimLabels
        /\ \A c \in Cpus : cpu[c].pc \notin {"take", "delegated"}
    BY <2>6, NoWakeClaim
  <2> USE <2>1, <2>2, <2>3, <2>5, <2>6, <2>7, <2>8
  <2>9. Typed'  BY DEF Inv, Typed
  <2>10. ~fault'  BY DEF Inv
  <2>11. RoleInv'
    <3>1. RoleTask'
      BY DEF Inv, RoleInv, RoleTask, ClaimLabels, LinkLabels, SetterLabels, TaskLabels,
             SchedLabels, SafePoints
    <3>2. ASSUME NEW y \in Wakers PROVE RoleWaker(y)'
      BY <3>2
         DEF Inv, RoleInv, RoleWaker, ClaimLabels, LinkLabels, SetterLabels,
             TaskLabels, SchedLabels, SafePoints
    <3>3. ASSUME NEW z \in Setters PROVE RoleSetter(z)'
      <4>1. CASE z = s
        BY <3>3, <4>1
           DEF Inv, RoleInv, RoleSetter, ClaimLabels, LinkLabels, SetterLabels,
               TaskLabels, SchedLabels, SafePoints
      <4>2. CASE z # s
        BY <3>3, <4>2
           DEF Inv, RoleInv, RoleSetter, ClaimLabels, LinkLabels, SetterLabels,
               TaskLabels, SchedLabels, SafePoints
      <4> QED  BY <4>1, <4>2
    <3> QED  BY <3>1, <3>2, <3>3 DEF RoleInv
  <2>12. StackInv'  BY DEF Inv, StackInv, ClaimLabels, LinkLabels, RunLabels
  <2>13. TokenInv'
    <3>1. TokenTask'  BY DEF Inv, TokenInv, TokenTask
    <3>2. ASSUME NEW b \in Actors PROVE TokenActor(b)'
      BY <3>2 DEF Inv, TokenInv, TokenActor
    <3>3. ASSUME NEW x \in Cpus PROVE TokenCpu(x)'
      BY <3>3 DEF Inv, TokenInv, TokenCpu
    <3> QED  BY <3>1, <3>2, <3>3 DEF TokenInv
  <2>14. LinkInv'
    <3>1. \A x \in Cpus : CpuLinks(x)' <=> CpuLinks(x)  BY DEF CpuLinks
    <3>2. \A b \in Actors : ActorLinks(b)' <=> ActorLinks(b)
      BY DEF ActorLinks, LinkLabels
    <3> QED  BY <3>1, <3>2, LinkFrame DEF Inv
  <2>15. HelperInv'  BY DEF Inv, HelperInv, HelperCpu
  <2>16. SlotInv'  BY DEF Inv, SlotInv, SlotTask, SlotHeld, SlotActor, SlotCpu
  <2>17. MutationInv'
    <3>1. \A b \in Actors : HoldsAffinity(b)' => HoldsAffinity(b)
      BY DEF HoldsAffinity, SelfLabels, SchedLabels, SetterLabels, ClaimLabels,
         LinkLabels
    <3>2. MutationTask'
      BY <3>1 DEF Inv, MutationInv, MutationTask, ClaimLabels, LinkLabels
    <3>3. MutationOnce'
      BY <3>1 DEF Inv, MutationInv, MutationOnce, ClaimLabels, LinkLabels
    <3>4. MutationHeld'
      BY <3>1 DEF Inv, MutationInv, MutationHeld, ClaimLabels, LinkLabels
    <3>5. ASSUME NEW b \in Actors PROVE MutationActor(b)'
      BY <3>1, <3>5 DEF Inv, MutationInv, MutationActor, ClaimLabels, LinkLabels
    <3>6. ASSUME NEW x \in Cpus PROVE MutationCpu(x)'
      BY <3>1, <3>6 DEF Inv, MutationInv, MutationCpu, ClaimLabels, LinkLabels
    <3> QED  BY <3>2, <3>3, <3>4, <3>5, <3>6 DEF MutationInv
  <2>18. StealInv'  BY DEF Inv, StealInv, StealOnce, StealCpu, StealLabels
  <2>19. PlaceInv'
    <3>1. PlaceTask'  BY DEF Inv, PlaceInv, PlaceTask
    <3>2. ASSUME NEW b \in Actors PROVE PlaceActor(b)'
      <4>1. CASE b = s
        BY <3>2, <4>1 DEF Inv, PlaceInv, PlaceActor, LinkLabels
      <4>2. CASE b # s
        BY <3>2, <4>2 DEF Inv, PlaceInv, PlaceActor, LinkLabels
      <4> QED  BY <4>1, <4>2
    <3>3. ASSUME NEW x \in Cpus PROVE PlaceCpu(x)'
      BY <3>3 DEF Inv, PlaceInv, PlaceCpu
    <3> QED  BY <3>1, <3>2, <3>3 DEF PlaceInv
  <2>20. MaskInv'
    <3>1. MaskTask'  BY DEF Inv, MaskInv, MaskTask, LinkLabels
    <3>2. ASSUME NEW z \in Setters PROVE MaskSetter(z)'
      BY <3>2 DEF Inv, MaskInv, MaskSetter, LinkLabels
    <3>3. ASSUME NEW b \in Actors PROVE MaskActor(b)'
      BY <3>3 DEF Inv, MaskInv, MaskActor, LinkLabels
    <3>4. ASSUME NEW x \in Cpus PROVE MaskCpu(x)'
      BY <3>4 DEF Inv, MaskInv, MaskCpu, LinkLabels
    <3> QED  BY <3>1, <3>2, <3>3, <3>4 DEF MaskInv
  <2>21. PreemptInv'  BY DEF Inv, PreemptInv, Picked, MoveUnderway
  <2>22. SelfInv'
    BY DEF Inv, SelfInv, SelfTask, SelfCpu, SelfMoves, Continues, SchedLabels, SelfLabels
  <2>23. ActiveInv'
    BY DEF Inv, ActiveInv, InSession, SessionLabels, SchedLabels, ClaimLabels,
       LinkLabels
  <2>24. SessionInv'
    BY SMTT(30), Z3T(30) DEF Inv, SessionInv, Polled, Continues, WakeUnderway, SchedLabels
  <2>25. QED
    BY <2>9, <2>10, <2>11, <2>12, <2>13, <2>14, <2>15, <2>16, <2>17, <2>18, <2>19,
       <2>20, <2>21, <2>22, <2>23, <2>24 DEF Inv
\* clear_migration_if retires only this call's own helper.
<1>8. CASE RetireHelper(s)
  <2> USE <1>8
  <2> USE TaskWakeAssumption DEF Actors
  <2>1. /\ pc[s] = "retire" /\ Goto(s, "finish")
        /\ UNCHANGED <<bw, mutation, hand, ready, cur, cpu, locked, ret, loc,
                       events, budget, fault>>
    BY DEF RetireHelper, Here, sched, env
  <2>2. /\ pc'[s] = "finish" /\ pc' \in [Actors -> Labels]
        /\ \A b \in Actors \ {s} : pc'[b] = pc[b]
    BY <2>1, Goes DEF Inv, Typed, Labels, WakeLabels, TaskLabels, SetterLabels
  <2>3. (IF task.helper = s THEN NoCpu ELSE task.helper) \in Setters \cup {Task, NoCpu}
    BY DEF Inv, Typed, TaskWords
  <2>4. /\ task \in TaskWords /\ task' = [task EXCEPT !.helper = (IF task.helper = s THEN NoCpu ELSE task.helper)]
        /\ (IF task.helper = s THEN NoCpu ELSE task.helper) \in Setters \cup {Task, NoCpu}
    BY <2>3 DEF Inv, Typed, RetireHelper
  <2>5. /\ task'.state = task.state /\ task'.cpu = task.cpu
        /\ task'.mask = task.mask
        /\ task'.helper = (IF task.helper = s THEN NoCpu ELSE task.helper)
        /\ task'.resched = task.resched
        /\ task' \in TaskWords
    BY <2>4 DEF TaskWords
  <2>6. /\ mutation.owner = "affinity" /\ mutation # WakeOwned
        /\ \A b \in Actors : HoldsAffinity(b) => b = s
    BY <2>1, MutIs
       DEF Inv, MutationInv, MutationTask, MutationOnce, MutationHeld, MutationActor,
           MutationCpu, HoldsAffinity, SetterLabels
  <2>7. /\ pc[Task] \notin SelfLabels /\ ~(pc[Task] \in SchedLabels /\ ret[Task] \in SelfLabels)
        /\ pc[Task] \notin {"publish", "commit", "finishblock"}
    BY <2>6
       DEF HoldsAffinity, Inv, MutationInv, MutationTask, MutationOnce, MutationHeld,
           MutationActor, MutationCpu
  <2>8. /\ ~hand.pending /\ \A b \in Actors : pc[b] \notin ClaimLabels
        /\ \A c \in Cpus : cpu[c].pc \notin {"take", "delegated"}
    BY <2>6, NoWakeClaim
  <2> USE <2>1, <2>2, <2>5, <2>6, <2>7, <2>8
  <2>9. Typed'  BY DEF Inv, Typed
  <2>10. ~fault'  BY DEF Inv
  <2>11. RoleInv'
    <3>1. RoleTask'
      BY DEF Inv, RoleInv, RoleTask, ClaimLabels, LinkLabels, SetterLabels, TaskLabels,
             SchedLabels, SafePoints
    <3>2. ASSUME NEW y \in Wakers PROVE RoleWaker(y)'
      BY <3>2
         DEF Inv, RoleInv, RoleWaker, ClaimLabels, LinkLabels, SetterLabels,
             TaskLabels, SchedLabels, SafePoints
    <3>3. ASSUME NEW z \in Setters PROVE RoleSetter(z)'
      BY <3>3
         DEF Inv, RoleInv, RoleSetter, ClaimLabels, LinkLabels, SetterLabels,
             TaskLabels, SchedLabels, SafePoints
    <3> QED  BY <3>1, <3>2, <3>3 DEF RoleInv
  <2>12. StackInv'  BY DEF Inv, StackInv, ClaimLabels, LinkLabels, RunLabels
  <2>13. TokenInv'  BY DEF Inv, TokenInv, TokenTask, TokenActor, TokenCpu
  <2>14. LinkInv'
    <3>1. \A x \in Cpus : CpuLinks(x)' <=> CpuLinks(x)  BY DEF CpuLinks
    <3>2. \A b \in Actors : ActorLinks(b)' <=> ActorLinks(b)
      BY DEF ActorLinks, LinkLabels
    <3> QED  BY <3>1, <3>2, LinkFrame DEF Inv
  <2>15. HelperInv'  BY DEF Inv, HelperInv, HelperCpu
  <2>16. SlotInv'  BY DEF Inv, SlotInv, SlotTask, SlotHeld, SlotActor, SlotCpu
  <2>17. MutationInv'
    <3>1. \A b \in Actors : HoldsAffinity(b)' => HoldsAffinity(b)
      BY DEF HoldsAffinity, SelfLabels, SchedLabels, SetterLabels, ClaimLabels,
         LinkLabels
    <3>2. MutationTask'
      BY <3>1 DEF Inv, MutationInv, MutationTask, ClaimLabels, LinkLabels
    <3>3. MutationOnce'
      BY <3>1 DEF Inv, MutationInv, MutationOnce, ClaimLabels, LinkLabels
    <3>4. MutationHeld'
      BY <3>1 DEF Inv, MutationInv, MutationHeld, ClaimLabels, LinkLabels
    <3>5. ASSUME NEW b \in Actors PROVE MutationActor(b)'
      BY <3>1, <3>5 DEF Inv, MutationInv, MutationActor, ClaimLabels, LinkLabels
    <3>6. ASSUME NEW x \in Cpus PROVE MutationCpu(x)'
      BY <3>1, <3>6 DEF Inv, MutationInv, MutationCpu, ClaimLabels, LinkLabels
    <3> QED  BY <3>2, <3>3, <3>4, <3>5, <3>6 DEF MutationInv
  <2>18. StealInv'  BY DEF Inv, StealInv, StealOnce, StealCpu, StealLabels
  <2>19. PlaceInv'
    <3>1. PlaceTask'  BY DEF Inv, PlaceInv, PlaceTask
    <3>2. ASSUME NEW b \in Actors PROVE PlaceActor(b)'
      BY <3>2 DEF Inv, PlaceInv, PlaceActor, LinkLabels
    <3>3. ASSUME NEW x \in Cpus PROVE PlaceCpu(x)'
      BY <3>3 DEF Inv, PlaceInv, PlaceCpu
    <3> QED  BY <3>1, <3>2, <3>3 DEF PlaceInv
  <2>20. MaskInv'
    BY DEF Inv, MaskInv, MaskTask, MaskSetter, MaskActor, MaskCpu, LinkLabels
  <2>21. PreemptInv'  BY DEF Inv, PreemptInv, Picked, MoveUnderway
  <2>22. SelfInv'
    BY DEF Inv, SelfInv, SelfTask, SelfCpu, SelfMoves, Continues, SchedLabels, SelfLabels
  <2>23. ActiveInv'
    BY DEF Inv, ActiveInv, InSession, SessionLabels, SchedLabels, ClaimLabels,
       LinkLabels
  <2>24. SessionInv'  BY DEF Inv, SessionInv, Polled, Continues, WakeUnderway, SchedLabels
  <2>25. QED
    BY <2>9, <2>10, <2>11, <2>12, <2>13, <2>14, <2>15, <2>16, <2>17, <2>18, <2>19,
       <2>20, <2>21, <2>22, <2>23, <2>24 DEF Inv
<1>9. /\ DetachReady(s) => Goto(s, "attach") \/ Goto(s, "nudge")
      /\ AttachReady(s) => Goto(s, "retire") \/ Goto(s, "restore")
  BY DEF DetachReady, AttachReady
<1>10. QED  BY <1>1, <1>2, <1>3, <1>4, <1>5, <1>6, <1>7, <1>8, <1>9

\* Every step of set_task_affinity keeps the invariant.
LEMMA SetterStepKeeps ==
    ASSUME Inv, NEW s \in Setters, BeginAffinity(s) \/ SetterStep(s) PROVE Inv'
  BY RouteKeeps, MoveKeeps, FinishAffinityKeeps DEF SetterStep

-----------------------------------------------------------------------------
(* The CPUs: the end of a switch, the dispatch, the helper and the thief.  *)

\* The end of a context switch and the dispatch of the next task keep the invariant.
LEMMA HandoffKeeps ==
    ASSUME Inv, NEW c \in Cpus,
           \/ FinishHandoff(c) \/ TakeHandoff(c) \/ EnqueueDelegated(c) \/ Dispatch(c)
           \/ SwitchIn(c)
    PROVE  Inv'
\* finish_cpu_handoff_exact finds a delegated wake and takes it.
<1>1. ASSUME FinishHandoff(c), hand.pending = TRUE PROVE Inv'
  <2> USE <1>1
  <2> USE TaskWakeAssumption DEF Actors
  <2>1. /\ cpu[c].pc = "epilogue" /\ cur = NoCpu /\ hand.token # 0 /\ hand.token = cpu[c].prev
        /\ hand.cpu = c /\ \A d \in Cpus : cpu[d].pc \notin StealLabels
    BY DEF FinishHandoff, At, Inv, TokenInv, TokenTask, TokenActor, TokenCpu, StealInv,
       StealOnce, StealCpu, StealLabels
  <2>2. /\ hand.pending = TRUE /\ hand.slot /\ ready = {} /\ task.state = "Ready"
        /\ mutation = WakeOwned /\ task.cpu \in task.mask
        /\ \A a \in Actors : pc[a] \notin ClaimLabels /\ ~ActorLinks(a)
        /\ \A d \in Cpus : ~CpuLinks(d)
        /\ ~cpu[c].helper
    BY <2>1
       DEF Inv, LinkInv, LinkOnce, LinkTask, LinkHeld, LinkActor, LinkCpu, SlotInv,
           SlotTask, SlotHeld, SlotActor, SlotCpu, MutationInv, MutationTask,
           MutationOnce, MutationHeld, MutationActor, MutationCpu, MaskInv, MaskTask,
           MaskSetter, MaskActor, MaskCpu, CpuLinks
  <2>3. /\ cpu[c].pc = "epilogue" /\ cur = NoCpu /\ hand.token # 0 /\ hand.cpu = c
        /\ CpuGoto(c, "take")
        /\ UNCHANGED <<bw, mutation, task, ready, cur, locked, pc, ret, loc,
                       events, budget, fault>>
    BY <2>1, <2>2 DEF FinishHandoff, AfterEpilogue, control, env
  <2>4. /\ cpu' \in [Cpus -> CpuRecords] /\ cpu'[c].pc = "take"
        /\ \A d \in Cpus \ {c} : cpu'[d] = cpu[d]
        /\ cpu'[c].helper = cpu[c].helper /\ cpu'[c].from = cpu[c].from
        /\ cpu'[c].to = cpu[c].to
    BY <2>3, CpuGoes DEF Inv, CpuLabels
  <2>5. /\ hand \in HandWords /\ hand' = [hand EXCEPT !.token = 0, !.cpu = NoCpu, !.pending = FALSE]
        /\ NoCpu \in Cpus \cup {NoCpu}
    BY <2>1 DEF Inv, Typed, FinishHandoff
  <2>6. /\ hand'.token = 0 /\ hand'.cpu = NoCpu /\ hand'.pending = FALSE
        /\ hand'.slot = hand.slot /\ hand'.gen = hand.gen
        /\ hand' \in HandWords
    BY <2>5 DEF HandWords
  <2>7. \A d \in Cpus : cpu[d].pc \notin StealLabels  BY <2>1
  <2> USE <2>2, <2>3, <2>4, <2>6, <2>7
  <2>8. Typed'  BY DEF Inv, Typed
  <2>9. ~fault'  BY DEF Inv
  <2>10. RoleInv'
    <3>1. RoleTask'
      BY DEF Inv, RoleInv, RoleTask, ClaimLabels, LinkLabels, SetterLabels, TaskLabels,
             SchedLabels, SafePoints
    <3>2. ASSUME NEW y \in Wakers PROVE RoleWaker(y)'
      BY <3>2
         DEF Inv, RoleInv, RoleWaker, ClaimLabels, LinkLabels, SetterLabels,
             TaskLabels, SchedLabels, SafePoints
    <3>3. ASSUME NEW z \in Setters PROVE RoleSetter(z)'
      BY <3>3
         DEF Inv, RoleInv, RoleSetter, ClaimLabels, LinkLabels, SetterLabels,
             TaskLabels, SchedLabels, SafePoints
    <3> QED  BY <3>1, <3>2, <3>3 DEF RoleInv
  <2>11. StackInv'  BY DEF Inv, StackInv, ClaimLabels, LinkLabels, RunLabels
  <2>12. TokenInv'
    <3>1. TokenTask'  BY DEF Inv, TokenInv, TokenTask
    <3>2. ASSUME NEW b \in Actors PROVE TokenActor(b)'
      BY <3>2 DEF Inv, TokenInv, TokenActor
    <3>3. ASSUME NEW x \in Cpus PROVE TokenCpu(x)'
      BY SMTT(30), Z3T(30), <3>3 DEF Inv, TokenInv, TokenCpu
    <3> QED  BY <3>1, <3>2, <3>3 DEF TokenInv
  <2>13. LinkInv'
    <3>1. LinkOnce'
      BY SMTT(30), Z3T(30) DEF Inv, LinkInv, LinkOnce, CpuLinks, ActorLinks, LinkLabels
    <3>2. LinkTask'  BY DEF Inv, LinkInv, LinkTask, CpuLinks, ActorLinks, LinkLabels
    <3>3. LinkHeld'  BY DEF Inv, LinkInv, LinkHeld, CpuLinks, ActorLinks, LinkLabels
    <3>4. ASSUME NEW b \in Actors PROVE LinkActor(b)'
      BY <3>4 DEF Inv, LinkInv, LinkActor, CpuLinks, ActorLinks, LinkLabels
    <3>5. ASSUME NEW x \in Cpus PROVE LinkCpu(x)'
      BY <3>5 DEF Inv, LinkInv, LinkCpu, CpuLinks, ActorLinks, LinkLabels
    <3> QED  BY <3>1, <3>2, <3>3, <3>4, <3>5 DEF LinkInv
  <2>14. HelperInv'
    <3>1. ASSUME NEW x \in Cpus PROVE HelperCpu(x)'
      BY <3>1 DEF Inv, HelperInv, HelperCpu
    <3> QED  BY <3>1 DEF HelperInv
  <2>15. SlotInv'  BY DEF Inv, SlotInv, SlotTask, SlotHeld, SlotActor, SlotCpu
  <2>16. MutationInv'
    <3>1. \A b \in Actors : HoldsAffinity(b)' => HoldsAffinity(b)
      BY DEF HoldsAffinity, SelfLabels, SchedLabels, SetterLabels, ClaimLabels,
         LinkLabels
    <3>2. MutationTask'
      BY <3>1 DEF Inv, MutationInv, MutationTask, ClaimLabels, LinkLabels
    <3>3. MutationOnce'
      BY <3>1 DEF Inv, MutationInv, MutationOnce, ClaimLabels, LinkLabels
    <3>4. MutationHeld'
      BY <3>1 DEF Inv, MutationInv, MutationHeld, ClaimLabels, LinkLabels
    <3>5. ASSUME NEW b \in Actors PROVE MutationActor(b)'
      BY <3>1, <3>5 DEF Inv, MutationInv, MutationActor, ClaimLabels, LinkLabels
    <3>6. ASSUME NEW x \in Cpus PROVE MutationCpu(x)'
      BY <3>1, <3>6 DEF Inv, MutationInv, MutationCpu, ClaimLabels, LinkLabels
    <3> QED  BY <3>2, <3>3, <3>4, <3>5, <3>6 DEF MutationInv
  <2>17. StealInv'
    <3>1. StealOnce'  BY SMTT(30), Z3T(30) DEF Inv, StealInv, StealOnce, StealLabels
    <3>2. ASSUME NEW x \in Cpus PROVE StealCpu(x)'
      BY <3>2 DEF Inv, StealInv, StealCpu, StealLabels
    <3> QED  BY <3>1, <3>2 DEF StealInv
  <2>18. PlaceInv'
    <3>1. PlaceTask'  BY DEF Inv, PlaceInv, PlaceTask
    <3>2. ASSUME NEW b \in Actors PROVE PlaceActor(b)'
      BY <3>2 DEF Inv, PlaceInv, PlaceActor, LinkLabels
    <3>3. ASSUME NEW x \in Cpus PROVE PlaceCpu(x)'
      <4>1. CASE x = c
        BY <3>3, <4>1 DEF Inv, PlaceInv, PlaceCpu
      <4>2. CASE x # c
        BY <3>3, <4>2 DEF Inv, PlaceInv, PlaceCpu
      <4> QED  BY <4>1, <4>2
    <3> QED  BY <3>1, <3>2, <3>3 DEF PlaceInv
  <2>19. MaskInv'
    BY DEF Inv, MaskInv, MaskTask, MaskSetter, MaskActor, MaskCpu, LinkLabels
  <2>20. PreemptInv'  BY DEF Inv, PreemptInv, Picked, MoveUnderway
  <2>21. SelfInv'
    <3>1. SelfTask'  BY DEF Inv, SelfInv, SelfTask, SelfMoves, Continues, SchedLabels
    <3>2. ASSUME NEW x \in Cpus PROVE SelfCpu(x)'
      BY SMTT(30), Z3T(30), <3>2
         DEF Inv, SelfInv, SelfCpu, SelfMoves, Continues, SchedLabels
    <3> QED  BY <3>1, <3>2 DEF SelfInv
  <2>22. ActiveInv'
    BY DEF Inv, ActiveInv, InSession, SessionLabels, SchedLabels, ClaimLabels,
       LinkLabels
  <2>23. SessionInv'  BY DEF Inv, SessionInv, Polled, Continues, WakeUnderway, SchedLabels
  <2>24. QED
    BY <2>8, <2>9, <2>10, <2>11, <2>12, <2>13, <2>14, <2>15, <2>16, <2>17, <2>18,
       <2>19, <2>20, <2>21, <2>22, <2>23 DEF Inv
\* ... else hands the parked task to the migration helper.
<1>2. ASSUME FinishHandoff(c), hand.pending = FALSE, cpu[c].helper PROVE Inv'
  <2> USE <1>2
  <2> USE TaskWakeAssumption DEF Actors
  <2>1. /\ cpu[c].pc = "epilogue" /\ cur = NoCpu /\ hand.token # 0 /\ hand.token = cpu[c].prev
        /\ hand.cpu = c /\ \A d \in Cpus : cpu[d].pc \notin StealLabels
    BY DEF FinishHandoff, At, Inv, TokenInv, TokenTask, TokenActor, TokenCpu, StealInv,
       StealOnce, StealCpu, StealLabels
  <2>2. hand.pending = FALSE /\ cpu[c].helper = TRUE  BY <2>1 DEF Inv, Typed, CpuRecords
  <2>3. /\ cpu[c].pc = "epilogue" /\ cur = NoCpu /\ hand.token # 0 /\ hand.cpu = c
        /\ CpuGoto(c, "helper")
        /\ UNCHANGED <<bw, mutation, task, ready, cur, locked, pc, ret, loc,
                       events, budget, fault>>
    BY <2>1, <2>2 DEF FinishHandoff, AfterEpilogue, control, env
  <2>4. /\ cpu' \in [Cpus -> CpuRecords] /\ cpu'[c].pc = "helper"
        /\ \A d \in Cpus \ {c} : cpu'[d] = cpu[d]
        /\ cpu'[c].helper = cpu[c].helper /\ cpu'[c].from = cpu[c].from
        /\ cpu'[c].to = cpu[c].to
    BY <2>3, CpuGoes DEF Inv, CpuLabels
  <2>5. /\ hand \in HandWords /\ hand' = [hand EXCEPT !.token = 0, !.cpu = NoCpu, !.pending = FALSE]
        /\ NoCpu \in Cpus \cup {NoCpu}
    BY <2>1 DEF Inv, Typed, FinishHandoff
  <2>6. /\ hand'.token = 0 /\ hand'.cpu = NoCpu /\ hand'.pending = FALSE
        /\ hand'.slot = hand.slot /\ hand'.gen = hand.gen
        /\ hand' \in HandWords
    BY <2>5 DEF HandWords
  <2>7. cpu'[c].helper  BY <2>4, <2>2
  <2>8. \A d \in Cpus : cpu[d].pc \notin StealLabels  BY <2>1
  <2> USE <2>2, <2>3, <2>4, <2>6, <2>7, <2>8
  <2>9. Typed'  BY DEF Inv, Typed
  <2>10. ~fault'  BY DEF Inv
  <2>11. RoleInv'
    <3>1. RoleTask'
      BY DEF Inv, RoleInv, RoleTask, ClaimLabels, LinkLabels, SetterLabels, TaskLabels,
             SchedLabels, SafePoints
    <3>2. ASSUME NEW y \in Wakers PROVE RoleWaker(y)'
      BY <3>2
         DEF Inv, RoleInv, RoleWaker, ClaimLabels, LinkLabels, SetterLabels,
             TaskLabels, SchedLabels, SafePoints
    <3>3. ASSUME NEW z \in Setters PROVE RoleSetter(z)'
      BY <3>3
         DEF Inv, RoleInv, RoleSetter, ClaimLabels, LinkLabels, SetterLabels,
             TaskLabels, SchedLabels, SafePoints
    <3> QED  BY <3>1, <3>2, <3>3 DEF RoleInv
  <2>12. StackInv'  BY DEF Inv, StackInv, ClaimLabels, LinkLabels, RunLabels
  <2>13. TokenInv'
    <3>1. TokenTask'  BY DEF Inv, TokenInv, TokenTask
    <3>2. ASSUME NEW b \in Actors PROVE TokenActor(b)'
      BY <3>2 DEF Inv, TokenInv, TokenActor
    <3>3. ASSUME NEW x \in Cpus PROVE TokenCpu(x)'
      BY SMTT(30), Z3T(30), <3>3 DEF Inv, TokenInv, TokenCpu
    <3> QED  BY <3>1, <3>2, <3>3 DEF TokenInv
  <2>14. LinkInv'
    <3>1. \A x \in Cpus : CpuLinks(x)' <=> CpuLinks(x)  BY DEF CpuLinks
    <3>2. \A b \in Actors : ActorLinks(b)' <=> ActorLinks(b)
      BY DEF ActorLinks, LinkLabels
    <3> QED  BY <3>1, <3>2, LinkFrame DEF Inv
  <2>15. HelperInv'
    <3>1. ASSUME NEW x \in Cpus PROVE HelperCpu(x)'
      <4>1. CASE x = c
        BY <3>1, <4>1 DEF Inv, HelperInv, HelperCpu
      <4>2. CASE x # c
        BY <3>1, <4>2 DEF Inv, HelperInv, HelperCpu
      <4> QED  BY <4>1, <4>2
    <3> QED  BY <3>1 DEF HelperInv
  <2>16. SlotInv'
    <3>1. SlotTask'  BY DEF Inv, SlotInv, SlotTask
    <3>2. SlotHeld'  BY SMTT(30), Z3T(30) DEF Inv, SlotInv, SlotHeld
    <3>3. ASSUME NEW b \in Actors PROVE SlotActor(b)'
      BY <3>3 DEF Inv, SlotInv, SlotActor
    <3>4. ASSUME NEW x \in Cpus PROVE SlotCpu(x)'
      BY <3>4 DEF Inv, SlotInv, SlotCpu
    <3> QED  BY <3>1, <3>2, <3>3, <3>4 DEF SlotInv
  <2>17. MutationInv'
    <3>1. \A b \in Actors : HoldsAffinity(b)' => HoldsAffinity(b)
      BY DEF HoldsAffinity, SelfLabels, SchedLabels, SetterLabels, ClaimLabels,
         LinkLabels
    <3>2. MutationTask'
      BY <3>1 DEF Inv, MutationInv, MutationTask, ClaimLabels, LinkLabels
    <3>3. MutationOnce'
      BY <3>1 DEF Inv, MutationInv, MutationOnce, ClaimLabels, LinkLabels
    <3>4. MutationHeld'
      BY <3>1 DEF Inv, MutationInv, MutationHeld, ClaimLabels, LinkLabels
    <3>5. ASSUME NEW b \in Actors PROVE MutationActor(b)'
      BY SMTT(30), Z3T(30), <3>1, <3>5
         DEF Inv, MutationInv, MutationActor, ClaimLabels, LinkLabels
    <3>6. ASSUME NEW x \in Cpus PROVE MutationCpu(x)'
      BY <3>1, <3>6 DEF Inv, MutationInv, MutationCpu, ClaimLabels, LinkLabels
    <3> QED  BY <3>2, <3>3, <3>4, <3>5, <3>6 DEF MutationInv
  <2>18. StealInv'
    <3>1. StealOnce'  BY SMTT(30), Z3T(30) DEF Inv, StealInv, StealOnce, StealLabels
    <3>2. ASSUME NEW x \in Cpus PROVE StealCpu(x)'
      BY <3>2 DEF Inv, StealInv, StealCpu, StealLabels
    <3> QED  BY <3>1, <3>2 DEF StealInv
  <2>19. PlaceInv'
    <3>1. PlaceTask'  BY DEF Inv, PlaceInv, PlaceTask
    <3>2. ASSUME NEW b \in Actors PROVE PlaceActor(b)'
      BY <3>2 DEF Inv, PlaceInv, PlaceActor, LinkLabels
    <3>3. ASSUME NEW x \in Cpus PROVE PlaceCpu(x)'
      <4>1. CASE x = c
        BY <3>3, <4>1 DEF Inv, PlaceInv, PlaceCpu
      <4>2. CASE x # c
        BY <3>3, <4>2 DEF Inv, PlaceInv, PlaceCpu
      <4> QED  BY <4>1, <4>2
    <3> QED  BY <3>1, <3>2, <3>3 DEF PlaceInv
  <2>20. MaskInv'
    <3>1. MaskTask'  BY DEF Inv, MaskInv, MaskTask, LinkLabels
    <3>2. ASSUME NEW z \in Setters PROVE MaskSetter(z)'
      BY <3>2 DEF Inv, MaskInv, MaskSetter, LinkLabels
    <3>3. ASSUME NEW b \in Actors PROVE MaskActor(b)'
      BY <3>3 DEF Inv, MaskInv, MaskActor, LinkLabels
    <3>4. ASSUME NEW x \in Cpus PROVE MaskCpu(x)'
      BY <3>4 DEF Inv, MaskInv, MaskCpu, LinkLabels
    <3> QED  BY <3>1, <3>2, <3>3, <3>4 DEF MaskInv
  <2>21. PreemptInv'  BY SMTT(30), Z3T(30) DEF Inv, PreemptInv, Picked, MoveUnderway
  <2>22. SelfInv'
    <3>1. SelfTask'  BY DEF Inv, SelfInv, SelfTask, SelfMoves, Continues, SchedLabels
    <3>2. ASSUME NEW x \in Cpus PROVE SelfCpu(x)'
      <4>1. CASE x = c
        BY <3>2, <4>1 DEF Inv, SelfInv, SelfCpu, SelfMoves, Continues, SchedLabels
      <4>2. CASE x # c
        BY <3>2, <4>2 DEF Inv, SelfInv, SelfCpu, SelfMoves, Continues, SchedLabels
      <4> QED  BY <4>1, <4>2
    <3> QED  BY <3>1, <3>2 DEF SelfInv
  <2>23. ActiveInv'
    BY DEF Inv, ActiveInv, InSession, SessionLabels, SchedLabels, ClaimLabels,
       LinkLabels
  <2>24. SessionInv'  BY DEF Inv, SessionInv, Polled, Continues, WakeUnderway, SchedLabels
  <2>25. QED
    BY <2>9, <2>10, <2>11, <2>12, <2>13, <2>14, <2>15, <2>16, <2>17, <2>18, <2>19,
       <2>20, <2>21, <2>22, <2>23, <2>24 DEF Inv
\* ... or leaves a task that stays queued, blocked or exited.
<1>3. ASSUME FinishHandoff(c), hand.pending = FALSE, ~cpu[c].helper PROVE Inv'
  <2> USE <1>3
  <2> USE TaskWakeAssumption DEF Actors
  <2>1. /\ cpu[c].pc = "epilogue" /\ cur = NoCpu /\ hand.token # 0 /\ hand.token = cpu[c].prev
        /\ hand.cpu = c /\ \A d \in Cpus : cpu[d].pc \notin StealLabels
    BY DEF FinishHandoff, At, Inv, TokenInv, TokenTask, TokenActor, TokenCpu, StealInv,
       StealOnce, StealCpu, StealLabels
  <2>2. hand.pending = FALSE /\ ~cpu[c].helper  BY <2>1
  <2>3. /\ cpu[c].pc = "epilogue" /\ cur = NoCpu /\ hand.token # 0 /\ hand.cpu = c
        /\ CpuGoto(c, "run")
        /\ UNCHANGED <<bw, mutation, task, ready, cur, locked, pc, ret, loc,
                       events, budget, fault>>
    BY <2>1, <2>2 DEF FinishHandoff, AfterEpilogue, control, env
  <2>4. /\ cpu' \in [Cpus -> CpuRecords] /\ cpu'[c].pc = "run"
        /\ \A d \in Cpus \ {c} : cpu'[d] = cpu[d]
        /\ cpu'[c].helper = FALSE
    BY <2>3, CpuGoes DEF Inv, CpuLabels
  <2>5. /\ hand \in HandWords /\ hand' = [hand EXCEPT !.token = 0, !.cpu = NoCpu, !.pending = FALSE]
        /\ NoCpu \in Cpus \cup {NoCpu}
    BY <2>1 DEF Inv, Typed, FinishHandoff
  <2>6. /\ hand'.token = 0 /\ hand'.cpu = NoCpu /\ hand'.pending = FALSE
        /\ hand'.slot = hand.slot /\ hand'.gen = hand.gen
        /\ hand' \in HandWords
    BY <2>5 DEF HandWords
  <2>7. \A d \in Cpus : cpu[d].pc \notin StealLabels  BY <2>1
  <2> USE <2>2, <2>3, <2>4, <2>6, <2>7
  <2>8. Typed'  BY DEF Inv, Typed
  <2>9. ~fault'  BY DEF Inv
  <2>10. RoleInv'
    <3>1. RoleTask'
      BY DEF Inv, RoleInv, RoleTask, ClaimLabels, LinkLabels, SetterLabels, TaskLabels,
             SchedLabels, SafePoints
    <3>2. ASSUME NEW y \in Wakers PROVE RoleWaker(y)'
      BY <3>2
         DEF Inv, RoleInv, RoleWaker, ClaimLabels, LinkLabels, SetterLabels,
             TaskLabels, SchedLabels, SafePoints
    <3>3. ASSUME NEW z \in Setters PROVE RoleSetter(z)'
      BY <3>3
         DEF Inv, RoleInv, RoleSetter, ClaimLabels, LinkLabels, SetterLabels,
             TaskLabels, SchedLabels, SafePoints
    <3> QED  BY <3>1, <3>2, <3>3 DEF RoleInv
  <2>11. StackInv'  BY DEF Inv, StackInv, ClaimLabels, LinkLabels, RunLabels
  <2>12. TokenInv'
    <3>1. TokenTask'  BY DEF Inv, TokenInv, TokenTask
    <3>2. ASSUME NEW b \in Actors PROVE TokenActor(b)'
      BY <3>2 DEF Inv, TokenInv, TokenActor
    <3>3. ASSUME NEW x \in Cpus PROVE TokenCpu(x)'
      <4>1. CASE x = c
        BY <3>3, <4>1 DEF Inv, TokenInv, TokenCpu
      <4>2. CASE x # c
        BY <3>3, <4>2 DEF Inv, TokenInv, TokenCpu
      <4> QED  BY <4>1, <4>2
    <3> QED  BY <3>1, <3>2, <3>3 DEF TokenInv
  <2>13. LinkInv'
    <3>1. \A x \in Cpus : CpuLinks(x)' <=> CpuLinks(x)  BY DEF CpuLinks
    <3>2. \A b \in Actors : ActorLinks(b)' <=> ActorLinks(b)
      BY DEF ActorLinks, LinkLabels
    <3> QED  BY <3>1, <3>2, LinkFrame DEF Inv
  <2>14. HelperInv'
    <3>1. ASSUME NEW x \in Cpus PROVE HelperCpu(x)'
      BY <3>1 DEF Inv, HelperInv, HelperCpu
    <3> QED  BY <3>1 DEF HelperInv
  <2>15. SlotInv'
    <3>1. SlotTask'  BY DEF Inv, SlotInv, SlotTask
    <3>2. SlotHeld'  BY DEF Inv, SlotInv, SlotHeld
    <3>3. ASSUME NEW b \in Actors PROVE SlotActor(b)'
      BY <3>3 DEF Inv, SlotInv, SlotActor
    <3>4. ASSUME NEW x \in Cpus PROVE SlotCpu(x)'
      BY <3>4 DEF Inv, SlotInv, SlotCpu
    <3> QED  BY <3>1, <3>2, <3>3, <3>4 DEF SlotInv
  <2>16. MutationInv'
    <3>1. \A b \in Actors : HoldsAffinity(b)' => HoldsAffinity(b)
      BY DEF HoldsAffinity, SelfLabels, SchedLabels, SetterLabels, ClaimLabels,
         LinkLabels
    <3>2. MutationTask'
      BY <3>1 DEF Inv, MutationInv, MutationTask, ClaimLabels, LinkLabels
    <3>3. MutationOnce'
      BY <3>1 DEF Inv, MutationInv, MutationOnce, ClaimLabels, LinkLabels
    <3>4. MutationHeld'
      BY <3>1 DEF Inv, MutationInv, MutationHeld, ClaimLabels, LinkLabels
    <3>5. ASSUME NEW b \in Actors PROVE MutationActor(b)'
      BY <3>1, <3>5 DEF Inv, MutationInv, MutationActor, ClaimLabels, LinkLabels
    <3>6. ASSUME NEW x \in Cpus PROVE MutationCpu(x)'
      BY <3>1, <3>6 DEF Inv, MutationInv, MutationCpu, ClaimLabels, LinkLabels
    <3> QED  BY <3>2, <3>3, <3>4, <3>5, <3>6 DEF MutationInv
  <2>17. StealInv'  BY DEF Inv, StealInv, StealOnce, StealCpu, StealLabels
  <2>18. PlaceInv'
    <3>1. PlaceTask'  BY DEF Inv, PlaceInv, PlaceTask
    <3>2. ASSUME NEW b \in Actors PROVE PlaceActor(b)'
      BY <3>2 DEF Inv, PlaceInv, PlaceActor, LinkLabels
    <3>3. ASSUME NEW x \in Cpus PROVE PlaceCpu(x)'
      <4>1. CASE x = c
        BY <3>3, <4>1 DEF Inv, PlaceInv, PlaceCpu
      <4>2. CASE x # c
        BY <3>3, <4>2 DEF Inv, PlaceInv, PlaceCpu
      <4> QED  BY <4>1, <4>2
    <3> QED  BY <3>1, <3>2, <3>3 DEF PlaceInv
  <2>19. MaskInv'
    <3>1. MaskTask'  BY DEF Inv, MaskInv, MaskTask, LinkLabels
    <3>2. ASSUME NEW z \in Setters PROVE MaskSetter(z)'
      BY <3>2 DEF Inv, MaskInv, MaskSetter, LinkLabels
    <3>3. ASSUME NEW b \in Actors PROVE MaskActor(b)'
      BY <3>3 DEF Inv, MaskInv, MaskActor, LinkLabels
    <3>4. ASSUME NEW x \in Cpus PROVE MaskCpu(x)'
      BY <3>4 DEF Inv, MaskInv, MaskCpu, LinkLabels
    <3> QED  BY <3>1, <3>2, <3>3, <3>4 DEF MaskInv
  <2>20. PreemptInv'  BY DEF Inv, PreemptInv, Picked, MoveUnderway
  <2>21. SelfInv'
    <3>1. SelfTask'  BY DEF Inv, SelfInv, SelfTask, SelfMoves, Continues, SchedLabels
    <3>2. ASSUME NEW x \in Cpus PROVE SelfCpu(x)'
      BY <3>2 DEF Inv, SelfInv, SelfCpu, SelfMoves, Continues, SchedLabels
    <3> QED  BY <3>1, <3>2 DEF SelfInv
  <2>22. ActiveInv'
    BY DEF Inv, ActiveInv, InSession, SessionLabels, SchedLabels, ClaimLabels,
       LinkLabels
  <2>23. SessionInv'  BY DEF Inv, SessionInv, Polled, Continues, WakeUnderway, SchedLabels
  <2>24. QED
    BY <2>8, <2>9, <2>10, <2>11, <2>12, <2>13, <2>14, <2>15, <2>16, <2>17, <2>18,
       <2>19, <2>20, <2>21, <2>22, <2>23 DEF Inv
\* ... and takes the delegated wake out of its slot.
<1>4. CASE TakeHandoff(c)
  <2> USE <1>4
  <2> USE TaskWakeAssumption DEF Actors
  <2>1. cpu[c].pc = "take" /\ CpuLinks(c)
    BY DEF TakeHandoff, At, CpuLinks, Inv, HelperInv, HelperCpu
  <2>2. /\ task.state = "Ready" /\ ready = {} /\ ~hand.pending /\ hand.token = 0 /\ CpuLinks(c)
        /\ \A d \in Cpus \ {c} : ~CpuLinks(d) /\ cpu[d].pc \notin MoverLabels
        /\ \A d \in Cpus : cpu[d].pc \notin StealLabels
        /\ \A a \in Actors : ~ActorLinks(a)
    BY <2>1, LinkingCpu DEF Inv, TokenInv, TokenTask, TokenActor, TokenCpu
  <2>3. /\ cur = NoCpu /\ pc[Task] \in {"resumed", "exited"}  BY <2>2, Parked
  <2>4. hand.slot = TRUE /\ task.cpu \in Cpus
    BY <2>1
       DEF Inv, SlotInv, SlotTask, SlotHeld, SlotActor, SlotCpu, Typed, HandWords,
           TaskWords
  <2>5. /\ cpu[c].pc = "take"
        /\ UNCHANGED <<bw, mutation, task, ready, cur, locked, pc, ret, loc,
                       events, budget, fault>>
    BY <2>1, <2>4 DEF TakeHandoff, control, env
  <2>6. /\ cpu' = [cpu EXCEPT ![c].pc = "delegated", ![c].to = task.cpu]
        /\ cpu \in [Cpus -> CpuRecords] /\ "delegated" \in CpuLabels
        /\ task.cpu \in Cpus
    BY <2>4 DEF TakeHandoff, Inv, Typed, CpuLabels
  <2>7. cpu' = [cpu EXCEPT ![c] = [cpu[c] EXCEPT !.pc = "delegated", !.to = task.cpu]]
    BY <2>6
  <2>8. cpu[c] \in CpuRecords  BY <2>6
  <2>9. [cpu[c] EXCEPT !.pc = "delegated", !.to = task.cpu] \in CpuRecords
    BY <2>6, <2>8 DEF CpuRecords
  <2>10. cpu' \in [Cpus -> CpuRecords]  BY SMTT(30), Z3T(30), <2>6, <2>7, <2>9
  <2>11. /\ cpu'[c].pc = "delegated" /\ cpu'[c].to = task.cpu
         /\ cpu'[c].helper = cpu[c].helper /\ cpu'[c].from = cpu[c].from
    BY SMTT(30), Z3T(30), <2>6 DEF CpuRecords
  <2>12. /\ cpu' \in [Cpus -> CpuRecords] /\ cpu'[c].pc = "delegated"
         /\ cpu'[c].to = task.cpu
         /\ cpu'[c].helper = cpu[c].helper /\ cpu'[c].from = cpu[c].from
         /\ \A d \in Cpus \ {c} : cpu'[d] = cpu[d]
    BY <2>6, <2>7, <2>10, <2>11
  <2>13. /\ hand \in HandWords /\ hand' = [hand EXCEPT !.slot = FALSE]
    BY <2>4 DEF Inv, Typed, TakeHandoff
  <2>14. /\ hand'.token = hand.token /\ hand'.cpu = hand.cpu
         /\ hand'.pending = hand.pending /\ hand'.slot = FALSE
         /\ hand'.gen = hand.gen
         /\ hand' \in HandWords
    BY <2>13 DEF HandWords
  <2> USE <2>2, <2>3, <2>5, <2>12, <2>14
  <2>15. Typed'  BY DEF Inv, Typed
  <2>16. ~fault'  BY DEF Inv
  <2>17. RoleInv'
    BY DEF Inv, RoleInv, RoleTask, RoleWaker, RoleSetter, ClaimLabels, LinkLabels,
       SetterLabels, TaskLabels,
       SchedLabels, SafePoints
  <2>18. StackInv'  BY DEF Inv, StackInv, ClaimLabels, LinkLabels, RunLabels
  <2>19. TokenInv'
    <3>1. TokenTask'  BY DEF Inv, TokenInv, TokenTask
    <3>2. ASSUME NEW b \in Actors PROVE TokenActor(b)'
      BY <3>2 DEF Inv, TokenInv, TokenActor
    <3>3. ASSUME NEW x \in Cpus PROVE TokenCpu(x)'
      BY <3>3 DEF Inv, TokenInv, TokenCpu
    <3> QED  BY <3>1, <3>2, <3>3 DEF TokenInv
  <2>20. LinkInv'
    <3>1. \A x \in Cpus : CpuLinks(x)' <=> CpuLinks(x)  BY DEF CpuLinks
    <3>2. \A b \in Actors : ActorLinks(b)' <=> ActorLinks(b)
      BY DEF ActorLinks, LinkLabels
    <3> QED  BY <3>1, <3>2, LinkFrame DEF Inv
  <2>21. HelperInv'
    <3>1. ASSUME NEW x \in Cpus PROVE HelperCpu(x)'
      BY <3>1 DEF Inv, HelperInv, HelperCpu
    <3> QED  BY <3>1 DEF HelperInv
  <2>22. SlotInv'
    <3>1. SlotTask'  BY DEF Inv, SlotInv, SlotTask, ActorLinks, LinkLabels, MoverLabels
    <3>2. SlotHeld'  BY DEF Inv, SlotInv, SlotHeld, ActorLinks, LinkLabels, MoverLabels
    <3>3. ASSUME NEW b \in Actors PROVE SlotActor(b)'
      BY <3>3 DEF Inv, SlotInv, SlotActor, ActorLinks, LinkLabels, MoverLabels
    <3>4. ASSUME NEW x \in Cpus PROVE SlotCpu(x)'
      BY SMTT(30), Z3T(30), <3>4
         DEF Inv, SlotInv, SlotCpu, ActorLinks, LinkLabels, MoverLabels
    <3> QED  BY <3>1, <3>2, <3>3, <3>4 DEF SlotInv
  <2>23. MutationInv'
    <3>1. \A b \in Actors : HoldsAffinity(b)' => HoldsAffinity(b)
      BY DEF HoldsAffinity, SelfLabels, SchedLabels, SetterLabels, ClaimLabels,
         LinkLabels
    <3>2. MutationTask'
      BY <3>1 DEF Inv, MutationInv, MutationTask, ClaimLabels, LinkLabels
    <3>3. MutationOnce'
      BY <3>1 DEF Inv, MutationInv, MutationOnce, ClaimLabels, LinkLabels
    <3>4. MutationHeld'
      BY <3>1 DEF Inv, MutationInv, MutationHeld, ClaimLabels, LinkLabels
    <3>5. ASSUME NEW b \in Actors PROVE MutationActor(b)'
      BY <3>1, <3>5 DEF Inv, MutationInv, MutationActor, ClaimLabels, LinkLabels
    <3>6. ASSUME NEW x \in Cpus PROVE MutationCpu(x)'
      BY <3>1, <3>6 DEF Inv, MutationInv, MutationCpu, ClaimLabels, LinkLabels
    <3> QED  BY <3>2, <3>3, <3>4, <3>5, <3>6 DEF MutationInv
  <2>24. StealInv'  BY DEF Inv, StealInv, StealOnce, StealCpu, StealLabels
  <2>25. PlaceInv'
    <3>1. PlaceTask'  BY DEF Inv, PlaceInv, PlaceTask
    <3>2. ASSUME NEW b \in Actors PROVE PlaceActor(b)'
      BY <3>2 DEF Inv, PlaceInv, PlaceActor, LinkLabels
    <3>3. ASSUME NEW x \in Cpus PROVE PlaceCpu(x)'
      BY <3>3 DEF Inv, PlaceInv, PlaceCpu
    <3> QED  BY <3>1, <3>2, <3>3 DEF PlaceInv
  <2>26. MaskInv'
    BY DEF Inv, MaskInv, MaskTask, MaskSetter, MaskActor, MaskCpu, LinkLabels
  <2>27. PreemptInv'  BY DEF Inv, PreemptInv, Picked, MoveUnderway
  <2>28. SelfInv'
    <3>1. SelfTask'  BY DEF Inv, SelfInv, SelfTask, SelfMoves, Continues, SchedLabels
    <3>2. ASSUME NEW x \in Cpus PROVE SelfCpu(x)'
      BY <3>2 DEF Inv, SelfInv, SelfCpu, SelfMoves, Continues, SchedLabels
    <3> QED  BY <3>1, <3>2 DEF SelfInv
  <2>29. ActiveInv'
    BY DEF Inv, ActiveInv, InSession, SessionLabels, SchedLabels, ClaimLabels,
       LinkLabels
  <2>30. SessionInv'  BY DEF Inv, SessionInv, Polled, Continues, WakeUnderway, SchedLabels
  <2>31. QED
    BY <2>15, <2>16, <2>17, <2>18, <2>19, <2>20, <2>21, <2>22, <2>23, <2>24, <2>25,
       <2>26, <2>27, <2>28, <2>29, <2>30 DEF Inv
\* ... to link the task and clear the wake claim.
<1>5. CASE EnqueueDelegated(c)
  <2> USE <1>5
  <2> USE TaskWakeAssumption DEF Actors
  <2>1. cpu[c].pc = "delegated" /\ CpuLinks(c)
    BY DEF EnqueueDelegated, At, CpuLinks, Inv, HelperInv, HelperCpu
  <2>2. /\ task.state = "Ready" /\ ready = {} /\ ~hand.pending /\ hand.token = 0 /\ CpuLinks(c)
        /\ \A d \in Cpus \ {c} : ~CpuLinks(d) /\ cpu[d].pc \notin MoverLabels
        /\ \A d \in Cpus : cpu[d].pc \notin StealLabels
        /\ \A a \in Actors : ~ActorLinks(a)
    BY <2>1, LinkingCpu DEF Inv, TokenInv, TokenTask, TokenActor, TokenCpu
  <2>3. /\ cur = NoCpu /\ pc[Task] \in {"resumed", "exited"}  BY <2>2, Parked
  <2>4. /\ mutation = WakeOwned /\ ~cpu[c].helper /\ cpu[c].to = task.cpu
        /\ task.cpu \in task.mask
    BY <2>1
       DEF Inv, MutationInv, MutationTask, MutationOnce, MutationHeld, MutationActor,
           MutationCpu, HelperInv, HelperCpu, PlaceInv, PlaceTask, PlaceActor,
           PlaceCpu, MaskInv, MaskTask, MaskSetter, MaskActor, MaskCpu
  <2>5. /\ cpu[c].pc = "delegated" /\ ready' = {task.cpu} /\ mutation' = Idle /\ CpuGoto(c, "run")
        /\ UNCHANGED <<bw, task, hand, cur, locked, pc, ret, loc, events,
                       budget, fault>>
    BY <2>1, <2>2, <2>4 DEF EnqueueDelegated, EnqueueWakeup, AfterEpilogue, control,
       env
  <2>6. /\ cpu' \in [Cpus -> CpuRecords] /\ cpu'[c].pc = "run"
        /\ \A d \in Cpus \ {c} : cpu'[d] = cpu[d]
        /\ cpu'[c].helper = FALSE
    BY <2>5, CpuGoes DEF Inv, CpuLabels
  <2>7. /\ mutation.owner = "none" /\ mutation'.owner = "none" /\ mutation' # WakeOwned
        /\ mutation' \in MutationWords /\ task.cpu \in task.mask /\ task.cpu \in Cpus
    BY <2>5, <2>4, MutIs DEF Inv, Typed, TaskWords
  <2>8. \A a \in Actors : ~HoldsAffinity(a) /\ pc[a] \notin ClaimLabels
    BY <2>1, <2>7
       DEF Inv, MutationInv, MutationTask, MutationOnce, MutationHeld, MutationActor,
           MutationCpu
  <2> USE <2>2, <2>3, <2>5, <2>6, <2>7, <2>8
  <2>9. Typed'  BY DEF Inv, Typed
  <2>10. ~fault'  BY DEF Inv
  <2>11. RoleInv'
    BY DEF Inv, RoleInv, RoleTask, RoleWaker, RoleSetter, ClaimLabels, LinkLabels,
       SetterLabels, TaskLabels,
       SchedLabels, SafePoints
  <2>12. StackInv'  BY DEF Inv, StackInv, ClaimLabels, LinkLabels, RunLabels
  <2>13. TokenInv'
    <3>1. TokenTask'  BY DEF Inv, TokenInv, TokenTask
    <3>2. ASSUME NEW b \in Actors PROVE TokenActor(b)'
      BY <3>2 DEF Inv, TokenInv, TokenActor
    <3>3. ASSUME NEW x \in Cpus PROVE TokenCpu(x)'
      BY <3>3 DEF Inv, TokenInv, TokenCpu
    <3> QED  BY <3>1, <3>2, <3>3 DEF TokenInv
  <2>14. LinkInv'
    <3>1. LinkOnce'
      BY SMTT(30), Z3T(30) DEF Inv, LinkInv, LinkOnce, CpuLinks, ActorLinks, LinkLabels
    <3>2. LinkTask'  BY DEF Inv, LinkInv, LinkTask, CpuLinks, ActorLinks, LinkLabels
    <3>3. LinkHeld'  BY DEF Inv, LinkInv, LinkHeld, CpuLinks, ActorLinks, LinkLabels
    <3>4. ASSUME NEW b \in Actors PROVE LinkActor(b)'
      BY <3>4 DEF Inv, LinkInv, LinkActor, CpuLinks, ActorLinks, LinkLabels
    <3>5. ASSUME NEW x \in Cpus PROVE LinkCpu(x)'
      BY <3>5
         DEF Inv, LinkInv, LinkOnce, LinkTask, LinkHeld, LinkActor, LinkCpu, CpuLinks,
             ActorLinks, LinkLabels
    <3> QED  BY <3>1, <3>2, <3>3, <3>4, <3>5 DEF LinkInv
  <2>15. HelperInv'  BY DEF Inv, HelperInv, HelperCpu
  <2>16. SlotInv'
    <3>1. SlotTask'  BY DEF Inv, SlotInv, SlotTask
    <3>2. SlotHeld'  BY DEF Inv, SlotInv, SlotHeld
    <3>3. ASSUME NEW b \in Actors PROVE SlotActor(b)'
      BY <3>3 DEF Inv, SlotInv, SlotActor
    <3>4. ASSUME NEW x \in Cpus PROVE SlotCpu(x)'
      BY <3>4 DEF Inv, SlotInv, SlotCpu
    <3> QED  BY <3>1, <3>2, <3>3, <3>4 DEF SlotInv
  <2>17. MutationInv'
    <3>1. \A b \in Actors : HoldsAffinity(b)' => HoldsAffinity(b)
      BY DEF HoldsAffinity, SelfLabels, SchedLabels, SetterLabels, ClaimLabels,
         LinkLabels
    <3>2. MutationTask'
      BY <3>1
         DEF Inv, MutationInv, MutationTask, ClaimLabels, LinkLabels, MoverLabels,
             StealLabels
    <3>3. MutationOnce'
      BY <3>1
         DEF Inv, MutationInv, MutationOnce, ClaimLabels, LinkLabels, MoverLabels,
             StealLabels
    <3>4. MutationHeld'
      BY <3>1
         DEF Inv, MutationInv, MutationHeld, ClaimLabels, LinkLabels, MoverLabels,
             StealLabels
    <3>5. ASSUME NEW b \in Actors PROVE MutationActor(b)'
      BY <3>1, <3>5
         DEF Inv, MutationInv, MutationActor, ClaimLabels, LinkLabels, MoverLabels,
             StealLabels
    <3>6. ASSUME NEW x \in Cpus PROVE MutationCpu(x)'
      BY SMTT(30), Z3T(30), <3>1, <3>6
         DEF Inv, MutationInv, MutationCpu, ClaimLabels, LinkLabels, MoverLabels,
             StealLabels
    <3> QED  BY <3>2, <3>3, <3>4, <3>5, <3>6 DEF MutationInv
  <2>18. StealInv'  BY DEF Inv, StealInv, StealOnce, StealCpu, StealLabels
  <2>19. PlaceInv'
    <3>1. PlaceTask'  BY DEF Inv, PlaceInv, PlaceTask
    <3>2. ASSUME NEW b \in Actors PROVE PlaceActor(b)'
      BY <3>2 DEF Inv, PlaceInv, PlaceActor, LinkLabels
    <3>3. ASSUME NEW x \in Cpus PROVE PlaceCpu(x)'
      BY <3>3 DEF Inv, PlaceInv, PlaceCpu
    <3> QED  BY <3>1, <3>2, <3>3 DEF PlaceInv
  <2>20. MaskInv'
    BY DEF Inv, MaskInv, MaskTask, MaskSetter, MaskActor, MaskCpu, LinkLabels
  <2>21. PreemptInv'
    BY DEF Inv, PreemptInv, Picked, MoveUnderway, MoverLabels, ActorLinks
  <2>22. SelfInv'
    <3>1. SelfTask'  BY DEF Inv, SelfInv, SelfTask, SelfMoves, Continues, SchedLabels
    <3>2. ASSUME NEW x \in Cpus PROVE SelfCpu(x)'
      BY <3>2 DEF Inv, SelfInv, SelfCpu, SelfMoves, Continues, SchedLabels
    <3> QED  BY <3>1, <3>2 DEF SelfInv
  <2>23. ActiveInv'
    BY DEF Inv, ActiveInv, InSession, SessionLabels, SchedLabels, ClaimLabels,
       LinkLabels
  <2>24. SessionInv'  BY DEF Inv, SessionInv, Polled, Continues, WakeUnderway, SchedLabels
  <2>25. QED
    BY <2>9, <2>10, <2>11, <2>12, <2>13, <2>14, <2>15, <2>16, <2>17, <2>18, <2>19,
       <2>20, <2>21, <2>22, <2>23, <2>24 DEF Inv
\* resched on another CPU selects the queued task and revalidates its mask.
<1>6. CASE Dispatch(c)
  <2> USE <1>6
  <2> USE TaskWakeAssumption DEF Actors
  <2>1. /\ cpu[c].pc = "run" /\ cur # c /\ c \in ready /\ c \notin locked /\ ready = {c}
    BY SMTT(30), Z3T(30)
       DEF Dispatch, PickTask, At, Inv, LinkInv, LinkOnce, LinkTask, LinkHeld,
           LinkActor, LinkCpu
  <2>2. /\ cpu[c].pc = "run" /\ ready = {c} /\ ready' = {} /\ CpuGoto(c, "switchin")
        /\ UNCHANGED <<bw, mutation, hand, cur, locked, pc, ret, loc, events,
                       budget, fault>>
    BY <2>1 DEF Dispatch, PickTask, control, env
  <2>3. /\ cpu' \in [Cpus -> CpuRecords] /\ cpu'[c].pc = "switchin"
        /\ \A d \in Cpus \ {c} : cpu'[d] = cpu[d]
        /\ cpu'[c].helper = cpu[c].helper /\ cpu'[c].from = cpu[c].from
        /\ cpu'[c].to = cpu[c].to
    BY <2>2, CpuGoes DEF Inv, CpuLabels
  <2>4. /\ task.state = "Ready" /\ ~hand.pending /\ hand.token = 0 /\ task.cpu = c
        /\ ~cpu[c].helper
        /\ \A d \in Cpus : /\ ~CpuLinks(d) /\ cpu[d].pc \notin MoverLabels
                           /\ cpu[d].pc \notin StealLabels
        /\ \A a \in Actors : ~ActorLinks(a)
    BY <2>1, Queued, NoStealer
       DEF Inv, TokenInv, TokenTask, TokenActor, TokenCpu, PlaceInv, PlaceTask,
           PlaceActor, PlaceCpu, HelperInv, HelperCpu
  <2>5. /\ cur = NoCpu /\ pc[Task] \in {"resumed", "exited"}  BY <2>4, Parked
  <2>6. ~cpu'[c].helper  BY <2>3, <2>4
  <2>7. /\ task \in TaskWords /\ task' = [task EXCEPT !.resched = (c \notin task.mask)]
        /\ (c \notin task.mask) \in BOOLEAN
    BY DEF Inv, Typed, Dispatch, PickTask
  <2>8. /\ task'.state = task.state /\ task'.cpu = task.cpu
        /\ task'.mask = task.mask /\ task'.helper = task.helper
        /\ task'.resched = (c \notin task.mask)
        /\ task' \in TaskWords
    BY <2>7 DEF TaskWords
  <2> USE <2>2, <2>3, <2>4, <2>5, <2>6, <2>8
  <2>9. Typed'  BY DEF Inv, Typed
  <2>10. ~fault'  BY DEF Inv
  <2>11. RoleInv'
    BY DEF Inv, RoleInv, RoleTask, RoleWaker, RoleSetter, ClaimLabels, LinkLabels,
       SetterLabels, TaskLabels,
       SchedLabels, SafePoints
  <2>12. StackInv'  BY DEF Inv, StackInv, ClaimLabels, LinkLabels, RunLabels
  <2>13. TokenInv'
    <3>1. TokenTask'  BY DEF Inv, TokenInv, TokenTask
    <3>2. ASSUME NEW b \in Actors PROVE TokenActor(b)'
      BY <3>2 DEF Inv, TokenInv, TokenActor
    <3>3. ASSUME NEW x \in Cpus PROVE TokenCpu(x)'
      BY <3>3 DEF Inv, TokenInv, TokenCpu
    <3> QED  BY <3>1, <3>2, <3>3 DEF TokenInv
  <2>14. LinkInv'
    <3>1. LinkOnce'
      BY SMTT(30), Z3T(30) DEF Inv, LinkInv, LinkOnce, CpuLinks, ActorLinks, LinkLabels
    <3>2. LinkTask'  BY DEF Inv, LinkInv, LinkTask, CpuLinks, ActorLinks, LinkLabels
    <3>3. LinkHeld'  BY DEF Inv, LinkInv, LinkHeld, CpuLinks, ActorLinks, LinkLabels
    <3>4. ASSUME NEW b \in Actors PROVE LinkActor(b)'
      BY <3>4 DEF Inv, LinkInv, LinkActor, CpuLinks, ActorLinks, LinkLabels
    <3>5. ASSUME NEW x \in Cpus PROVE LinkCpu(x)'
      BY <3>5 DEF Inv, LinkInv, LinkCpu, CpuLinks, ActorLinks, LinkLabels
    <3> QED  BY <3>1, <3>2, <3>3, <3>4, <3>5 DEF LinkInv
  <2>15. HelperInv'
    <3>1. ASSUME NEW x \in Cpus PROVE HelperCpu(x)'
      BY <3>1 DEF Inv, HelperInv, HelperCpu
    <3> QED  BY <3>1 DEF HelperInv
  <2>16. SlotInv'
    <3>1. SlotTask'  BY DEF Inv, SlotInv, SlotTask
    <3>2. SlotHeld'  BY SMTT(30), Z3T(30) DEF Inv, SlotInv, SlotHeld
    <3>3. ASSUME NEW b \in Actors PROVE SlotActor(b)'
      BY <3>3 DEF Inv, SlotInv, SlotActor
    <3>4. ASSUME NEW x \in Cpus PROVE SlotCpu(x)'
      BY <3>4 DEF Inv, SlotInv, SlotCpu
    <3> QED  BY <3>1, <3>2, <3>3, <3>4 DEF SlotInv
  <2>17. MutationInv'
    <3>1. \A b \in Actors : HoldsAffinity(b)' => HoldsAffinity(b)
      BY DEF HoldsAffinity, SelfLabels, SchedLabels, SetterLabels, ClaimLabels,
         LinkLabels
    <3>2. MutationTask'
      BY <3>1 DEF Inv, MutationInv, MutationTask, ClaimLabels, LinkLabels
    <3>3. MutationOnce'
      BY <3>1 DEF Inv, MutationInv, MutationOnce, ClaimLabels, LinkLabels
    <3>4. MutationHeld'
      BY <3>1 DEF Inv, MutationInv, MutationHeld, ClaimLabels, LinkLabels
    <3>5. ASSUME NEW b \in Actors PROVE MutationActor(b)'
      <4>1. CASE b = Task
        BY <3>1, <3>5, <4>1 DEF Inv, MutationInv, MutationActor, ClaimLabels, LinkLabels
      <4>2. CASE b # Task
        BY <3>1, <3>5, <4>2 DEF Inv, MutationInv, MutationActor, ClaimLabels, LinkLabels
      <4> QED  BY <4>1, <4>2
    <3>6. ASSUME NEW x \in Cpus PROVE MutationCpu(x)'
      BY <3>1, <3>6 DEF Inv, MutationInv, MutationCpu, ClaimLabels, LinkLabels
    <3> QED  BY <3>2, <3>3, <3>4, <3>5, <3>6 DEF MutationInv
  <2>18. StealInv'
    <3>1. StealOnce'  BY DEF Inv, StealInv, StealOnce, StealLabels
    <3>2. ASSUME NEW x \in Cpus PROVE StealCpu(x)'
      BY SMTT(30), Z3T(30), <3>2 DEF Inv, StealInv, StealCpu, StealLabels
    <3> QED  BY <3>1, <3>2 DEF StealInv
  <2>19. PlaceInv'
    <3>1. PlaceTask'  BY DEF Inv, PlaceInv, PlaceTask
    <3>2. ASSUME NEW b \in Actors PROVE PlaceActor(b)'
      BY <3>2 DEF Inv, PlaceInv, PlaceActor, LinkLabels
    <3>3. ASSUME NEW x \in Cpus PROVE PlaceCpu(x)'
      <4>1. CASE x = c
        BY <3>3, <4>1 DEF Inv, PlaceInv, PlaceCpu
      <4>2. CASE x # c
        BY <3>3, <4>2 DEF Inv, PlaceInv, PlaceCpu
      <4> QED  BY <4>1, <4>2
    <3> QED  BY <3>1, <3>2, <3>3 DEF PlaceInv
  <2>20. MaskInv'
    <3>1. MaskTask'  BY DEF Inv, MaskInv, MaskTask, LinkLabels
    <3>2. ASSUME NEW z \in Setters PROVE MaskSetter(z)'
      BY <3>2 DEF Inv, MaskInv, MaskSetter, LinkLabels
    <3>3. ASSUME NEW b \in Actors PROVE MaskActor(b)'
      BY <3>3 DEF Inv, MaskInv, MaskActor, LinkLabels
    <3>4. ASSUME NEW x \in Cpus PROVE MaskCpu(x)'
      BY <3>4 DEF Inv, MaskInv, MaskCpu, LinkLabels
    <3> QED  BY <3>1, <3>2, <3>3, <3>4 DEF MaskInv
  <2>21. PreemptInv'
    BY DEF Inv, PreemptInv, Picked, MoveUnderway, MoverLabels, ActorLinks
  <2>22. SelfInv'
    <3>1. SelfTask'  BY DEF Inv, SelfInv, SelfTask, SelfMoves, Continues, SchedLabels
    <3>2. ASSUME NEW x \in Cpus PROVE SelfCpu(x)'
      <4>1. CASE x = c
        BY <3>2, <4>1
           DEF Inv, SelfInv, SelfTask, SelfCpu, SelfMoves, Continues, SchedLabels
      <4>2. CASE x # c
        BY <3>2, <4>2
           DEF Inv, SelfInv, SelfTask, SelfCpu, SelfMoves, Continues, SchedLabels
      <4> QED  BY <4>1, <4>2
    <3> QED  BY <3>1, <3>2 DEF SelfInv
  <2>23. ActiveInv'
    BY DEF Inv, ActiveInv, InSession, SessionLabels, SchedLabels, ClaimLabels,
       LinkLabels
  <2>24. SessionInv'  BY DEF Inv, SessionInv, Polled, Continues, WakeUnderway, SchedLabels
  <2>25. QED
    BY <2>9, <2>10, <2>11, <2>12, <2>13, <2>14, <2>15, <2>16, <2>17, <2>18, <2>19,
       <2>20, <2>21, <2>22, <2>23, <2>24 DEF Inv
\* mark_running_on_cpu takes a fresh owner token and the task runs here.
<1>7. CASE SwitchIn(c)
  <2> USE <1>7
  <2> USE TaskWakeAssumption DEF Actors
  <2>1. cpu[c].pc = "switchin" /\ CpuLinks(c)
    BY DEF SwitchIn, At, CpuLinks, Inv, HelperInv, HelperCpu
  <2>2. /\ task.state = "Ready" /\ ready = {} /\ ~hand.pending /\ hand.token = 0 /\ CpuLinks(c)
        /\ \A d \in Cpus \ {c} : ~CpuLinks(d) /\ cpu[d].pc \notin MoverLabels
        /\ \A d \in Cpus : cpu[d].pc \notin StealLabels
        /\ \A a \in Actors : ~ActorLinks(a)
    BY <2>1, LinkingCpu DEF Inv, TokenInv, TokenTask, TokenActor, TokenCpu
  <2>3. /\ cur = NoCpu /\ pc[Task] \in {"resumed", "exited"}  BY <2>2, Parked
  <2>4. /\ cpu[c].pc = "switchin" /\ cur' = c /\ CpuGoto(c, "run") /\ task.cpu = c /\ c # NoCpu
        /\ UNCHANGED <<bw, mutation, ready, locked, pc, ret, loc, events,
                       budget, fault>>
    BY <2>1, <2>2
       DEF SwitchIn, control, env, Inv, PlaceInv, PlaceTask, PlaceActor, PlaceCpu
  <2>5. /\ cpu' \in [Cpus -> CpuRecords] /\ cpu'[c].pc = "run"
        /\ \A d \in Cpus \ {c} : cpu'[d] = cpu[d]
        /\ cpu'[c].helper = FALSE
    BY <2>4, CpuGoes DEF Inv, CpuLabels
  <2>6. hand.gen \in Nat /\ hand.gen + 1 # 0 /\ hand.gen + 1 \in Nat
    BY SMTT(30), Z3T(30) DEF Inv, Typed, HandWords
  <2>7. /\ task \in TaskWords /\ task' = [task EXCEPT !.state = "Running"]
    BY <2>2 DEF Inv, Typed, SwitchIn
  <2>8. /\ task'.state = "Running" /\ task'.cpu = task.cpu
        /\ task'.mask = task.mask /\ task'.helper = task.helper
        /\ task'.resched = task.resched
        /\ task' \in TaskWords
    BY <2>7 DEF TaskWords
  <2>9. /\ hand \in HandWords /\ hand' = [hand EXCEPT !.token = (hand.gen + 1), !.cpu = c, !.gen = (hand.gen + 1)]
        /\ hand.gen + 1 \in Nat /\ c \in Cpus
    BY <2>2, <2>6 DEF Inv, Typed, SwitchIn
  <2>10. /\ hand'.token = (hand.gen + 1) /\ hand'.cpu = c
         /\ hand'.pending = hand.pending /\ hand'.slot = hand.slot
         /\ hand'.gen = (hand.gen + 1)
         /\ hand' \in HandWords
    BY <2>9 DEF HandWords
  <2>11. /\ hand'.token # 0 /\ pc[Task] = "resumed"
         /\ \A d \in Cpus : cpu[d].pc # "epilogue"
    BY <2>10, <2>6, <2>3, <2>2, Parked DEF Inv, StackInv
  <2> USE <2>2, <2>3, <2>4, <2>5, <2>8, <2>10, <2>11
  <2>12. Typed'  BY DEF Inv, Typed
  <2>13. ~fault'  BY DEF Inv
  <2>14. RoleInv'
    BY DEF Inv, RoleInv, RoleTask, RoleWaker, RoleSetter, ClaimLabels, LinkLabels,
       SetterLabels, TaskLabels,
       SchedLabels, SafePoints
  <2>15. StackInv'  BY DEF Inv, StackInv, ClaimLabels, LinkLabels, RunLabels
  <2>16. TokenInv'
    <3>1. TokenTask'  BY DEF Inv, TokenInv, TokenTask, MoverLabels, ActorLinks, LinkLabels
    <3>2. ASSUME NEW b \in Actors PROVE TokenActor(b)'
      BY <3>2 DEF Inv, TokenInv, TokenActor, MoverLabels, ActorLinks, LinkLabels
    <3>3. ASSUME NEW x \in Cpus PROVE TokenCpu(x)'
      <4>1. CASE x = c
        BY <3>3, <4>1 DEF Inv, TokenInv, TokenCpu, MoverLabels, ActorLinks, LinkLabels
      <4>2. CASE x # c
        BY <3>3, <4>2 DEF Inv, TokenInv, TokenCpu, MoverLabels, ActorLinks, LinkLabels
      <4> QED  BY <4>1, <4>2
    <3> QED  BY <3>1, <3>2, <3>3 DEF TokenInv
  <2>17. LinkInv'
    <3>1. LinkOnce'
      BY SMTT(30), Z3T(30) DEF Inv, LinkInv, LinkOnce, CpuLinks, ActorLinks, LinkLabels
    <3>2. LinkTask'  BY DEF Inv, LinkInv, LinkTask, CpuLinks, ActorLinks, LinkLabels
    <3>3. LinkHeld'  BY DEF Inv, LinkInv, LinkHeld, CpuLinks, ActorLinks, LinkLabels
    <3>4. ASSUME NEW b \in Actors PROVE LinkActor(b)'
      BY <3>4 DEF Inv, LinkInv, LinkActor, CpuLinks, ActorLinks, LinkLabels
    <3>5. ASSUME NEW x \in Cpus PROVE LinkCpu(x)'
      BY <3>5
         DEF Inv, LinkInv, LinkOnce, LinkTask, LinkHeld, LinkActor, LinkCpu, CpuLinks,
             ActorLinks, LinkLabels
    <3> QED  BY <3>1, <3>2, <3>3, <3>4, <3>5 DEF LinkInv
  <2>18. HelperInv'  BY DEF Inv, HelperInv, HelperCpu
  <2>19. SlotInv'
    <3>1. SlotTask'  BY DEF Inv, SlotInv, SlotTask
    <3>2. SlotHeld'  BY SMTT(30), Z3T(30) DEF Inv, SlotInv, SlotHeld
    <3>3. ASSUME NEW b \in Actors PROVE SlotActor(b)'
      BY <3>3 DEF Inv, SlotInv, SlotActor
    <3>4. ASSUME NEW x \in Cpus PROVE SlotCpu(x)'
      BY <3>4 DEF Inv, SlotInv, SlotCpu
    <3> QED  BY <3>1, <3>2, <3>3, <3>4 DEF SlotInv
  <2>20. MutationInv'
    <3>1. \A b \in Actors : HoldsAffinity(b)' => HoldsAffinity(b)
      BY DEF HoldsAffinity, SelfLabels, SchedLabels, SetterLabels, ClaimLabels,
         LinkLabels
    <3>2. MutationTask'
      BY <3>1 DEF Inv, MutationInv, MutationTask, ClaimLabels, LinkLabels
    <3>3. MutationOnce'
      BY <3>1 DEF Inv, MutationInv, MutationOnce, ClaimLabels, LinkLabels
    <3>4. MutationHeld'
      BY <3>1 DEF Inv, MutationInv, MutationHeld, ClaimLabels, LinkLabels
    <3>5. ASSUME NEW b \in Actors PROVE MutationActor(b)'
      BY <3>1, <3>5 DEF Inv, MutationInv, MutationActor, ClaimLabels, LinkLabels
    <3>6. ASSUME NEW x \in Cpus PROVE MutationCpu(x)'
      BY <3>1, <3>6 DEF Inv, MutationInv, MutationCpu, ClaimLabels, LinkLabels
    <3> QED  BY <3>2, <3>3, <3>4, <3>5, <3>6 DEF MutationInv
  <2>21. StealInv'  BY DEF Inv, StealInv, StealOnce, StealCpu, StealLabels
  <2>22. PlaceInv'
    <3>1. PlaceTask'  BY DEF Inv, PlaceInv, PlaceTask, MoverLabels, ActorLinks
    <3>2. ASSUME NEW b \in Actors PROVE PlaceActor(b)'
      BY <3>2 DEF Inv, PlaceInv, PlaceActor, LinkLabels, MoverLabels, ActorLinks
    <3>3. ASSUME NEW x \in Cpus PROVE PlaceCpu(x)'
      <4>1. CASE x = c
        BY <3>3, <4>1 DEF Inv, PlaceInv, PlaceCpu, MoverLabels, ActorLinks
      <4>2. CASE x # c
        BY <3>3, <4>2 DEF Inv, PlaceInv, PlaceCpu, MoverLabels, ActorLinks
      <4> QED  BY <4>1, <4>2
    <3> QED  BY <3>1, <3>2, <3>3 DEF PlaceInv
  <2>23. MaskInv'
    BY DEF Inv, MaskInv, MaskTask, MaskSetter, MaskActor, MaskCpu, LinkLabels, ActorLinks
  <2>24. PreemptInv'  BY DEF Inv, PreemptInv, Picked, MoveUnderway
  <2>25. SelfInv'
    <3>1. SelfTask'
      BY DEF Inv, SelfInv, SelfCpu, SelfTask, SelfMoves, Continues, SchedLabels,
             MoverLabels
    <3>2. ASSUME NEW x \in Cpus PROVE SelfCpu(x)'
      <4>1. CASE x = c
        BY <3>2, <4>1
           DEF Inv, SelfInv, SelfCpu, SelfMoves, Continues, SchedLabels, MoverLabels
      <4>2. CASE x # c
        BY <3>2, <4>2
           DEF Inv, SelfInv, SelfCpu, SelfMoves, Continues, SchedLabels, MoverLabels
      <4> QED  BY <4>1, <4>2
    <3> QED  BY <3>1, <3>2 DEF SelfInv
  <2>26. ActiveInv'
    BY DEF Inv, ActiveInv, InSession, SessionLabels, SchedLabels, ClaimLabels,
       LinkLabels
  <2>27. SessionInv'  BY DEF Inv, SessionInv, Polled, Continues, WakeUnderway, SchedLabels
  <2>28. QED
    BY <2>12, <2>13, <2>14, <2>15, <2>16, <2>17, <2>18, <2>19, <2>20, <2>21, <2>22,
       <2>23, <2>24, <2>25, <2>26, <2>27 DEF Inv
<1>8. hand.pending \in BOOLEAN  BY DEF Inv, Typed, HandWords
<1>9. QED  BY <1>1, <1>2, <1>3, <1>4, <1>5, <1>6, <1>7, <1>8

\* The steps of the migration helper keep the invariant.
LEMMA HelpKeeps ==
    ASSUME Inv, NEW c \in Cpus,
           HelperSelect(c) \/ HelperReroute(c) \/ HelperAttach(c) \/ HelperRestore(c)
    PROVE  Inv'
\* migrate_entry picks an allowed queue for a task with no owner.
<1>1. CASE HelperSelect(c)
  <2> USE <1>1
  <2> USE TaskWakeAssumption DEF Actors
  <2>1. cpu[c].pc = "helper" /\ CpuLinks(c)
    BY DEF HelperSelect, At, CpuLinks, Inv, HelperInv, HelperCpu
  <2>2. /\ task.state = "Ready" /\ ready = {} /\ ~hand.pending /\ hand.token = 0 /\ CpuLinks(c)
        /\ \A d \in Cpus \ {c} : ~CpuLinks(d) /\ cpu[d].pc \notin MoverLabels
        /\ \A d \in Cpus : cpu[d].pc \notin StealLabels
        /\ \A a \in Actors : ~ActorLinks(a)
    BY <2>1, LinkingCpu DEF Inv, TokenInv, TokenTask, TokenActor, TokenCpu
  <2>3. /\ cur = NoCpu /\ pc[Task] \in {"resumed", "exited"}  BY <2>2, Parked
  <2>4. ~hand.slot /\ ~HasOwnerOrHandoff
    BY <2>1, <2>2
       DEF Inv, SlotInv, SlotTask, SlotHeld, SlotActor, SlotCpu, ActorLinks,
           LinkLabels, MoverLabels,
       HasOwnerOrHandoff
  <2>5. PICK t \in task.mask :
           cpu' = [cpu EXCEPT ![c].pc = "reroute", ![c].to = t, ![c].from = task.cpu]
    BY <2>4 DEF HelperSelect
  <2>6. t \in Cpus /\ task.cpu \in Cpus /\ t \in task.mask
    BY <2>5 DEF Inv, Typed, TaskWords
  <2>7. /\ cpu[c].pc = "helper" /\ t \in task.mask /\ cpu[c].helper
        /\ UNCHANGED <<bw, mutation, task, hand, ready, cur, locked, pc, ret,
                       loc, events, budget, fault>>
    BY <2>1, <2>4, <2>6 DEF HelperSelect, words, control, env, Inv, HelperInv, HelperCpu
  <2>8. /\ cpu' = [cpu EXCEPT ![c].pc = "reroute", ![c].to = t, ![c].from = task.cpu]
        /\ cpu \in [Cpus -> CpuRecords] /\ "reroute" \in CpuLabels
        /\ t \in Cpus /\ task.cpu \in Cpus
    BY <2>5, <2>6 DEF Inv, Typed, CpuLabels
  <2>9. cpu' = [cpu EXCEPT ![c] = [cpu[c] EXCEPT !.pc = "reroute", !.to = t, !.from = task.cpu]]
    BY <2>8
  <2>10. cpu[c] \in CpuRecords  BY <2>8
  <2>11. [cpu[c] EXCEPT !.pc = "reroute", !.to = t, !.from = task.cpu] \in CpuRecords
    BY <2>8, <2>10 DEF CpuRecords
  <2>12. cpu' \in [Cpus -> CpuRecords]  BY SMTT(30), Z3T(30), <2>8, <2>9, <2>11
  <2>13. /\ cpu'[c].pc = "reroute" /\ cpu'[c].to = t /\ cpu'[c].from = task.cpu
         /\ cpu'[c].helper = cpu[c].helper
    BY SMTT(30), Z3T(30), <2>8 DEF CpuRecords
  <2>14. /\ cpu' \in [Cpus -> CpuRecords] /\ cpu'[c].pc = "reroute"
         /\ cpu'[c].to = t /\ cpu'[c].from = task.cpu
         /\ cpu'[c].helper = cpu[c].helper
         /\ \A d \in Cpus \ {c} : cpu'[d] = cpu[d]
    BY <2>8, <2>9, <2>12, <2>13
  <2>15. cpu'[c].helper  BY <2>14, <2>7
  <2> USE <2>2, <2>3, <2>7, <2>14, <2>15
  <2>16. Typed'  BY DEF Inv, Typed
  <2>17. ~fault'  BY DEF Inv
  <2>18. RoleInv'
    BY DEF Inv, RoleInv, RoleTask, RoleWaker, RoleSetter, ClaimLabels, LinkLabels,
       SetterLabels, TaskLabels,
       SchedLabels, SafePoints
  <2>19. StackInv'  BY DEF Inv, StackInv, ClaimLabels, LinkLabels, RunLabels
  <2>20. TokenInv'
    <3>1. TokenTask'  BY DEF Inv, TokenInv, TokenTask
    <3>2. ASSUME NEW b \in Actors PROVE TokenActor(b)'
      BY <3>2 DEF Inv, TokenInv, TokenActor
    <3>3. ASSUME NEW x \in Cpus PROVE TokenCpu(x)'
      BY <3>3 DEF Inv, TokenInv, TokenCpu
    <3> QED  BY <3>1, <3>2, <3>3 DEF TokenInv
  <2>21. LinkInv'
    <3>1. \A x \in Cpus : CpuLinks(x)' <=> CpuLinks(x)  BY DEF CpuLinks
    <3>2. \A b \in Actors : ActorLinks(b)' <=> ActorLinks(b)
      BY DEF ActorLinks, LinkLabels
    <3> QED  BY <3>1, <3>2, LinkFrame DEF Inv
  <2>22. HelperInv'
    <3>1. ASSUME NEW x \in Cpus PROVE HelperCpu(x)'
      BY <3>1 DEF Inv, HelperInv, HelperCpu
    <3> QED  BY <3>1 DEF HelperInv
  <2>23. SlotInv'
    <3>1. SlotTask'  BY DEF Inv, SlotInv, SlotTask
    <3>2. SlotHeld'  BY DEF Inv, SlotInv, SlotHeld
    <3>3. ASSUME NEW b \in Actors PROVE SlotActor(b)'
      BY <3>3 DEF Inv, SlotInv, SlotActor
    <3>4. ASSUME NEW x \in Cpus PROVE SlotCpu(x)'
      BY <3>4 DEF Inv, SlotInv, SlotCpu
    <3> QED  BY <3>1, <3>2, <3>3, <3>4 DEF SlotInv
  <2>24. MutationInv'
    <3>1. \A b \in Actors : HoldsAffinity(b)' => HoldsAffinity(b)
      BY DEF HoldsAffinity, SelfLabels, SchedLabels, SetterLabels, ClaimLabels,
         LinkLabels
    <3>2. MutationTask'
      BY <3>1 DEF Inv, MutationInv, MutationTask, ClaimLabels, LinkLabels
    <3>3. MutationOnce'
      BY <3>1 DEF Inv, MutationInv, MutationOnce, ClaimLabels, LinkLabels
    <3>4. MutationHeld'
      BY <3>1 DEF Inv, MutationInv, MutationHeld, ClaimLabels, LinkLabels
    <3>5. ASSUME NEW b \in Actors PROVE MutationActor(b)'
      BY <3>1, <3>5 DEF Inv, MutationInv, MutationActor, ClaimLabels, LinkLabels
    <3>6. ASSUME NEW x \in Cpus PROVE MutationCpu(x)'
      BY <3>1, <3>6 DEF Inv, MutationInv, MutationCpu, ClaimLabels, LinkLabels
    <3> QED  BY <3>2, <3>3, <3>4, <3>5, <3>6 DEF MutationInv
  <2>25. StealInv'  BY DEF Inv, StealInv, StealOnce, StealCpu, StealLabels
  <2>26. PlaceInv'
    <3>1. PlaceTask'  BY DEF Inv, PlaceInv, PlaceTask
    <3>2. ASSUME NEW b \in Actors PROVE PlaceActor(b)'
      BY <3>2 DEF Inv, PlaceInv, PlaceActor, LinkLabels
    <3>3. ASSUME NEW x \in Cpus PROVE PlaceCpu(x)'
      BY <3>3 DEF Inv, PlaceInv, PlaceCpu
    <3> QED  BY <3>1, <3>2, <3>3 DEF PlaceInv
  <2>27. MaskInv'
    BY DEF Inv, MaskInv, MaskTask, MaskSetter, MaskActor, MaskCpu, LinkLabels
  <2>28. PreemptInv'  BY DEF Inv, PreemptInv, Picked, MoveUnderway
  <2>29. SelfInv'
    <3>1. SelfTask'  BY DEF Inv, SelfInv, SelfTask, SelfMoves, Continues, SchedLabels
    <3>2. ASSUME NEW x \in Cpus PROVE SelfCpu(x)'
      BY <3>2 DEF Inv, SelfInv, SelfCpu, SelfMoves, Continues, SchedLabels
    <3> QED  BY <3>1, <3>2 DEF SelfInv
  <2>30. ActiveInv'
    BY DEF Inv, ActiveInv, InSession, SessionLabels, SchedLabels, ClaimLabels,
       LinkLabels
  <2>31. SessionInv'  BY DEF Inv, SessionInv, Polled, Continues, WakeUnderway, SchedLabels
  <2>32. QED
    BY <2>16, <2>17, <2>18, <2>19, <2>20, <2>21, <2>22, <2>23, <2>24, <2>25, <2>26,
       <2>27, <2>28, <2>29, <2>30, <2>31 DEF Inv
\* The target is published under the source lock.
<1>2. CASE HelperReroute(c)
  <2> USE <1>2
  <2> USE TaskWakeAssumption DEF Actors
  <2>1. cpu[c].pc = "reroute" /\ CpuLinks(c)
    BY DEF HelperReroute, At, CpuLinks, Inv, HelperInv, HelperCpu
  <2>2. /\ task.state = "Ready" /\ ready = {} /\ ~hand.pending /\ hand.token = 0 /\ CpuLinks(c)
        /\ \A d \in Cpus \ {c} : ~CpuLinks(d) /\ cpu[d].pc \notin MoverLabels
        /\ \A d \in Cpus : cpu[d].pc \notin StealLabels
        /\ \A a \in Actors : ~ActorLinks(a)
    BY <2>1, LinkingCpu DEF Inv, TokenInv, TokenTask, TokenActor, TokenCpu
  <2>3. /\ cur = NoCpu /\ pc[Task] \in {"resumed", "exited"}  BY <2>2, Parked
  <2>4. /\ cpu[c].pc = "reroute" /\ cpu[c].helper /\ CpuGoto(c, "attach")
        /\ UNCHANGED <<bw, mutation, hand, ready, cur, locked, pc, ret, loc,
                       events, budget, fault>>
    BY <2>1 DEF HelperReroute, control, env, Inv, HelperInv, HelperCpu
  <2>5. /\ cpu' \in [Cpus -> CpuRecords] /\ cpu'[c].pc = "attach"
        /\ \A d \in Cpus \ {c} : cpu'[d] = cpu[d]
        /\ cpu'[c].helper = cpu[c].helper /\ cpu'[c].from = cpu[c].from
        /\ cpu'[c].to = cpu[c].to
    BY <2>4, CpuGoes DEF Inv, CpuLabels
  <2>6. cpu[c].to \in Cpus  BY DEF Inv, Typed, CpuRecords
  <2>7. /\ task \in TaskWords /\ task' = [task EXCEPT !.cpu = cpu[c].to]
        /\ cpu[c].to \in Cpus
    BY <2>6 DEF Inv, Typed, HelperReroute
  <2>8. /\ task'.state = task.state /\ task'.cpu = cpu[c].to
        /\ task'.mask = task.mask /\ task'.helper = task.helper
        /\ task'.resched = task.resched
        /\ task' \in TaskWords
    BY <2>7 DEF TaskWords
  <2>9. cpu'[c].helper  BY <2>5, <2>4
  <2> USE <2>2, <2>3, <2>4, <2>5, <2>8, <2>9
  <2>10. Typed'  BY DEF Inv, Typed
  <2>11. ~fault'  BY DEF Inv
  <2>12. RoleInv'
    BY DEF Inv, RoleInv, RoleTask, RoleWaker, RoleSetter, ClaimLabels, LinkLabels,
       SetterLabels, TaskLabels,
       SchedLabels, SafePoints
  <2>13. StackInv'  BY DEF Inv, StackInv, ClaimLabels, LinkLabels, RunLabels
  <2>14. TokenInv'
    <3>1. TokenTask'  BY DEF Inv, TokenInv, TokenTask
    <3>2. ASSUME NEW b \in Actors PROVE TokenActor(b)'
      BY <3>2 DEF Inv, TokenInv, TokenActor
    <3>3. ASSUME NEW x \in Cpus PROVE TokenCpu(x)'
      BY <3>3 DEF Inv, TokenInv, TokenCpu
    <3> QED  BY <3>1, <3>2, <3>3 DEF TokenInv
  <2>15. LinkInv'
    <3>1. \A x \in Cpus : CpuLinks(x)' <=> CpuLinks(x)  BY DEF CpuLinks
    <3>2. \A b \in Actors : ActorLinks(b)' <=> ActorLinks(b)
      BY DEF ActorLinks, LinkLabels
    <3> QED  BY <3>1, <3>2, LinkFrame DEF Inv
  <2>16. HelperInv'  BY DEF Inv, HelperInv, HelperCpu
  <2>17. SlotInv'
    <3>1. SlotTask'  BY DEF Inv, SlotInv, SlotTask
    <3>2. SlotHeld'  BY DEF Inv, SlotInv, SlotHeld
    <3>3. ASSUME NEW b \in Actors PROVE SlotActor(b)'
      BY <3>3 DEF Inv, SlotInv, SlotActor
    <3>4. ASSUME NEW x \in Cpus PROVE SlotCpu(x)'
      BY <3>4 DEF Inv, SlotInv, SlotCpu
    <3> QED  BY <3>1, <3>2, <3>3, <3>4 DEF SlotInv
  <2>18. MutationInv'
    <3>1. \A b \in Actors : HoldsAffinity(b)' => HoldsAffinity(b)
      BY DEF HoldsAffinity, SelfLabels, SchedLabels, SetterLabels, ClaimLabels,
         LinkLabels
    <3>2. MutationTask'
      BY <3>1 DEF Inv, MutationInv, MutationTask, ClaimLabels, LinkLabels
    <3>3. MutationOnce'
      BY <3>1 DEF Inv, MutationInv, MutationOnce, ClaimLabels, LinkLabels
    <3>4. MutationHeld'
      BY <3>1 DEF Inv, MutationInv, MutationHeld, ClaimLabels, LinkLabels
    <3>5. ASSUME NEW b \in Actors PROVE MutationActor(b)'
      BY <3>1, <3>5 DEF Inv, MutationInv, MutationActor, ClaimLabels, LinkLabels
    <3>6. ASSUME NEW x \in Cpus PROVE MutationCpu(x)'
      BY <3>1, <3>6 DEF Inv, MutationInv, MutationCpu, ClaimLabels, LinkLabels
    <3> QED  BY <3>2, <3>3, <3>4, <3>5, <3>6 DEF MutationInv
  <2>19. StealInv'  BY DEF Inv, StealInv, StealOnce, StealCpu, StealLabels
  <2>20. PlaceInv'
    <3>1. PlaceTask'  BY DEF Inv, PlaceInv, PlaceTask, MoverLabels, ActorLinks
    <3>2. ASSUME NEW b \in Actors PROVE PlaceActor(b)'
      BY <3>2 DEF Inv, PlaceInv, PlaceActor, LinkLabels, MoverLabels, ActorLinks
    <3>3. ASSUME NEW x \in Cpus PROVE PlaceCpu(x)'
      BY SMTT(30), Z3T(30), <3>3 DEF Inv, PlaceInv, PlaceCpu, MoverLabels, ActorLinks
    <3> QED  BY <3>1, <3>2, <3>3 DEF PlaceInv
  <2>21. MaskInv'
    <3>1. MaskTask'  BY DEF Inv, MaskInv, MaskTask, LinkLabels, MoverLabels, ActorLinks
    <3>2. ASSUME NEW z \in Setters PROVE MaskSetter(z)'
      BY <3>2 DEF Inv, MaskInv, MaskSetter, LinkLabels, MoverLabels, ActorLinks
    <3>3. ASSUME NEW b \in Actors PROVE MaskActor(b)'
      BY <3>3 DEF Inv, MaskInv, MaskActor, LinkLabels, MoverLabels, ActorLinks
    <3>4. ASSUME NEW x \in Cpus PROVE MaskCpu(x)'
      BY SMTT(30), Z3T(30), <3>4
         DEF Inv, MaskInv, MaskCpu, LinkLabels, MoverLabels, ActorLinks
    <3> QED  BY <3>1, <3>2, <3>3, <3>4 DEF MaskInv
  <2>22. PreemptInv'
    BY SMTT(30), Z3T(30)
       DEF Inv, PreemptInv, Picked, MoveUnderway, MoverLabels, ActorLinks
  <2>23. SelfInv'
    <3>1. SelfTask'  BY DEF Inv, SelfInv, SelfTask, SelfMoves, Continues, SchedLabels
    <3>2. ASSUME NEW x \in Cpus PROVE SelfCpu(x)'
      BY <3>2 DEF Inv, SelfInv, SelfCpu, SelfMoves, Continues, SchedLabels
    <3> QED  BY <3>1, <3>2 DEF SelfInv
  <2>24. ActiveInv'
    BY DEF Inv, ActiveInv, InSession, SessionLabels, SchedLabels, ClaimLabels,
       LinkLabels
  <2>25. SessionInv'  BY DEF Inv, SessionInv, Polled, Continues, WakeUnderway, SchedLabels
  <2>26. QED
    BY <2>10, <2>11, <2>12, <2>13, <2>14, <2>15, <2>16, <2>17, <2>18, <2>19, <2>20,
       <2>21, <2>22, <2>23, <2>24, <2>25 DEF Inv
\* enqueue_task(Migrate) links the task where the helper sent it.
<1>3. ASSUME HelperAttach(c), CpuGoto(c, "run") PROVE Inv'
  <2> USE <1>3
  <2> USE TaskWakeAssumption DEF Actors
  <2>1. cpu[c].pc = "attach" /\ CpuLinks(c)
    BY DEF HelperAttach, At, CpuLinks, Inv, HelperInv, HelperCpu
  <2>2. /\ task.state = "Ready" /\ ready = {} /\ ~hand.pending /\ hand.token = 0 /\ CpuLinks(c)
        /\ \A d \in Cpus \ {c} : ~CpuLinks(d) /\ cpu[d].pc \notin MoverLabels
        /\ \A d \in Cpus : cpu[d].pc \notin StealLabels
        /\ \A a \in Actors : ~ActorLinks(a)
    BY <2>1, LinkingCpu DEF Inv, TokenInv, TokenTask, TokenActor, TokenCpu
  <2>3. /\ cur = NoCpu /\ pc[Task] \in {"resumed", "exited"}  BY <2>2, Parked
  <2>4. /\ cpu' \in [Cpus -> CpuRecords] /\ cpu'[c].pc = "run"
        /\ \A d \in Cpus \ {c} : cpu'[d] = cpu[d]
        /\ cpu'[c].helper = FALSE
    BY <2>1, CpuGoes DEF Inv, CpuLabels
  <2>5. ~CpuGoto(c, "restore")  BY <2>4, CpuGoes DEF Inv, CpuLabels
  <2>6. /\ cpu[c].to = task.cpu /\ task.cpu \in Cpus
    BY <2>1 DEF Inv, PlaceInv, PlaceTask, PlaceActor, PlaceCpu, Typed, TaskWords
  <2>7. /\ cpu[c].pc = "attach" /\ ready' = {task.cpu} /\ cpu[c].to = task.cpu /\ task.cpu \in Cpus
        /\ UNCHANGED <<bw, mutation, task, hand, cur, locked, pc, ret, loc,
                       events, budget, fault>>
    BY <2>5, <2>1, <2>6, <2>2 DEF HelperAttach, EnqueueMigrate, control, env
  <2> USE <2>2, <2>3, <2>4, <2>7
  <2>8. Typed'  BY DEF Inv, Typed
  <2>9. ~fault'  BY DEF Inv
  <2>10. RoleInv'
    BY DEF Inv, RoleInv, RoleTask, RoleWaker, RoleSetter, ClaimLabels, LinkLabels,
       SetterLabels, TaskLabels,
       SchedLabels, SafePoints
  <2>11. StackInv'  BY DEF Inv, StackInv, ClaimLabels, LinkLabels, RunLabels
  <2>12. TokenInv'
    <3>1. TokenTask'  BY DEF Inv, TokenInv, TokenTask
    <3>2. ASSUME NEW b \in Actors PROVE TokenActor(b)'
      BY <3>2 DEF Inv, TokenInv, TokenActor
    <3>3. ASSUME NEW x \in Cpus PROVE TokenCpu(x)'
      BY <3>3 DEF Inv, TokenInv, TokenCpu
    <3> QED  BY <3>1, <3>2, <3>3 DEF TokenInv
  <2>13. LinkInv'
    <3>1. LinkOnce'
      BY SMTT(30), Z3T(30) DEF Inv, LinkInv, LinkOnce, CpuLinks, ActorLinks, LinkLabels
    <3>2. LinkTask'  BY DEF Inv, LinkInv, LinkTask, CpuLinks, ActorLinks, LinkLabels
    <3>3. LinkHeld'  BY DEF Inv, LinkInv, LinkHeld, CpuLinks, ActorLinks, LinkLabels
    <3>4. ASSUME NEW b \in Actors PROVE LinkActor(b)'
      BY <3>4 DEF Inv, LinkInv, LinkActor, CpuLinks, ActorLinks, LinkLabels
    <3>5. ASSUME NEW x \in Cpus PROVE LinkCpu(x)'
      BY <3>5
         DEF Inv, LinkInv, LinkOnce, LinkTask, LinkHeld, LinkActor, LinkCpu, CpuLinks,
             ActorLinks, LinkLabels
    <3> QED  BY <3>1, <3>2, <3>3, <3>4, <3>5 DEF LinkInv
  <2>14. HelperInv'  BY DEF Inv, HelperInv, HelperCpu
  <2>15. SlotInv'
    <3>1. SlotTask'  BY DEF Inv, SlotInv, SlotTask
    <3>2. SlotHeld'  BY DEF Inv, SlotInv, SlotHeld
    <3>3. ASSUME NEW b \in Actors PROVE SlotActor(b)'
      BY <3>3 DEF Inv, SlotInv, SlotActor
    <3>4. ASSUME NEW x \in Cpus PROVE SlotCpu(x)'
      BY <3>4 DEF Inv, SlotInv, SlotCpu
    <3> QED  BY <3>1, <3>2, <3>3, <3>4 DEF SlotInv
  <2>16. MutationInv'
    <3>1. \A b \in Actors : HoldsAffinity(b)' => HoldsAffinity(b)
      BY DEF HoldsAffinity, SelfLabels, SchedLabels, SetterLabels, ClaimLabels,
         LinkLabels
    <3>2. QED  BY <3>1
                  DEF Inv, MutationInv, MutationTask, MutationOnce, MutationHeld,
                      MutationActor, MutationCpu, ClaimLabels, LinkLabels
  <2>17. StealInv'  BY DEF Inv, StealInv, StealOnce, StealCpu, StealLabels
  <2>18. PlaceInv'
    <3>1. PlaceTask'  BY DEF Inv, PlaceInv, PlaceTask, MoverLabels, ActorLinks
    <3>2. ASSUME NEW b \in Actors PROVE PlaceActor(b)'
      BY <3>2 DEF Inv, PlaceInv, PlaceActor, LinkLabels, MoverLabels, ActorLinks
    <3>3. ASSUME NEW x \in Cpus PROVE PlaceCpu(x)'
      BY <3>3 DEF Inv, PlaceInv, PlaceCpu, MoverLabels, ActorLinks
    <3> QED  BY <3>1, <3>2, <3>3 DEF PlaceInv
  <2>19. MaskInv'
    BY DEF Inv, MaskInv, MaskTask, MaskSetter, MaskActor, MaskCpu, LinkLabels
  <2>20. PreemptInv'
    BY DEF Inv, PreemptInv, Picked, MoveUnderway, MoverLabels, ActorLinks
  <2>21. SelfInv'
    <3>1. SelfTask'
      BY SMTT(30), Z3T(30)
         DEF Inv, SelfInv, SelfCpu, SelfTask, SelfMoves, Continues, SchedLabels,
             MoverLabels
    <3>2. ASSUME NEW x \in Cpus PROVE SelfCpu(x)'
      BY <3>2 DEF Inv, SelfInv, SelfCpu, SelfMoves, Continues, SchedLabels, MoverLabels
    <3> QED  BY <3>1, <3>2 DEF SelfInv
  <2>22. ActiveInv'
    BY DEF Inv, ActiveInv, InSession, SessionLabels, SchedLabels, ClaimLabels,
       LinkLabels
  <2>23. SessionInv'  BY DEF Inv, SessionInv, Polled, Continues, WakeUnderway, SchedLabels
  <2>24. QED
    BY <2>8, <2>9, <2>10, <2>11, <2>12, <2>13, <2>14, <2>15, <2>16, <2>17, <2>18,
       <2>19, <2>20, <2>21, <2>22, <2>23 DEF Inv
\* ... or publishes the source again on refusal.
<1>4. ASSUME HelperAttach(c), CpuGoto(c, "restore") PROVE Inv'
  <2> USE <1>4
  <2> USE TaskWakeAssumption DEF Actors
  <2>1. cpu[c].pc = "attach" /\ CpuLinks(c)
    BY DEF HelperAttach, At, CpuLinks, Inv, HelperInv, HelperCpu
  <2>2. /\ task.state = "Ready" /\ ready = {} /\ ~hand.pending /\ hand.token = 0 /\ CpuLinks(c)
        /\ \A d \in Cpus \ {c} : ~CpuLinks(d) /\ cpu[d].pc \notin MoverLabels
        /\ \A d \in Cpus : cpu[d].pc \notin StealLabels
        /\ \A a \in Actors : ~ActorLinks(a)
    BY <2>1, LinkingCpu DEF Inv, TokenInv, TokenTask, TokenActor, TokenCpu
  <2>3. /\ cur = NoCpu /\ pc[Task] \in {"resumed", "exited"}  BY <2>2, Parked
  <2>4. /\ cpu' \in [Cpus -> CpuRecords] /\ cpu'[c].pc = "restore"
        /\ \A d \in Cpus \ {c} : cpu'[d] = cpu[d]
        /\ cpu'[c].helper = cpu[c].helper /\ cpu'[c].from = cpu[c].from
        /\ cpu'[c].to = cpu[c].to
    BY <2>1, CpuGoes DEF Inv, CpuLabels
  <2>5. ~CpuGoto(c, "run")  BY <2>4, CpuGoes DEF Inv, CpuLabels
  <2>6. cpu[c].from \in Cpus  BY DEF Inv, Typed, CpuRecords
  <2>7. /\ cpu[c].pc = "attach" /\ cpu[c].helper
        /\ UNCHANGED <<bw, mutation, hand, ready, cur, locked, pc, ret, loc,
                       events, fault>>
    BY <2>5, <2>1, <2>6, <2>2 DEF HelperAttach, control, env, Inv, HelperInv, HelperCpu
  <2>8. /\ task \in TaskWords /\ task' = [task EXCEPT !.cpu = cpu[c].from]
        /\ cpu[c].from \in Cpus
    BY <2>5, <2>6 DEF Inv, Typed, HelperAttach
  <2>9. /\ task'.state = task.state /\ task'.cpu = cpu[c].from
        /\ task'.mask = task.mask /\ task'.helper = task.helper
        /\ task'.resched = task.resched
        /\ task' \in TaskWords
    BY <2>8 DEF TaskWords
  <2>10. /\ budget'.refused # 0
         /\ budget' \in [sessions : Nat, contention : Nat, self : Nat, refused : Nat,
                       calls : [Wakers \cup Setters -> Nat]]
    BY SMTT(30), Z3T(30), <2>5 DEF HelperAttach, Refuse, Inv, Typed
  <2>11. cpu'[c].helper  BY <2>4, <2>7
  <2>12. SelfInv'  BY <2>10 DEF SelfInv, SelfTask, SelfCpu, SelfMoves
  <2> USE <2>2, <2>3, <2>4, <2>7, <2>9, <2>10, <2>11
  <2>13. Typed'  BY DEF Inv, Typed
  <2>14. ~fault'  BY DEF Inv
  <2>15. RoleInv'
    BY DEF Inv, RoleInv, RoleTask, RoleWaker, RoleSetter, ClaimLabels, LinkLabels,
       SetterLabels, TaskLabels,
       SchedLabels, SafePoints
  <2>16. StackInv'  BY DEF Inv, StackInv, ClaimLabels, LinkLabels, RunLabels
  <2>17. TokenInv'
    <3>1. TokenTask'  BY DEF Inv, TokenInv, TokenTask
    <3>2. ASSUME NEW b \in Actors PROVE TokenActor(b)'
      BY <3>2 DEF Inv, TokenInv, TokenActor
    <3>3. ASSUME NEW x \in Cpus PROVE TokenCpu(x)'
      BY <3>3 DEF Inv, TokenInv, TokenCpu
    <3> QED  BY <3>1, <3>2, <3>3 DEF TokenInv
  <2>18. LinkInv'
    <3>1. \A x \in Cpus : CpuLinks(x)' <=> CpuLinks(x)  BY DEF CpuLinks
    <3>2. \A b \in Actors : ActorLinks(b)' <=> ActorLinks(b)
      BY DEF ActorLinks, LinkLabels
    <3> QED  BY <3>1, <3>2, LinkFrame DEF Inv
  <2>19. HelperInv'
    <3>1. ASSUME NEW x \in Cpus PROVE HelperCpu(x)'
      BY <3>1 DEF Inv, HelperInv, HelperCpu
    <3> QED  BY <3>1 DEF HelperInv
  <2>20. SlotInv'
    <3>1. SlotTask'  BY DEF Inv, SlotInv, SlotTask
    <3>2. SlotHeld'  BY SMTT(30), Z3T(30) DEF Inv, SlotInv, SlotHeld
    <3>3. ASSUME NEW b \in Actors PROVE SlotActor(b)'
      BY <3>3 DEF Inv, SlotInv, SlotActor
    <3>4. ASSUME NEW x \in Cpus PROVE SlotCpu(x)'
      BY <3>4 DEF Inv, SlotInv, SlotCpu
    <3> QED  BY <3>1, <3>2, <3>3, <3>4 DEF SlotInv
  <2>21. MutationInv'
    <3>1. \A b \in Actors : HoldsAffinity(b)' => HoldsAffinity(b)
      BY DEF HoldsAffinity, SelfLabels, SchedLabels, SetterLabels, ClaimLabels,
         LinkLabels
    <3>2. MutationTask'
      BY <3>1 DEF Inv, MutationInv, MutationTask, ClaimLabels, LinkLabels
    <3>3. MutationOnce'
      BY <3>1 DEF Inv, MutationInv, MutationOnce, ClaimLabels, LinkLabels
    <3>4. MutationHeld'
      BY <3>1 DEF Inv, MutationInv, MutationHeld, ClaimLabels, LinkLabels
    <3>5. ASSUME NEW b \in Actors PROVE MutationActor(b)'
      BY <3>1, <3>5 DEF Inv, MutationInv, MutationActor, ClaimLabels, LinkLabels
    <3>6. ASSUME NEW x \in Cpus PROVE MutationCpu(x)'
      BY <3>1, <3>6 DEF Inv, MutationInv, MutationCpu, ClaimLabels, LinkLabels
    <3> QED  BY <3>2, <3>3, <3>4, <3>5, <3>6 DEF MutationInv
  <2>22. StealInv'  BY DEF Inv, StealInv, StealOnce, StealCpu, StealLabels
  <2>23. PlaceInv'
    <3>1. PlaceTask'  BY DEF Inv, PlaceInv, PlaceTask, MoverLabels, ActorLinks
    <3>2. ASSUME NEW b \in Actors PROVE PlaceActor(b)'
      BY <3>2 DEF Inv, PlaceInv, PlaceActor, LinkLabels, MoverLabels, ActorLinks
    <3>3. ASSUME NEW x \in Cpus PROVE PlaceCpu(x)'
      BY SMTT(30), Z3T(30), <3>3 DEF Inv, PlaceInv, PlaceCpu, MoverLabels, ActorLinks
    <3> QED  BY <3>1, <3>2, <3>3 DEF PlaceInv
  <2>24. MaskInv'
    <3>1. MaskTask'  BY DEF Inv, MaskInv, MaskTask, LinkLabels, MoverLabels, ActorLinks
    <3>2. ASSUME NEW z \in Setters PROVE MaskSetter(z)'
      BY <3>2 DEF Inv, MaskInv, MaskSetter, LinkLabels, MoverLabels, ActorLinks
    <3>3. ASSUME NEW b \in Actors PROVE MaskActor(b)'
      BY <3>3 DEF Inv, MaskInv, MaskActor, LinkLabels, MoverLabels, ActorLinks
    <3>4. ASSUME NEW x \in Cpus PROVE MaskCpu(x)'
      BY SMTT(30), Z3T(30), <3>4
         DEF Inv, MaskInv, MaskCpu, LinkLabels, MoverLabels, ActorLinks
    <3> QED  BY <3>1, <3>2, <3>3, <3>4 DEF MaskInv
  <2>25. PreemptInv'
    BY SMTT(30), Z3T(30)
       DEF Inv, PreemptInv, Picked, MoveUnderway, MoverLabels, ActorLinks
  <2>26. ActiveInv'
    BY DEF Inv, ActiveInv, InSession, SessionLabels, SchedLabels, ClaimLabels,
       LinkLabels
  <2>27. SessionInv'  BY DEF Inv, SessionInv, Polled, Continues, WakeUnderway, SchedLabels
  <2>28. QED
    BY <2>12, <2>13, <2>14, <2>15, <2>16, <2>17, <2>18, <2>19, <2>20, <2>21, <2>22,
       <2>23, <2>24, <2>25, <2>26, <2>27 DEF Inv
\* ... where it is linked again.
<1>5. CASE HelperRestore(c)
  <2> USE <1>5
  <2> USE TaskWakeAssumption DEF Actors
  <2>1. cpu[c].pc = "restore" /\ CpuLinks(c)
    BY DEF HelperRestore, At, CpuLinks, Inv, HelperInv, HelperCpu
  <2>2. /\ task.state = "Ready" /\ ready = {} /\ ~hand.pending /\ hand.token = 0 /\ CpuLinks(c)
        /\ \A d \in Cpus \ {c} : ~CpuLinks(d) /\ cpu[d].pc \notin MoverLabels
        /\ \A d \in Cpus : cpu[d].pc \notin StealLabels
        /\ \A a \in Actors : ~ActorLinks(a)
    BY <2>1, LinkingCpu DEF Inv, TokenInv, TokenTask, TokenActor, TokenCpu
  <2>3. /\ cur = NoCpu /\ pc[Task] \in {"resumed", "exited"}  BY <2>2, Parked
  <2>4. /\ cpu[c].from = task.cpu /\ task.cpu \in Cpus
    BY <2>1 DEF Inv, PlaceInv, PlaceTask, PlaceActor, PlaceCpu, Typed, TaskWords
  <2>5. /\ cpu[c].pc = "restore" /\ ready' = {task.cpu} /\ CpuGoto(c, "run") /\ task.cpu \in Cpus
        /\ UNCHANGED <<bw, mutation, task, hand, cur, locked, pc, ret, loc,
                       events, budget, fault>>
    BY <2>1, <2>4, <2>2 DEF HelperRestore, EnqueueMigrate, words, control, env
  <2>6. /\ cpu' \in [Cpus -> CpuRecords] /\ cpu'[c].pc = "run"
        /\ \A d \in Cpus \ {c} : cpu'[d] = cpu[d]
        /\ cpu'[c].helper = FALSE
    BY <2>5, CpuGoes DEF Inv, CpuLabels
  <2> USE <2>2, <2>3, <2>5, <2>6
  <2>7. Typed'  BY DEF Inv, Typed
  <2>8. ~fault'  BY DEF Inv
  <2>9. RoleInv'
    BY DEF Inv, RoleInv, RoleTask, RoleWaker, RoleSetter, ClaimLabels, LinkLabels,
       SetterLabels, TaskLabels,
       SchedLabels, SafePoints
  <2>10. StackInv'  BY DEF Inv, StackInv, ClaimLabels, LinkLabels, RunLabels
  <2>11. TokenInv'
    <3>1. TokenTask'  BY DEF Inv, TokenInv, TokenTask
    <3>2. ASSUME NEW b \in Actors PROVE TokenActor(b)'
      BY <3>2 DEF Inv, TokenInv, TokenActor
    <3>3. ASSUME NEW x \in Cpus PROVE TokenCpu(x)'
      BY <3>3 DEF Inv, TokenInv, TokenCpu
    <3> QED  BY <3>1, <3>2, <3>3 DEF TokenInv
  <2>12. LinkInv'
    <3>1. LinkOnce'
      BY SMTT(30), Z3T(30) DEF Inv, LinkInv, LinkOnce, CpuLinks, ActorLinks, LinkLabels
    <3>2. LinkTask'  BY DEF Inv, LinkInv, LinkTask, CpuLinks, ActorLinks, LinkLabels
    <3>3. LinkHeld'  BY DEF Inv, LinkInv, LinkHeld, CpuLinks, ActorLinks, LinkLabels
    <3>4. ASSUME NEW b \in Actors PROVE LinkActor(b)'
      BY <3>4 DEF Inv, LinkInv, LinkActor, CpuLinks, ActorLinks, LinkLabels
    <3>5. ASSUME NEW x \in Cpus PROVE LinkCpu(x)'
      BY <3>5
         DEF Inv, LinkInv, LinkOnce, LinkTask, LinkHeld, LinkActor, LinkCpu, CpuLinks,
             ActorLinks, LinkLabels
    <3> QED  BY <3>1, <3>2, <3>3, <3>4, <3>5 DEF LinkInv
  <2>13. HelperInv'  BY DEF Inv, HelperInv, HelperCpu
  <2>14. SlotInv'  BY DEF Inv, SlotInv, SlotTask, SlotHeld, SlotActor, SlotCpu
  <2>15. MutationInv'
    <3>1. \A b \in Actors : HoldsAffinity(b)' => HoldsAffinity(b)
      BY DEF HoldsAffinity, SelfLabels, SchedLabels, SetterLabels, ClaimLabels,
         LinkLabels
    <3>2. QED  BY <3>1
                  DEF Inv, MutationInv, MutationTask, MutationOnce, MutationHeld,
                      MutationActor, MutationCpu, ClaimLabels, LinkLabels
  <2>16. StealInv'  BY DEF Inv, StealInv, StealOnce, StealCpu, StealLabels
  <2>17. PlaceInv'
    <3>1. PlaceTask'  BY DEF Inv, PlaceInv, PlaceTask, MoverLabels, ActorLinks
    <3>2. ASSUME NEW b \in Actors PROVE PlaceActor(b)'
      BY <3>2 DEF Inv, PlaceInv, PlaceActor, LinkLabels, MoverLabels, ActorLinks
    <3>3. ASSUME NEW x \in Cpus PROVE PlaceCpu(x)'
      BY <3>3 DEF Inv, PlaceInv, PlaceCpu, MoverLabels, ActorLinks
    <3> QED  BY <3>1, <3>2, <3>3 DEF PlaceInv
  <2>18. MaskInv'
    BY DEF Inv, MaskInv, MaskTask, MaskSetter, MaskActor, MaskCpu, LinkLabels
  <2>19. PreemptInv'
    BY DEF Inv, PreemptInv, Picked, MoveUnderway, MoverLabels, ActorLinks
  <2>20. SelfInv'
    BY DEF Inv, SelfInv, SelfTask, SelfCpu, SelfMoves, Continues, SchedLabels
  <2>21. ActiveInv'
    BY DEF Inv, ActiveInv, InSession, SessionLabels, SchedLabels, ClaimLabels,
       LinkLabels
  <2>22. SessionInv'  BY DEF Inv, SessionInv, Polled, Continues, WakeUnderway, SchedLabels
  <2>23. QED
    BY <2>7, <2>8, <2>9, <2>10, <2>11, <2>12, <2>13, <2>14, <2>15, <2>16, <2>17, <2>18,
       <2>19, <2>20, <2>21, <2>22 DEF Inv
<1>6. HelperAttach(c) => CpuGoto(c, "run") \/ CpuGoto(c, "restore")  BY DEF HelperAttach
<1>7. QED  BY <1>1, <1>2, <1>3, <1>4, <1>5, <1>6

\* The steps of an idle CPU that steals the task keep the invariant.
LEMMA StealKeeps ==
    ASSUME Inv, NEW d \in Cpus,
           StealScan(d) \/ StealClaim(d) \/ StealMove(d) \/ StealFinish(d)
    PROVE  Inv'
\* idle_steal_once takes both queue locks over an acceptable candidate.
<1>1. CASE StealScan(d)
  <2> USE <1>1
  <2> USE TaskWakeAssumption DEF Actors
  <2>1. PICK v \in ready \ locked :
           /\ ~HasOwnerOrHandoff /\ task.cpu = v /\ d \in task.mask
           /\ locked' = locked \cup {d, v}
           /\ cpu' = [cpu EXCEPT ![d].pc = "stealclaim", ![d].from = v]
    BY DEF StealScan
  <2>2. /\ v \in Cpus /\ ready = {v} /\ cpu[d].pc = "run" /\ d # v
    <3>1. v \in Cpus /\ v \in ready /\ d \notin ready /\ cpu[d].pc = "run"
      BY <2>1 DEF StealScan, At, Inv, Typed
    <3>2. \A q \in ready : q = v
      BY <3>1 DEF Inv, LinkInv, LinkOnce
    <3>3. ready = {v}  BY SMTT(30), Z3T(30), <3>1, <3>2
    <3>4. d # v  BY <3>1
    <3> QED  BY <3>1, <3>3, <3>4
  <2>3. /\ cpu[d].pc = "run" /\ ready = {v} /\ locked' = locked \cup {d, v} /\ d # v /\ v \in Cpus
        /\ hand.token = 0 /\ ~hand.slot
        /\ UNCHANGED <<bw, mutation, task, hand, ready, cur, pc, ret, loc,
                       events, budget, fault>>
    BY <2>1, <2>2 DEF StealScan, words, control, env, HasOwnerOrHandoff
  <2>4. /\ cpu' = [cpu EXCEPT ![d].pc = "stealclaim", ![d].from = v]
        /\ cpu \in [Cpus -> CpuRecords] /\ "stealclaim" \in CpuLabels
        /\ v \in Cpus
    BY <2>1, <2>2 DEF Inv, Typed, CpuLabels
  <2>5. cpu' = [cpu EXCEPT ![d] = [cpu[d] EXCEPT !.pc = "stealclaim", !.from = v]]
    BY <2>4
  <2>6. cpu[d] \in CpuRecords  BY <2>4
  <2>7. [cpu[d] EXCEPT !.pc = "stealclaim", !.from = v] \in CpuRecords
    BY <2>4, <2>6 DEF CpuRecords
  <2>8. cpu' \in [Cpus -> CpuRecords]  BY SMTT(30), Z3T(30), <2>4, <2>5, <2>7
  <2>9. /\ cpu'[d].pc = "stealclaim" /\ cpu'[d].from = v
        /\ cpu'[d].helper = cpu[d].helper /\ cpu'[d].to = cpu[d].to
    BY SMTT(30), Z3T(30), <2>4 DEF CpuRecords
  <2>10. /\ cpu' \in [Cpus -> CpuRecords] /\ cpu'[d].pc = "stealclaim"
         /\ cpu'[d].from = v
         /\ cpu'[d].helper = cpu[d].helper /\ cpu'[d].to = cpu[d].to
         /\ \A e \in Cpus \ {d} : cpu'[e] = cpu[e]
    BY <2>4, <2>5, <2>8, <2>9
  <2>11. /\ task.state = "Ready" /\ ~hand.pending /\ ~cpu[d].helper
         /\ \A e \in Cpus : cpu[e].pc \notin StealLabels
         /\ \A e \in Cpus : ~CpuLinks(e) /\ cpu[e].pc \notin MoverLabels
         /\ \A a \in Actors : ~ActorLinks(a)
    BY <2>1, <2>2, Queued, NoStealer DEF Inv, HelperInv, HelperCpu
  <2>12. /\ cur = NoCpu /\ pc[Task] \in {"resumed", "exited"}  BY <2>3, Parked
  <2>13. ~cpu'[d].helper  BY <2>10, <2>11
  <2> USE <2>3, <2>10, <2>11, <2>12, <2>13
  <2>14. Typed'  BY DEF Inv, Typed
  <2>15. ~fault'  BY DEF Inv
  <2>16. RoleInv'
    BY DEF Inv, RoleInv, RoleTask, RoleWaker, RoleSetter, ClaimLabels, LinkLabels,
       SetterLabels, TaskLabels,
       SchedLabels, SafePoints
  <2>17. StackInv'  BY DEF Inv, StackInv, ClaimLabels, LinkLabels, RunLabels
  <2>18. TokenInv'
    <3>1. TokenTask'  BY DEF Inv, TokenInv, TokenTask
    <3>2. ASSUME NEW b \in Actors PROVE TokenActor(b)'
      BY <3>2 DEF Inv, TokenInv, TokenActor
    <3>3. ASSUME NEW x \in Cpus PROVE TokenCpu(x)'
      BY <3>3 DEF Inv, TokenInv, TokenCpu
    <3> QED  BY <3>1, <3>2, <3>3 DEF TokenInv
  <2>19. LinkInv'
    <3>1. \A x \in Cpus : CpuLinks(x)' <=> CpuLinks(x)  BY DEF CpuLinks
    <3>2. \A b \in Actors : ActorLinks(b)' <=> ActorLinks(b)
      BY DEF ActorLinks, LinkLabels
    <3> QED  BY <3>1, <3>2, LinkFrame DEF Inv
  <2>20. HelperInv'  BY DEF Inv, HelperInv, HelperCpu
  <2>21. SlotInv'
    <3>1. SlotTask'  BY DEF Inv, SlotInv, SlotTask
    <3>2. SlotHeld'  BY DEF Inv, SlotInv, SlotHeld
    <3>3. ASSUME NEW b \in Actors PROVE SlotActor(b)'
      BY <3>3 DEF Inv, SlotInv, SlotActor
    <3>4. ASSUME NEW x \in Cpus PROVE SlotCpu(x)'
      BY <3>4 DEF Inv, SlotInv, SlotCpu
    <3> QED  BY <3>1, <3>2, <3>3, <3>4 DEF SlotInv
  <2>22. MutationInv'
    <3>1. \A b \in Actors : HoldsAffinity(b)' => HoldsAffinity(b)
      BY DEF HoldsAffinity, SelfLabels, SchedLabels, SetterLabels, ClaimLabels,
         LinkLabels
    <3>2. MutationTask'
      BY <3>1 DEF Inv, MutationInv, MutationTask, ClaimLabels, LinkLabels
    <3>3. MutationOnce'
      BY <3>1 DEF Inv, MutationInv, MutationOnce, ClaimLabels, LinkLabels
    <3>4. MutationHeld'
      BY <3>1 DEF Inv, MutationInv, MutationHeld, ClaimLabels, LinkLabels
    <3>5. ASSUME NEW b \in Actors PROVE MutationActor(b)'
      BY <3>1, <3>5 DEF Inv, MutationInv, MutationActor, ClaimLabels, LinkLabels
    <3>6. ASSUME NEW x \in Cpus PROVE MutationCpu(x)'
      BY <3>1, <3>6 DEF Inv, MutationInv, MutationCpu, ClaimLabels, LinkLabels
    <3> QED  BY <3>2, <3>3, <3>4, <3>5, <3>6 DEF MutationInv
  <2>23. StealInv'
    <3>1. StealOnce'  BY DEF Inv, StealInv, StealOnce, StealLabels
    <3>2. ASSUME NEW x \in Cpus PROVE StealCpu(x)'
      BY <3>2 DEF Inv, StealInv, StealCpu, StealLabels
    <3> QED  BY <3>1, <3>2 DEF StealInv
  <2>24. PlaceInv'
    <3>1. PlaceTask'  BY DEF Inv, PlaceInv, PlaceTask
    <3>2. ASSUME NEW b \in Actors PROVE PlaceActor(b)'
      BY <3>2 DEF Inv, PlaceInv, PlaceActor, LinkLabels
    <3>3. ASSUME NEW x \in Cpus PROVE PlaceCpu(x)'
      BY <3>3 DEF Inv, PlaceInv, PlaceCpu
    <3> QED  BY <3>1, <3>2, <3>3 DEF PlaceInv
  <2>25. MaskInv'
    BY DEF Inv, MaskInv, MaskTask, MaskSetter, MaskActor, MaskCpu, LinkLabels
  <2>26. PreemptInv'  BY DEF Inv, PreemptInv, Picked, MoveUnderway
  <2>27. SelfInv'
    <3>1. SelfTask'  BY DEF Inv, SelfInv, SelfTask, SelfMoves, Continues, SchedLabels
    <3>2. ASSUME NEW x \in Cpus PROVE SelfCpu(x)'
      BY <3>2 DEF Inv, SelfInv, SelfCpu, SelfMoves, Continues, SchedLabels
    <3> QED  BY <3>1, <3>2 DEF SelfInv
  <2>28. ActiveInv'
    BY DEF Inv, ActiveInv, InSession, SessionLabels, SchedLabels, ClaimLabels,
       LinkLabels
  <2>29. SessionInv'  BY DEF Inv, SessionInv, Polled, Continues, WakeUnderway, SchedLabels
  <2>30. QED
    BY <2>14, <2>15, <2>16, <2>17, <2>18, <2>19, <2>20, <2>21, <2>22, <2>23, <2>24,
       <2>25, <2>26, <2>27, <2>28, <2>29 DEF Inv
\* try_begin_idle_steal_mutation claims an idle word.
<1>2. ASSUME StealClaim(d), mutation = Idle PROVE Inv'
  <2> USE <1>2
  <2> USE TaskWakeAssumption DEF Actors
  <2>1. /\ cpu[d].pc = "stealclaim" /\ cpu[d].pc \in StealLabels
    BY DEF StealClaim, At, StealLabels
  <2>2. /\ {d, cpu[d].from} \subseteq locked /\ ready # {} /\ ready \subseteq {d, cpu[d].from}
        /\ hand.token = 0 /\ ~hand.slot /\ ~cpu[d].helper /\ cpu[d].from \in Cpus
        /\ \A e \in Cpus \ {d} : cpu[e].pc \notin StealLabels
    BY <2>1
       DEF Inv, StealInv, StealOnce, StealCpu, HelperInv, HelperCpu, Typed, CpuRecords,
           StealLabels
  <2>3. /\ task.state = "Ready" /\ ~hand.pending
        /\ \A e \in Cpus : ~CpuLinks(e) /\ cpu[e].pc \notin MoverLabels
        /\ \A a \in Actors : ~ActorLinks(a)
    BY <2>2, Queued
  <2>4. /\ cur = NoCpu /\ pc[Task] \in {"resumed", "exited"}  BY <2>2, Parked
  <2>5. /\ cpu[d].pc = "stealclaim" /\ CpuGoto(d, "stealmove")
        /\ mutation' = Mut("steal", FALSE) /\ mutation = Idle
        /\ UNCHANGED <<bw, task, hand, ready, cur, locked, pc, ret, loc, events,
                       budget, fault>>
    BY <2>1 DEF StealClaim, control, env
  <2>6. /\ cpu' \in [Cpus -> CpuRecords] /\ cpu'[d].pc = "stealmove"
        /\ \A e \in Cpus \ {d} : cpu'[e] = cpu[e]
        /\ cpu'[d].helper = cpu[d].helper /\ cpu'[d].from = cpu[d].from
        /\ cpu'[d].to = cpu[d].to
    BY <2>5, CpuGoes DEF Inv, CpuLabels
  <2>7. ~cpu'[d].helper  BY <2>6, <2>2
  <2>8. /\ mutation'.owner = "steal" /\ mutation' # WakeOwned
        /\ mutation' \in MutationWords /\ mutation.owner = "none" /\ mutation # WakeOwned
    BY <2>5, MutIs
  <2>9. /\ \A a \in Actors : pc[a] \notin ClaimLabels /\ ~HoldsAffinity(a)
    BY <2>5, NoClaims
  <2> USE <2>2, <2>3, <2>4, <2>5, <2>6, <2>7, <2>8, <2>9
  <2>10. Typed'  BY DEF Inv, Typed
  <2>11. ~fault'  BY DEF Inv
  <2>12. RoleInv'
    BY DEF Inv, RoleInv, RoleTask, RoleWaker, RoleSetter, ClaimLabels, LinkLabels,
       SetterLabels, TaskLabels,
       SchedLabels, SafePoints
  <2>13. StackInv'  BY DEF Inv, StackInv, ClaimLabels, LinkLabels, RunLabels
  <2>14. TokenInv'
    <3>1. TokenTask'  BY DEF Inv, TokenInv, TokenTask
    <3>2. ASSUME NEW b \in Actors PROVE TokenActor(b)'
      BY <3>2 DEF Inv, TokenInv, TokenActor
    <3>3. ASSUME NEW x \in Cpus PROVE TokenCpu(x)'
      BY <3>3 DEF Inv, TokenInv, TokenCpu
    <3> QED  BY <3>1, <3>2, <3>3 DEF TokenInv
  <2>15. LinkInv'
    <3>1. \A x \in Cpus : CpuLinks(x)' <=> CpuLinks(x)  BY DEF CpuLinks
    <3>2. \A b \in Actors : ActorLinks(b)' <=> ActorLinks(b)
      BY DEF ActorLinks, LinkLabels
    <3> QED  BY <3>1, <3>2, LinkFrame DEF Inv
  <2>16. HelperInv'  BY DEF Inv, HelperInv, HelperCpu
  <2>17. SlotInv'
    <3>1. SlotTask'  BY DEF Inv, SlotInv, SlotTask
    <3>2. SlotHeld'  BY DEF Inv, SlotInv, SlotHeld
    <3>3. ASSUME NEW b \in Actors PROVE SlotActor(b)'
      BY <3>3 DEF Inv, SlotInv, SlotActor
    <3>4. ASSUME NEW x \in Cpus PROVE SlotCpu(x)'
      BY <3>4 DEF Inv, SlotInv, SlotCpu
    <3> QED  BY <3>1, <3>2, <3>3, <3>4 DEF SlotInv
  <2>18. MutationInv'
    <3>1. \A b \in Actors : HoldsAffinity(b)' => HoldsAffinity(b)
      BY DEF HoldsAffinity, SelfLabels, SchedLabels, SetterLabels, ClaimLabels,
         LinkLabels
    <3>2. QED  BY <3>1
                  DEF Inv, MutationInv, MutationTask, MutationOnce, MutationHeld,
                      MutationActor, MutationCpu, ClaimLabels, LinkLabels
  <2>19. StealInv'
    <3>1. StealOnce'  BY DEF Inv, StealInv, StealOnce, StealLabels
    <3>2. ASSUME NEW x \in Cpus PROVE StealCpu(x)'
      BY SMTT(30), Z3T(30), <3>2 DEF Inv, StealInv, StealCpu, StealLabels
    <3> QED  BY <3>1, <3>2 DEF StealInv
  <2>20. PlaceInv'
    <3>1. PlaceTask'  BY DEF Inv, PlaceInv, PlaceTask
    <3>2. ASSUME NEW b \in Actors PROVE PlaceActor(b)'
      BY <3>2 DEF Inv, PlaceInv, PlaceActor, LinkLabels
    <3>3. ASSUME NEW x \in Cpus PROVE PlaceCpu(x)'
      BY <3>3 DEF Inv, PlaceInv, PlaceCpu
    <3> QED  BY <3>1, <3>2, <3>3 DEF PlaceInv
  <2>21. MaskInv'
    BY DEF Inv, MaskInv, MaskTask, MaskSetter, MaskActor, MaskCpu, LinkLabels
  <2>22. PreemptInv'  BY DEF Inv, PreemptInv, Picked, MoveUnderway
  <2>23. SelfInv'
    <3>1. SelfTask'  BY DEF Inv, SelfInv, SelfTask, SelfMoves, Continues, SchedLabels
    <3>2. ASSUME NEW x \in Cpus PROVE SelfCpu(x)'
      BY <3>2 DEF Inv, SelfInv, SelfCpu, SelfMoves, Continues, SchedLabels
    <3> QED  BY <3>1, <3>2 DEF SelfInv
  <2>24. ActiveInv'
    BY DEF Inv, ActiveInv, InSession, SessionLabels, SchedLabels, ClaimLabels,
       LinkLabels
  <2>25. SessionInv'  BY DEF Inv, SessionInv, Polled, Continues, WakeUnderway, SchedLabels
  <2>26. QED
    BY <2>10, <2>11, <2>12, <2>13, <2>14, <2>15, <2>16, <2>17, <2>18, <2>19, <2>20,
       <2>21, <2>22, <2>23, <2>24, <2>25 DEF Inv
\* ... and gives both locks back on a busy one.
<1>3. ASSUME StealClaim(d), mutation # Idle PROVE Inv'
  <2> USE <1>3
  <2> USE TaskWakeAssumption DEF Actors
  <2>1. /\ cpu[d].pc = "stealclaim" /\ cpu[d].pc \in StealLabels
    BY DEF StealClaim, At, StealLabels
  <2>2. /\ {d, cpu[d].from} \subseteq locked /\ ready # {} /\ ready \subseteq {d, cpu[d].from}
        /\ hand.token = 0 /\ ~hand.slot /\ ~cpu[d].helper /\ cpu[d].from \in Cpus
        /\ \A e \in Cpus \ {d} : cpu[e].pc \notin StealLabels
    BY <2>1
       DEF Inv, StealInv, StealOnce, StealCpu, HelperInv, HelperCpu, Typed, CpuRecords,
           StealLabels
  <2>3. /\ task.state = "Ready" /\ ~hand.pending
        /\ \A e \in Cpus : ~CpuLinks(e) /\ cpu[e].pc \notin MoverLabels
        /\ \A a \in Actors : ~ActorLinks(a)
    BY <2>2, Queued
  <2>4. /\ cur = NoCpu /\ pc[Task] \in {"resumed", "exited"}  BY <2>2, Parked
  <2>5. /\ cpu[d].pc = "stealclaim" /\ CpuGoto(d, "run")
        /\ locked' = locked \ {d, cpu[d].from}
        /\ UNCHANGED <<bw, mutation, task, hand, ready, cur, pc, ret, loc,
                       events, budget, fault>>
    BY <2>1 DEF StealClaim, control, env
  <2>6. /\ cpu' \in [Cpus -> CpuRecords] /\ cpu'[d].pc = "run"
        /\ \A e \in Cpus \ {d} : cpu'[e] = cpu[e]
        /\ cpu'[d].helper = FALSE
    BY <2>5, CpuGoes DEF Inv, CpuLabels
  <2> USE <2>2, <2>3, <2>4, <2>5, <2>6
  <2>7. Typed'  BY DEF Inv, Typed
  <2>8. ~fault'  BY DEF Inv
  <2>9. RoleInv'
    BY DEF Inv, RoleInv, RoleTask, RoleWaker, RoleSetter, ClaimLabels, LinkLabels,
       SetterLabels, TaskLabels,
       SchedLabels, SafePoints
  <2>10. StackInv'  BY DEF Inv, StackInv, ClaimLabels, LinkLabels, RunLabels
  <2>11. TokenInv'
    <3>1. TokenTask'  BY DEF Inv, TokenInv, TokenTask
    <3>2. ASSUME NEW b \in Actors PROVE TokenActor(b)'
      BY <3>2 DEF Inv, TokenInv, TokenActor
    <3>3. ASSUME NEW x \in Cpus PROVE TokenCpu(x)'
      BY <3>3 DEF Inv, TokenInv, TokenCpu
    <3> QED  BY <3>1, <3>2, <3>3 DEF TokenInv
  <2>12. LinkInv'
    <3>1. \A x \in Cpus : CpuLinks(x)' <=> CpuLinks(x)  BY DEF CpuLinks
    <3>2. \A b \in Actors : ActorLinks(b)' <=> ActorLinks(b)
      BY DEF ActorLinks, LinkLabels
    <3> QED  BY <3>1, <3>2, LinkFrame DEF Inv
  <2>13. HelperInv'  BY DEF Inv, HelperInv, HelperCpu
  <2>14. SlotInv'  BY DEF Inv, SlotInv, SlotTask, SlotHeld, SlotActor, SlotCpu
  <2>15. MutationInv'
    <3>1. \A b \in Actors : HoldsAffinity(b)' => HoldsAffinity(b)
      BY DEF HoldsAffinity, SelfLabels, SchedLabels, SetterLabels, ClaimLabels,
         LinkLabels
    <3>2. QED  BY <3>1
                  DEF Inv, MutationInv, MutationTask, MutationOnce, MutationHeld,
                      MutationActor, MutationCpu, ClaimLabels, LinkLabels
  <2>16. StealInv'  BY DEF Inv, StealInv, StealOnce, StealCpu, StealLabels
  <2>17. PlaceInv'
    <3>1. PlaceTask'  BY DEF Inv, PlaceInv, PlaceTask
    <3>2. ASSUME NEW b \in Actors PROVE PlaceActor(b)'
      BY <3>2 DEF Inv, PlaceInv, PlaceActor, LinkLabels
    <3>3. ASSUME NEW x \in Cpus PROVE PlaceCpu(x)'
      BY <3>3 DEF Inv, PlaceInv, PlaceCpu
    <3> QED  BY <3>1, <3>2, <3>3 DEF PlaceInv
  <2>18. MaskInv'
    BY DEF Inv, MaskInv, MaskTask, MaskSetter, MaskActor, MaskCpu, LinkLabels
  <2>19. PreemptInv'  BY SMTT(30), Z3T(30) DEF Inv, PreemptInv, Picked, MoveUnderway
  <2>20. SelfInv'
    <3>1. SelfTask'  BY DEF Inv, SelfInv, SelfTask, SelfMoves, Continues, SchedLabels
    <3>2. ASSUME NEW x \in Cpus PROVE SelfCpu(x)'
      BY <3>2 DEF Inv, SelfInv, SelfCpu, SelfMoves, Continues, SchedLabels
    <3> QED  BY <3>1, <3>2 DEF SelfInv
  <2>21. ActiveInv'
    BY DEF Inv, ActiveInv, InSession, SessionLabels, SchedLabels, ClaimLabels,
       LinkLabels
  <2>22. SessionInv'  BY DEF Inv, SessionInv, Polled, Continues, WakeUnderway, SchedLabels
  <2>23. QED
    BY <2>7, <2>8, <2>9, <2>10, <2>11, <2>12, <2>13, <2>14, <2>15, <2>16, <2>17, <2>18,
       <2>19, <2>20, <2>21, <2>22 DEF Inv
\* The claimed candidate is moved to the idle CPU's queue.
<1>4. ASSUME StealMove(d), d \in task.mask,
             ready' = (ready \ {cpu[d].from}) \cup {d},
             task' = [task EXCEPT !.cpu = d], budget' = budget PROVE Inv'
  <2> USE <1>4
  <2> USE TaskWakeAssumption DEF Actors
  <2>1. /\ cpu[d].pc = "stealmove" /\ cpu[d].pc \in StealLabels
    BY DEF StealMove, At, StealLabels
  <2>2. /\ {d, cpu[d].from} \subseteq locked /\ ready # {} /\ ready \subseteq {d, cpu[d].from}
        /\ hand.token = 0 /\ ~hand.slot /\ ~cpu[d].helper /\ cpu[d].from \in Cpus
        /\ \A e \in Cpus \ {d} : cpu[e].pc \notin StealLabels
    BY <2>1
       DEF Inv, StealInv, StealOnce, StealCpu, HelperInv, HelperCpu, Typed, CpuRecords,
           StealLabels
  <2>3. /\ task.state = "Ready" /\ ~hand.pending
        /\ \A e \in Cpus : ~CpuLinks(e) /\ cpu[e].pc \notin MoverLabels
        /\ \A a \in Actors : ~ActorLinks(a)
    BY <2>2, Queued
  <2>4. /\ cur = NoCpu /\ pc[Task] \in {"resumed", "exited"}  BY <2>2, Parked
  <2>5. ready' = {d}  BY <2>2
  <2>6. /\ cpu[d].pc = "stealmove" /\ CpuGoto(d, "stealdone") /\ ready' = {d} /\ d \in task.mask
        /\ UNCHANGED <<bw, mutation, hand, cur, locked, pc, ret, loc, events,
                       budget, fault>>
    BY <2>1, <2>5 DEF StealMove, control, env
  <2>7. /\ cpu' \in [Cpus -> CpuRecords] /\ cpu'[d].pc = "stealdone"
        /\ \A e \in Cpus \ {d} : cpu'[e] = cpu[e]
        /\ cpu'[d].helper = cpu[d].helper /\ cpu'[d].from = cpu[d].from
        /\ cpu'[d].to = cpu[d].to
    BY <2>6, CpuGoes DEF Inv, CpuLabels
  <2>8. ~cpu'[d].helper  BY <2>7, <2>2
  <2>9. /\ task \in TaskWords /\ task' = [task EXCEPT !.cpu = d]
        /\ d \in Cpus
    BY DEF Inv, Typed
  <2>10. /\ task'.state = task.state /\ task'.cpu = d /\ task'.mask = task.mask
         /\ task'.helper = task.helper /\ task'.resched = task.resched
         /\ task' \in TaskWords
    BY <2>9 DEF TaskWords
  <2> USE <2>2, <2>3, <2>4, <2>6, <2>7, <2>8, <2>10
  <2>11. Typed'  BY DEF Inv, Typed
  <2>12. ~fault'  BY DEF Inv
  <2>13. RoleInv'
    BY DEF Inv, RoleInv, RoleTask, RoleWaker, RoleSetter, ClaimLabels, LinkLabels,
       SetterLabels, TaskLabels,
       SchedLabels, SafePoints
  <2>14. StackInv'  BY DEF Inv, StackInv, ClaimLabels, LinkLabels, RunLabels
  <2>15. TokenInv'
    <3>1. TokenTask'  BY DEF Inv, TokenInv, TokenTask
    <3>2. ASSUME NEW b \in Actors PROVE TokenActor(b)'
      BY <3>2 DEF Inv, TokenInv, TokenActor
    <3>3. ASSUME NEW x \in Cpus PROVE TokenCpu(x)'
      BY <3>3 DEF Inv, TokenInv, TokenCpu
    <3> QED  BY <3>1, <3>2, <3>3 DEF TokenInv
  <2>16. LinkInv'
    <3>1. LinkOnce'
      BY SMTT(30), Z3T(30) DEF Inv, LinkInv, LinkOnce, CpuLinks, ActorLinks, LinkLabels
    <3>2. LinkTask'  BY DEF Inv, LinkInv, LinkTask, CpuLinks, ActorLinks, LinkLabels
    <3>3. LinkHeld'  BY DEF Inv, LinkInv, LinkHeld, CpuLinks, ActorLinks, LinkLabels
    <3>4. ASSUME NEW b \in Actors PROVE LinkActor(b)'
      BY <3>4 DEF Inv, LinkInv, LinkActor, CpuLinks, ActorLinks, LinkLabels
    <3>5. ASSUME NEW x \in Cpus PROVE LinkCpu(x)'
      BY <3>5 DEF Inv, LinkInv, LinkCpu, CpuLinks, ActorLinks, LinkLabels
    <3> QED  BY <3>1, <3>2, <3>3, <3>4, <3>5 DEF LinkInv
  <2>17. HelperInv'  BY DEF Inv, HelperInv, HelperCpu
  <2>18. SlotInv'
    <3>1. SlotTask'  BY DEF Inv, SlotInv, SlotTask
    <3>2. SlotHeld'  BY DEF Inv, SlotInv, SlotHeld
    <3>3. ASSUME NEW b \in Actors PROVE SlotActor(b)'
      BY <3>3 DEF Inv, SlotInv, SlotActor
    <3>4. ASSUME NEW x \in Cpus PROVE SlotCpu(x)'
      BY <3>4 DEF Inv, SlotInv, SlotCpu
    <3> QED  BY <3>1, <3>2, <3>3, <3>4 DEF SlotInv
  <2>19. MutationInv'
    <3>1. \A b \in Actors : HoldsAffinity(b)' => HoldsAffinity(b)
      BY DEF HoldsAffinity, SelfLabels, SchedLabels, SetterLabels, ClaimLabels,
         LinkLabels
    <3>2. MutationTask'
      BY <3>1 DEF Inv, MutationInv, MutationTask, ClaimLabels, LinkLabels
    <3>3. MutationOnce'
      BY <3>1 DEF Inv, MutationInv, MutationOnce, ClaimLabels, LinkLabels
    <3>4. MutationHeld'
      BY <3>1 DEF Inv, MutationInv, MutationHeld, ClaimLabels, LinkLabels
    <3>5. ASSUME NEW b \in Actors PROVE MutationActor(b)'
      BY <3>1, <3>5 DEF Inv, MutationInv, MutationActor, ClaimLabels, LinkLabels
    <3>6. ASSUME NEW x \in Cpus PROVE MutationCpu(x)'
      BY <3>1, <3>6 DEF Inv, MutationInv, MutationCpu, ClaimLabels, LinkLabels
    <3> QED  BY <3>2, <3>3, <3>4, <3>5, <3>6 DEF MutationInv
  <2>20. StealInv'
    <3>1. StealOnce'  BY DEF Inv, StealInv, StealOnce, StealLabels
    <3>2. ASSUME NEW x \in Cpus PROVE StealCpu(x)'
      BY SMTT(30), Z3T(30), <3>2 DEF Inv, StealInv, StealCpu, StealLabels
    <3> QED  BY <3>1, <3>2 DEF StealInv
  <2>21. PlaceInv'
    <3>1. PlaceTask'  BY DEF Inv, PlaceInv, PlaceTask, MoverLabels, ActorLinks
    <3>2. ASSUME NEW b \in Actors PROVE PlaceActor(b)'
      BY <3>2 DEF Inv, PlaceInv, PlaceActor, LinkLabels, MoverLabels, ActorLinks
    <3>3. ASSUME NEW x \in Cpus PROVE PlaceCpu(x)'
      BY SMTT(30), Z3T(30), <3>3 DEF Inv, PlaceInv, PlaceCpu, MoverLabels, ActorLinks
    <3> QED  BY <3>1, <3>2, <3>3 DEF PlaceInv
  <2>22. MaskInv'
    BY DEF Inv, MaskInv, MaskTask, MaskSetter, MaskActor, MaskCpu, LinkLabels,
           MoverLabels, ActorLinks
  <2>23. PreemptInv'
    BY DEF Inv, PreemptInv, Picked, MoveUnderway, MoverLabels, ActorLinks
  <2>24. SelfInv'
    <3>1. SelfTask'  BY DEF Inv, SelfInv, SelfTask, SelfMoves, Continues, SchedLabels
    <3>2. ASSUME NEW x \in Cpus PROVE SelfCpu(x)'
      BY <3>2 DEF Inv, SelfInv, SelfCpu, SelfMoves, Continues, SchedLabels
    <3> QED  BY <3>1, <3>2 DEF SelfInv
  <2>25. ActiveInv'
    BY DEF Inv, ActiveInv, InSession, SessionLabels, SchedLabels, ClaimLabels,
       LinkLabels
  <2>26. SessionInv'  BY DEF Inv, SessionInv, Polled, Continues, WakeUnderway, SchedLabels
  <2>27. QED
    BY <2>11, <2>12, <2>13, <2>14, <2>15, <2>16, <2>17, <2>18, <2>19, <2>20, <2>21,
       <2>22, <2>23, <2>24, <2>25, <2>26 DEF Inv
\* ... or stays where it is.
<1>5. ASSUME StealMove(d), UNCHANGED <<ready, task>> PROVE Inv'
  <2> USE <1>5
  <2> USE TaskWakeAssumption DEF Actors
  <2>1. /\ cpu[d].pc = "stealmove" /\ cpu[d].pc \in StealLabels
    BY DEF StealMove, At, StealLabels
  <2>2. /\ {d, cpu[d].from} \subseteq locked /\ ready # {} /\ ready \subseteq {d, cpu[d].from}
        /\ hand.token = 0 /\ ~hand.slot /\ ~cpu[d].helper /\ cpu[d].from \in Cpus
        /\ \A e \in Cpus \ {d} : cpu[e].pc \notin StealLabels
    BY <2>1
       DEF Inv, StealInv, StealOnce, StealCpu, HelperInv, HelperCpu, Typed, CpuRecords,
           StealLabels
  <2>3. /\ task.state = "Ready" /\ ~hand.pending
        /\ \A e \in Cpus : ~CpuLinks(e) /\ cpu[e].pc \notin MoverLabels
        /\ \A a \in Actors : ~ActorLinks(a)
    BY <2>2, Queued
  <2>4. /\ cur = NoCpu /\ pc[Task] \in {"resumed", "exited"}  BY <2>2, Parked
  <2>5. /\ cpu[d].pc = "stealmove" /\ CpuGoto(d, "stealdone")
        /\ UNCHANGED <<bw, mutation, task, hand, ready, cur, locked, pc, ret,
                       loc, events, fault>>
    BY <2>1 DEF StealMove, control, env
  <2>6. /\ cpu' \in [Cpus -> CpuRecords] /\ cpu'[d].pc = "stealdone"
        /\ \A e \in Cpus \ {d} : cpu'[e] = cpu[e]
        /\ cpu'[d].helper = cpu[d].helper /\ cpu'[d].from = cpu[d].from
        /\ cpu'[d].to = cpu[d].to
    BY <2>5, CpuGoes DEF Inv, CpuLabels
  <2>7. ~cpu'[d].helper  BY <2>6, <2>2
  <2>8. /\ budget'.refused = 0 => budget.refused = 0
        /\ budget' \in [sessions : Nat, contention : Nat, self : Nat, refused : Nat,
                      calls : [Wakers \cup Setters -> Nat]]
    BY SMTT(30), Z3T(30) DEF StealMove, Refuse, Inv, Typed
  <2> USE <2>2, <2>3, <2>4, <2>5, <2>6, <2>7, <2>8
  <2>9. Typed'  BY DEF Inv, Typed
  <2>10. ~fault'  BY DEF Inv
  <2>11. RoleInv'
    BY DEF Inv, RoleInv, RoleTask, RoleWaker, RoleSetter, ClaimLabels, LinkLabels,
       SetterLabels, TaskLabels,
       SchedLabels, SafePoints
  <2>12. StackInv'  BY DEF Inv, StackInv, ClaimLabels, LinkLabels, RunLabels
  <2>13. TokenInv'
    <3>1. TokenTask'  BY DEF Inv, TokenInv, TokenTask
    <3>2. ASSUME NEW b \in Actors PROVE TokenActor(b)'
      BY <3>2 DEF Inv, TokenInv, TokenActor
    <3>3. ASSUME NEW x \in Cpus PROVE TokenCpu(x)'
      BY <3>3 DEF Inv, TokenInv, TokenCpu
    <3> QED  BY <3>1, <3>2, <3>3 DEF TokenInv
  <2>14. LinkInv'
    <3>1. \A x \in Cpus : CpuLinks(x)' <=> CpuLinks(x)  BY DEF CpuLinks
    <3>2. \A b \in Actors : ActorLinks(b)' <=> ActorLinks(b)
      BY DEF ActorLinks, LinkLabels
    <3> QED  BY <3>1, <3>2, LinkFrame DEF Inv
  <2>15. HelperInv'  BY DEF Inv, HelperInv, HelperCpu
  <2>16. SlotInv'
    <3>1. SlotTask'  BY DEF Inv, SlotInv, SlotTask
    <3>2. SlotHeld'  BY DEF Inv, SlotInv, SlotHeld
    <3>3. ASSUME NEW b \in Actors PROVE SlotActor(b)'
      BY <3>3 DEF Inv, SlotInv, SlotActor
    <3>4. ASSUME NEW x \in Cpus PROVE SlotCpu(x)'
      BY <3>4 DEF Inv, SlotInv, SlotCpu
    <3> QED  BY <3>1, <3>2, <3>3, <3>4 DEF SlotInv
  <2>17. MutationInv'
    <3>1. \A b \in Actors : HoldsAffinity(b)' => HoldsAffinity(b)
      BY DEF HoldsAffinity, SelfLabels, SchedLabels, SetterLabels, ClaimLabels,
         LinkLabels
    <3>2. MutationTask'
      BY <3>1 DEF Inv, MutationInv, MutationTask, ClaimLabels, LinkLabels
    <3>3. MutationOnce'
      BY <3>1 DEF Inv, MutationInv, MutationOnce, ClaimLabels, LinkLabels
    <3>4. MutationHeld'
      BY <3>1 DEF Inv, MutationInv, MutationHeld, ClaimLabels, LinkLabels
    <3>5. ASSUME NEW b \in Actors PROVE MutationActor(b)'
      BY <3>1, <3>5 DEF Inv, MutationInv, MutationActor, ClaimLabels, LinkLabels
    <3>6. ASSUME NEW x \in Cpus PROVE MutationCpu(x)'
      BY <3>1, <3>6 DEF Inv, MutationInv, MutationCpu, ClaimLabels, LinkLabels
    <3> QED  BY <3>2, <3>3, <3>4, <3>5, <3>6 DEF MutationInv
  <2>18. StealInv'
    <3>1. StealOnce'  BY DEF Inv, StealInv, StealOnce, StealLabels
    <3>2. ASSUME NEW x \in Cpus PROVE StealCpu(x)'
      BY SMTT(30), Z3T(30), <3>2 DEF Inv, StealInv, StealCpu, StealLabels
    <3> QED  BY <3>1, <3>2 DEF StealInv
  <2>19. PlaceInv'
    <3>1. PlaceTask'  BY DEF Inv, PlaceInv, PlaceTask
    <3>2. ASSUME NEW b \in Actors PROVE PlaceActor(b)'
      BY <3>2 DEF Inv, PlaceInv, PlaceActor, LinkLabels
    <3>3. ASSUME NEW x \in Cpus PROVE PlaceCpu(x)'
      BY <3>3 DEF Inv, PlaceInv, PlaceCpu
    <3> QED  BY <3>1, <3>2, <3>3 DEF PlaceInv
  <2>20. MaskInv'
    BY DEF Inv, MaskInv, MaskTask, MaskSetter, MaskActor, MaskCpu, LinkLabels
  <2>21. PreemptInv'  BY SMTT(30), Z3T(30) DEF Inv, PreemptInv, Picked, MoveUnderway
  <2>22. SelfInv'
    <3>1. SelfTask'  BY DEF Inv, SelfInv, SelfTask, SelfMoves, Continues, SchedLabels
    <3>2. ASSUME NEW x \in Cpus PROVE SelfCpu(x)'
      BY <3>2 DEF Inv, SelfInv, SelfCpu, SelfMoves, Continues, SchedLabels
    <3> QED  BY <3>1, <3>2 DEF SelfInv
  <2>23. ActiveInv'
    BY DEF Inv, ActiveInv, InSession, SessionLabels, SchedLabels, ClaimLabels,
       LinkLabels
  <2>24. SessionInv'  BY DEF Inv, SessionInv, Polled, Continues, WakeUnderway, SchedLabels
  <2>25. QED
    BY <2>9, <2>10, <2>11, <2>12, <2>13, <2>14, <2>15, <2>16, <2>17, <2>18, <2>19,
       <2>20, <2>21, <2>22, <2>23, <2>24 DEF Inv
\* finish_idle_steal_mutation releases the claim and both locks.
<1>6. CASE StealFinish(d)
  <2> USE <1>6
  <2> USE TaskWakeAssumption DEF Actors
  <2>1. /\ cpu[d].pc = "stealdone" /\ cpu[d].pc \in StealLabels
    BY DEF StealFinish, At, StealLabels
  <2>2. /\ {d, cpu[d].from} \subseteq locked /\ ready # {} /\ ready \subseteq {d, cpu[d].from}
        /\ hand.token = 0 /\ ~hand.slot /\ ~cpu[d].helper /\ cpu[d].from \in Cpus
        /\ \A e \in Cpus \ {d} : cpu[e].pc \notin StealLabels
    BY <2>1
       DEF Inv, StealInv, StealOnce, StealCpu, HelperInv, HelperCpu, Typed, CpuRecords,
           StealLabels
  <2>3. /\ task.state = "Ready" /\ ~hand.pending
        /\ \A e \in Cpus : ~CpuLinks(e) /\ cpu[e].pc \notin MoverLabels
        /\ \A a \in Actors : ~ActorLinks(a)
    BY <2>2, Queued
  <2>4. /\ cur = NoCpu /\ pc[Task] \in {"resumed", "exited"}  BY <2>2, Parked
  <2>5. mutation.owner = "steal"
    BY <2>1
       DEF Inv, MutationInv, MutationTask, MutationOnce, MutationHeld, MutationActor,
           MutationCpu
  <2>6. /\ cpu[d].pc = "stealdone" /\ CpuGoto(d, "run") /\ mutation' = Idle
        /\ locked' = locked \ {d, cpu[d].from}
        /\ UNCHANGED <<bw, task, hand, ready, cur, pc, ret, loc, events, budget,
                       fault>>
    BY <2>1, <2>5 DEF StealFinish, control, env
  <2>7. /\ cpu' \in [Cpus -> CpuRecords] /\ cpu'[d].pc = "run"
        /\ \A e \in Cpus \ {d} : cpu'[e] = cpu[e]
        /\ cpu'[d].helper = FALSE
    BY <2>6, CpuGoes DEF Inv, CpuLabels
  <2>8. /\ mutation.owner = "steal" /\ mutation # WakeOwned /\ mutation'.owner = "none"
        /\ mutation' # WakeOwned /\ mutation' \in MutationWords
    BY <2>6, <2>5, MutIs
  <2>9. \A a \in Actors : pc[a] \notin ClaimLabels /\ ~HoldsAffinity(a)
    BY <2>8, NoWakeClaim
       DEF Inv, MutationInv, MutationTask, MutationOnce, MutationHeld, MutationActor,
           MutationCpu
  <2> USE <2>2, <2>3, <2>4, <2>6, <2>7, <2>8, <2>9
  <2>10. Typed'  BY DEF Inv, Typed
  <2>11. ~fault'  BY DEF Inv
  <2>12. RoleInv'
    BY DEF Inv, RoleInv, RoleTask, RoleWaker, RoleSetter, ClaimLabels, LinkLabels,
       SetterLabels, TaskLabels,
       SchedLabels, SafePoints
  <2>13. StackInv'  BY DEF Inv, StackInv, ClaimLabels, LinkLabels, RunLabels
  <2>14. TokenInv'  BY DEF Inv, TokenInv, TokenTask, TokenActor, TokenCpu
  <2>15. LinkInv'
    <3>1. \A x \in Cpus : CpuLinks(x)' <=> CpuLinks(x)  BY DEF CpuLinks
    <3>2. \A b \in Actors : ActorLinks(b)' <=> ActorLinks(b)
      BY DEF ActorLinks, LinkLabels
    <3> QED  BY <3>1, <3>2, LinkFrame DEF Inv
  <2>16. HelperInv'  BY DEF Inv, HelperInv, HelperCpu
  <2>17. SlotInv'  BY DEF Inv, SlotInv, SlotTask, SlotHeld, SlotActor, SlotCpu
  <2>18. MutationInv'
    <3>1. \A b \in Actors : HoldsAffinity(b)' => HoldsAffinity(b)
      BY DEF HoldsAffinity, SelfLabels, SchedLabels, SetterLabels, ClaimLabels,
         LinkLabels
    <3>2. MutationTask'
      BY <3>1 DEF Inv, MutationInv, MutationTask, ClaimLabels, LinkLabels, StealLabels
    <3>3. MutationOnce'
      BY <3>1 DEF Inv, MutationInv, MutationOnce, ClaimLabels, LinkLabels, StealLabels
    <3>4. MutationHeld'
      BY <3>1 DEF Inv, MutationInv, MutationHeld, ClaimLabels, LinkLabels, StealLabels
    <3>5. ASSUME NEW b \in Actors PROVE MutationActor(b)'
      BY <3>1, <3>5
         DEF Inv, MutationInv, MutationActor, ClaimLabels, LinkLabels, StealLabels
    <3>6. ASSUME NEW x \in Cpus PROVE MutationCpu(x)'
      <4>1. CASE x # d
        <5>1. x \in Cpus \ {d}  BY <4>1, <3>6
        <5>2. cpu'[x] = cpu[x]  BY <5>1, <2>7
        <5>3. cpu[x].pc \notin {"stealmove", "stealdone"}  BY <5>1, <2>2 DEF StealLabels
        <5>4. cpu[x].pc \notin {"take", "delegated"}  BY <3>6, <2>3 DEF CpuLinks
        <5> QED  BY <5>2, <5>3, <5>4 DEF MutationCpu
      <4>2. MutationCpu(d)'  BY <2>7 DEF MutationCpu
      <4> QED  BY <4>1, <4>2
    <3> QED  BY <3>2, <3>3, <3>4, <3>5, <3>6 DEF MutationInv
  <2>19. StealInv'
    <3>1. StealOnce'  BY DEF Inv, StealInv, StealOnce, StealLabels
    <3>2. ASSUME NEW x \in Cpus PROVE StealCpu(x)'
      BY <3>2 DEF Inv, StealInv, StealCpu, StealLabels
    <3> QED  BY <3>1, <3>2 DEF StealInv
  <2>20. PlaceInv'
    <3>1. PlaceTask'  BY DEF Inv, PlaceInv, PlaceTask
    <3>2. ASSUME NEW b \in Actors PROVE PlaceActor(b)'
      BY <3>2 DEF Inv, PlaceInv, PlaceActor, LinkLabels
    <3>3. ASSUME NEW x \in Cpus PROVE PlaceCpu(x)'
      BY <3>3 DEF Inv, PlaceInv, PlaceCpu
    <3> QED  BY <3>1, <3>2, <3>3 DEF PlaceInv
  <2>21. MaskInv'
    BY DEF Inv, MaskInv, MaskTask, MaskSetter, MaskActor, MaskCpu, LinkLabels
  <2>22. PreemptInv'  BY DEF Inv, PreemptInv, Picked, MoveUnderway
  <2>23. SelfInv'
    <3>1. SelfTask'  BY DEF Inv, SelfInv, SelfTask, SelfMoves, Continues, SchedLabels
    <3>2. ASSUME NEW x \in Cpus PROVE SelfCpu(x)'
      BY <3>2 DEF Inv, SelfInv, SelfCpu, SelfMoves, Continues, SchedLabels
    <3> QED  BY <3>1, <3>2 DEF SelfInv
  <2>24. ActiveInv'
    BY DEF Inv, ActiveInv, InSession, SessionLabels, SchedLabels, ClaimLabels,
       LinkLabels
  <2>25. SessionInv'  BY DEF Inv, SessionInv, Polled, Continues, WakeUnderway, SchedLabels
  <2>26. QED
    BY <2>10, <2>11, <2>12, <2>13, <2>14, <2>15, <2>16, <2>17, <2>18, <2>19, <2>20,
       <2>21, <2>22, <2>23, <2>24, <2>25 DEF Inv
<1>7. StealMove(d) =>
        \/ /\ d \in task.mask /\ budget' = budget
           /\ ready' = (ready \ {cpu[d].from}) \cup {d}
           /\ task' = [task EXCEPT !.cpu = d]
        \/ UNCHANGED <<ready, task>>
  BY DEF StealMove
<1>8. QED  BY <1>1, <1>2, <1>3, <1>4, <1>5, <1>6, <1>7

\* Every step of a CPU keeps the invariant.
LEMMA CpuStepKeeps ==
    ASSUME Inv, NEW c \in Cpus, CpuStep(c) \/ StealScan(c) PROVE Inv'
  BY HandoffKeeps, HelpKeeps, StealKeeps DEF CpuStep

-----------------------------------------------------------------------------
(* The specification.                                                      *)

\* A step that changes nothing keeps it.
LEMMA StutterKeeps == ASSUME Inv, UNCHANGED vars PROVE Inv'
<1>1. UNCHANGED <<bw, mutation, task, hand, ready, cur, cpu, locked, pc, ret, loc,
                  events, budget, fault>>
  BY DEF vars
<1>2. /\ Typed' /\ ~fault' /\ RoleInv' /\ StackInv' /\ TokenInv'
  BY <1>1
     DEF Inv, Typed, RoleInv, RoleTask, RoleWaker, RoleSetter, StackInv, TokenInv,
         TokenTask, TokenActor, TokenCpu
<1>3. /\ LinkInv' /\ HelperInv' /\ SlotInv' /\ StealInv'
  BY <1>1
     DEF Inv, LinkInv, LinkOnce, LinkTask, LinkHeld, LinkActor, LinkCpu, CpuLinks,
         ActorLinks, HelperInv, HelperCpu, SlotInv, SlotTask, SlotHeld, SlotActor,
         SlotCpu, StealInv, StealOnce, StealCpu
<1>4. MutationInv' /\ PlaceInv' /\ MaskInv'
  BY <1>1
     DEF Inv, MutationInv, MutationTask, MutationOnce, MutationHeld, MutationActor,
         MutationCpu, HoldsAffinity, PlaceInv, PlaceTask, PlaceActor, PlaceCpu,
         MaskInv, MaskTask, MaskSetter, MaskActor, MaskCpu
<1>5. PreemptInv' /\ SelfInv'
  BY <1>1
     DEF Inv, PreemptInv, Picked, MoveUnderway, SelfInv, SelfTask, SelfCpu, SelfMoves,
         Continues
<1>6. ActiveInv' /\ SessionInv'
  BY <1>1 DEF Inv, ActiveInv, InSession, SessionInv, Polled, Continues, WakeUnderway
<1>7. QED  BY <1>2, <1>3, <1>4, <1>5, <1>6 DEF Inv

\* The task starts Running on a CPU, with no claim, wake or affinity call.
LEMMA InitKeeps == Init => Inv
<1> SUFFICES ASSUME Init PROVE Inv  OBVIOUS
<1> USE TaskWakeAssumption DEF Actors
<1>1. PICK d \in Cpus :
        /\ bw = [gen |-> 0, active |-> FALSE, woken |-> FALSE, owner |-> FALSE]
        /\ task = [state |-> "Running", cpu |-> d, mask |-> Cpus,
                   helper |-> NoCpu, resched |-> FALSE]
        /\ hand = [token |-> 1, cpu |-> d, pending |-> FALSE, slot |-> FALSE, gen |-> 1]
        /\ ready = {} /\ cur = d /\ locked = {} /\ mutation = Idle /\ fault = FALSE
        /\ cpu = [c \in Cpus |-> OtherWork(c)]
        /\ pc = [a \in Actors |-> IF a = Task THEN "begin" ELSE "idle"]
        /\ ret = [a \in Actors |-> "idle"]
        /\ loc = [a \in Actors |-> [cpu |-> d, seen |-> 0, mask |-> Cpus]]
        /\ events = [made |-> 0, taken |-> 0]
        /\ budget = [sessions |-> 0, contention |-> 0, self |-> 0, refused |-> 0,
                     calls |-> [a \in Wakers \cup Setters |-> 0]]
  BY DEF Init
<1>2. /\ bw \in BlockWords /\ bw.active = FALSE /\ bw.owner = FALSE /\ bw.woken = FALSE
      /\ events \in [made : Nat, taken : Nat] /\ events.made = events.taken
  BY <1>1 DEF BlockWords
<1>3. /\ task \in TaskWords /\ task.state = "Running" /\ task.cpu = d /\ task.mask = Cpus
      /\ task.resched = FALSE
  BY <1>1 DEF TaskWords
<1>4. /\ hand \in HandWords /\ hand.token = 1 /\ hand.cpu = d /\ hand.pending = FALSE
      /\ hand.slot = FALSE
  BY <1>1 DEF HandWords
<1>5. /\ cpu \in [Cpus -> CpuRecords]
      /\ \A c \in Cpus : cpu[c].pc = "run" /\ cpu[c].helper = FALSE
  BY <1>1 DEF OtherWork, CpuRecords, CpuLabels
<1>6. /\ pc \in [Actors -> Labels] /\ ret \in [Actors -> Returns]
      /\ pc[Task] = "begin" /\ \A a \in Actors : ret[a] = "idle"
      /\ \A a \in Wakers \cup Setters : pc[a] = "idle"
  BY <1>1 DEF Labels, Returns, TaskLabels, SetterLabels
<1>7. loc \in [Actors -> Locals] /\ d # NoCpu  BY <1>1 DEF Locals
<1>8. /\ mutation \in MutationWords /\ mutation.owner = "none" /\ mutation # WakeOwned
  BY <1>1, MutIs
<1>9. /\ budget \in [sessions : Nat, contention : Nat, self : Nat, refused : Nat,
                     calls : [Wakers \cup Setters -> Nat]]
  BY <1>1
<1>10. ready = {} /\ cur = d /\ locked = {} /\ fault = FALSE  BY <1>1
<1>11. Typed  BY <1>2, <1>3, <1>4, <1>5, <1>6, <1>7, <1>8, <1>9, <1>10 DEF Typed
<1>12. RoleInv
  BY <1>6
     DEF RoleInv, RoleTask, RoleWaker, RoleSetter, SetterLabels, TaskLabels,
         SchedLabels, ClaimLabels, LinkLabels
<1>13. StackInv
  BY <1>3, <1>5, <1>6, <1>7, <1>10 DEF StackInv, ClaimLabels, LinkLabels
<1>14. TokenInv
  BY SMTT(30), Z3T(30), <1>4, <1>5, <1>6, <1>7, <1>10
     DEF TokenInv, TokenTask, TokenActor, TokenCpu
<1>15. /\ \A c \in Cpus : ~CpuLinks(c)
       /\ \A a \in Actors : ~ActorLinks(a) /\ ~HoldsAffinity(a) /\ pc[a] \notin ClaimLabels
  BY <1>5, <1>6 DEF CpuLinks, ActorLinks, HoldsAffinity, SelfLabels, SchedLabels,
                    SetterLabels, ClaimLabels, LinkLabels
<1>16. LinkInv
  BY <1>3, <1>4, <1>10, <1>15
     DEF LinkInv, LinkOnce, LinkTask, LinkHeld, LinkActor, LinkCpu
<1>17. HelperInv /\ SlotInv /\ StealInv
  BY <1>4, <1>5, <1>6
     DEF HelperInv, HelperCpu, SlotInv, SlotTask, SlotHeld, SlotActor, SlotCpu,
         StealInv, StealOnce, StealCpu, StealLabels
<1>18. MutationInv
  BY <1>3, <1>4, <1>5, <1>6, <1>8, <1>15
     DEF MutationInv, MutationTask, MutationOnce, MutationHeld, MutationActor,
         MutationCpu, ClaimLabels
<1>19. PlaceInv /\ MaskInv
  BY <1>3, <1>4, <1>5, <1>6, <1>10
     DEF PlaceInv, PlaceTask, PlaceActor, PlaceCpu, MaskInv, MaskTask, MaskSetter,
         MaskActor, MaskCpu, LinkLabels
<1>20. PreemptInv /\ SelfInv
  BY <1>3, <1>6
     DEF PreemptInv, SelfInv, SelfTask, SelfCpu, SelfMoves, Continues, SchedLabels
<1>21. ActiveInv
  BY <1>6 DEF ActiveInv, InSession, SessionLabels, SchedLabels, ClaimLabels, LinkLabels
<1>22. SessionInv
  BY <1>2, <1>3, <1>6 DEF SessionInv, Polled, Continues, SchedLabels
<1>23. QED
  BY <1>10, <1>11, <1>12, <1>13, <1>14, <1>16, <1>17, <1>18, <1>19, <1>20, <1>21,
     <1>22 DEF Inv

\* ... and so does every step of the specification.
LEMMA NextKeeps == ASSUME Inv, [Next]_vars PROVE Inv'
<1>1. CASE UNCHANGED vars  BY <1>1, StutterKeeps
<1>2. CASE \E w \in Wakers : CallWake(w)  BY <1>2, CallWakeKeeps
<1>3. CASE \E s \in Setters : BeginAffinity(s) \/ SetterStep(s)  BY <1>3, SetterStepKeeps
<1>4. CASE \E a \in Actors : WakeStep(a)  BY <1>4, WakeStepKeeps
<1>5. CASE TaskStep  BY <1>5, TaskStepKeeps
<1>6. CASE FinishAffinity(Task)  BY <1>6, FinishAffinityKeeps
<1>7. CASE \E c \in Cpus : CpuStep(c) \/ StealScan(c)  BY <1>7, CpuStepKeeps
<1>8. QED  BY <1>1, <1>2, <1>3, <1>4, <1>5, <1>6, <1>7 DEF Next

-----------------------------------------------------------------------------
(* The theorems.                                                           *)

\* The inductive invariant holds of every behaviour: claims, links, owner
\* token and session words of run_queue.rs and task.rs agree at every step.
THEOREM Invariance == Safety => []Inv
<1>1. Init => Inv  BY InitKeeps
<1>2. Inv /\ [Next]_vars => Inv'  BY NextKeeps
<1>3. QED  BY <1>1, <1>2, PTL DEF Safety

\* Every word of the task stays within what its encoding in task.rs can hold.
THEOREM Types == Safety => []TypeOK
<1>1. Inv => TypeOK  BY TypedTypeOK DEF Inv
<1>2. QED  BY <1>1, Invariance, PTL

\* No interleaving of block, wake, affinity, migration and steal reaches a
\* branch that powers the machine off (finish_*_mutation, publish_wake_handoff,
\* finish_cpu_handoff_exact, enqueue_task).
THEOREM NeverFailStops == Safety => []NoFailStop
<1>1. Inv => NoFailStop  BY DEF Inv, NoFailStop
<1>2. QED  BY <1>1, Invariance, PTL

\* The task is selectable away from the CPU whose stack it occupies only after
\* that CPU's epilogue released the owner token (clear_prev_task_on_cpu), so its
\* context is never restored on two CPUs.
THEOREM StackIsOne == Safety => []OneStack
<1>1. Inv => OneStack
  <2> SUFFICES ASSUME Inv,
                      NEW q \in ready \cup {c \in Cpus : cpu[c].pc = "switchin"}
               PROVE  (cur # NoCpu => q = cur) /\ (hand.token # 0 => q = hand.cpu)
    BY DEF OneStack
  <2>1. hand.token # 0 => q = hand.cpu
    BY DEF Inv, TokenInv, TokenTask, TokenActor, TokenCpu
  <2>2. cur # NoCpu => hand.token # 0 /\ hand.cpu = cur
    BY DEF Inv, TokenInv, TokenTask, TokenActor, TokenCpu
  <2>3. QED  BY <2>1, <2>2
<1>2. QED  BY <1>1, Invariance, PTL

\* A wake is never lost: a marked, committed Blocked task is owed a wake, a Ready
\* task off every queue is owed a link, and an occurrence published before a wake
\* is never slept through (wake_task, finish_block_mutation, AffinityMutation::drop,
\* clear_prev_task_on_cpu, block_on).
THEOREM WakesKept == Safety => []NoLostWake
<1>1. Inv => NoLostWake
  <2> SUFFICES ASSUME Inv PROVE NoLostWake  OBVIOUS
  <2>1. task.state = "Blocked" /\ bw.woken /\ ~bw.owner => WakeUnderway
    BY DEF Inv, SessionInv
  <2>2. task.state = "Ready" /\ ready = {} =>
          \/ hand.pending
          \/ \E c \in Cpus : CpuLinks(c)
          \/ \E a \in Actors : ActorLinks(a)
    BY DEF Inv, LinkInv, LinkOnce, LinkTask, LinkHeld, LinkActor, LinkCpu
  <2>3. \A a \in Actors : pc[a] = "running" => a = Task
    BY TaskWakeAssumption
       DEF Inv, RoleInv, RoleTask, RoleWaker, RoleSetter, SetterLabels, ClaimLabels,
           LinkLabels, Actors
  <2>4. task.state = "Blocked" /\ events.made > events.taken =>
          bw.woken \/ \E w \in Wakers : pc[w] = "mark"
    BY DEF Inv, SessionInv, Polled
  <2>5. QED  BY <2>1, <2>2, <2>3, <2>4 DEF NoLostWake, CpuLinks, ActorLinks, LinkLabels
<1>2. QED  BY <1>1, Invariance, PTL

\* The affinity mask is obeyed wherever the code may rely on it: by the frozen
\* wake owner and every link (blocked_resched_atomic, set_task_affinity), by a task
\* at a safe point, and by set_current_affinity when it returns.
THEOREM AffinityObeyed == Safety => []AffinityHolds
<1>1. Inv => WakeOwnerAllowed
  BY DEF Inv, WakeOwnerAllowed, MaskInv, MaskTask, MaskSetter, MaskActor, MaskCpu,
     PlaceInv, PlaceTask, PlaceActor, PlaceCpu, At, LinkLabels
<1>2. Inv => DisallowedIsPending
  <2> SUFFICES ASSUME Inv, cur # NoCpu, cur \notin task.mask,
                      mutation.owner # "affinity", pc[Task] \in SafePoints
               PROVE  task.resched
    BY DEF DisallowedIsPending
  <2>1. task.state = "Running" /\ task.cpu = cur
    BY DEF Inv, StackInv, PlaceInv, PlaceTask, PlaceActor, PlaceCpu, RunLabels, SafePoints
  <2>2. \A a \in Actors : ~HoldsAffinity(a)
    BY DEF Inv, MutationInv, MutationTask, MutationOnce, MutationHeld, MutationActor,
           MutationCpu
  <2>3. ~MoveUnderway
    BY <2>2, TaskWakeAssumption
       DEF MoveUnderway, HoldsAffinity, SelfLabels, SetterLabels, Actors, SafePoints
  <2>4. QED  BY <2>1, <2>3 DEF Inv, PreemptInv, Picked
<1>3. Inv => SelfAffinityHolds
  BY DEF Inv, SelfAffinityHolds, SelfInv, SelfTask, SelfCpu, SelfMoves, Continues, Own,
     Here
<1>4. QED  BY <1>1, <1>2, <1>3, Invariance, PTL DEF AffinityHolds

=============================================================================
