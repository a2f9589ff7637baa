-------------------------------- MODULE MCRcu --------------------------------
(* A small instance of Rcu for TLC.                                        *)
EXTENDS Rcu, TLC

CONSTANTS w1, w2, o1, o2

Symmetric == Permutations(Objects)

\* Bound: what is explored together.  The readers of two CPUs against one
\* publication; one of the CPUs goes offline instead of the second reader; an
\* interrupt that reads on top of a task against two publications; two writers
\* and the reclaimer.  is_empty, which admits no reader, is called alone.
Used == {r \in Readers : reads[r] > 0}
Alone == wpc[w2] = "idle"
Together ==
    /\ \/ Used \subseteq Cpus \X {"task"} /\ epoch <= 2 /\ Alone /\ moves = 0
       \/ Used \subseteq {<<0, "task">>} /\ epoch <= 2 /\ Alone
       \/ Used \subseteq {0} \X {"task", "irq"} /\ Alone /\ moves = 0
       \/ Used = {} /\ moves = 0
    /\ \A r \in Readers : rpc[r] \in {"before", "peek", "after"} => Used = {r}
=============================================================================
