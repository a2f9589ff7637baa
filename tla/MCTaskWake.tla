---------------------------- MODULE MCTaskWake ----------------------------
(* Small instances of TaskWake for TLC.                                    *)
EXTENDS TaskWake, TLC

CONSTANTS c1, c2, w1, w2, w3, s1

Symmetry == Permutations(Wakers) \cup Permutations(Cpus)
CpuSymmetry == Permutations(Cpus)
AllMasks == SUBSET Cpus \ {{}}

\* Bound: what is explored together.  Either nobody changes the affinity, and
\* three wakers meet two sessions, or one waker and one session meet two of: an
\* affinity call, a call of the task itself, a refused migration, a contended
\* lock.
Called(S) == {a \in S : budget.calls[a] > 0}
Together ==
    \/ Called(Setters) = {} /\ budget.self = 0 /\ budget.refused = 0
    \/ /\ Cardinality(Called(Wakers)) <= 1
       /\ budget.sessions <= 1
       /\ Cardinality(Called(Setters)) + budget.self
             + budget.refused + budget.contention <= 2
=============================================================================
