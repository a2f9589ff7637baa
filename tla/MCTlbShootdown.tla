--------------------------- MODULE MCTlbShootdown ---------------------------
(* Small instances of TlbShootdown for TLC.                                *)
EXTENDS TlbShootdown, TLC

CONSTANTS i1, i2, x1, resched

Symmetry == Permutations(Issuers)

\* Bound: for liveness every call, of either kind, concerns one target: the
\* shootdowns are issued on CPU 0 and the other reasons are posted to CPU 1.
LiveNext ==
    \/ \E i \in Issuers : AdmitReason(i, 1)
    \/ \E i \in Issuers, ks \in SUBSET Classes : IssueAll(i, 0, ks)
    \/ \E i \in Issuers, ks \in SUBSET Classes, ts \in SUBSET Cpus :
           IssueTo(i, 0, ks, ts)
    \/ \E i \in Issuers : Publish(i) \/ RecoveryKick(i) \/ TryComplete(i)
                          \/ DropRequest(i)
    \/ \E c \in Cpus : Handle(c)
    \/ \E x \in Controllers : Lifecycle(x)

LiveSpec == Init /\ [][LiveNext]_vars /\ Fairness
=============================================================================
