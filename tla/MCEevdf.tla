------------------------------ MODULE MCEevdf ------------------------------
(***************************************************************************)
(* Instances of the EEVDF scheduler: scenarios with three tasks on two     *)
(* queues.  A scenario gives the parameters of the tasks, those queued at  *)
(* the start, the calls that are made and how many, and the parameters     *)
(* that calls change to.                                                   *)
(***************************************************************************)
EXTENDS Eevdf

CONSTANTS t1, t2, t3

N(w) == [class |-> "normal", weight |-> w, prio |-> 0]
B(w) == [class |-> "batch", weight |-> w, prio |-> 0]
R(n) == [class |-> "rr", weight |-> 2, prio |-> n]
F(n) == [class |-> "fifo", weight |-> 2, prio |-> n]
D == [class |-> "deadline", weight |-> 2, prio |-> 0]

Cfg(r, d, p) == [runtime |-> r, deadline |-> d, period |-> p]
MCConfigs == {Cfg(2, 4, 4), Cfg(1, 2, 3)}
MCTarget == [normal |-> 2, batch |-> 4, idle |-> 2]

P(ops, max, x, y, z, start, to) ==
  [ops |-> ops, max |-> max, par |-> (t1 :> x @@ t2 :> y @@ t3 :> z),
   cfg |-> [t \in Tasks |-> Cfg(2, 4, 4)], start |-> start, to |-> to]

MCProfiles ==
  {P({"run", "sleep", "tick", "account"}, 7, N(2), N(1), B(4), {t1, t2}, {}),
   P({"run", "tick", "params", "runtime"}, 5, N(2), N(1), N(2), {t1, t2}, {B(4), R(1)}),
   P({"fork", "new", "runtime", "run", "tick"}, 5, N(2), N(1), N(2), {t1}, {}),
   P({"run", "tick", "account", "sleep", "params"}, 6, R(1), F(2), N(2), {t1, t2, t3}, {N(1), R(2)}),
   P({"run", "tick", "account", "rebase", "config", "sleep", "exit"}, 6, D, D, N(2), {t1, t2, t3}, {}),
   P({"run", "tick", "stage", "account", "rebase"}, 5, N(2), D, N(2), {t1, t2}, {D}),
   P({"run", "tick", "migrate"}, 6, N(2), N(1), N(2), {t1, t2}, {}),
   P({"run", "tick", "migrate", "rebase"}, 6, D, R(1), D, {t1, t2}, {}),
   P({"configure", "reserve", "new", "remove", "exit", "drop"}, 4, N(2), R(1), D, {t1}, {N(1), R(1), D})}

LateProfiles == {P({"run", "account", "late"}, 3, D, N(2), N(2), {t1, t2}, {})}

LateSpec == InitIn(LateProfiles) /\ [][Next]_vars
============================================================================
