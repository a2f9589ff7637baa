---------------------------- MODULE FaultPromise ----------------------------
(***************************************************************************)
(* What a FaultBroker of thekernel-axfault promises its adapter, without   *)
(* slots, generations, links or counters.  Faults of one handler and key   *)
(* share one request until its result is visible; requests are delivered   *)
(* to their handler in arrival order, each at most once; a request gets    *)
(* one result, and lives as long as somebody waits for it.                 *)
(***************************************************************************)
EXTENDS Integers, Sequences, FiniteSets

CONSTANTS Handlers, Keys, Results, None,
          RequestIds, WaiterIds   \* identities; none is used twice

VARIABLES
    issued,   \* request and waiter identities handed out so far
    live,     \* live request -> its key, handler, state and result
    waits,    \* live waiter -> the request it waits for
    queue     \* requests not yet delivered, oldest first

vars == <<issued, live, waits, queue>>

Open == {"Pending", "Delivered"}
Deferred == {"DeferredPending", "DeferredDelivered"}

Only(f, S) == [x \in S |-> f[x]]
In(phases) == {r \in DOMAIN live : live[r].state \in phases}
Waiters(r) == {w \in DOMAIN waits : waits[w] = r}
Without(S) == SelectSeq(queue, LAMBDA r : r \notin S)

Init == issued = {} /\ live = <<>> /\ waits = <<>> /\ queue = <<>>

\* The coalescing window of handler h and key k.
Joinable(h, k) == {r \in DOMAIN live : /\ live[r].handler = h /\ live[r].key = k
                                       /\ live[r].state # "Visible"}

Admit(h, k) ==
    \E w \in WaiterIds \ issued, r \in RequestIds :
        /\ waits' = [v \in DOMAIN waits \cup {w} |-> IF v = w THEN r ELSE waits[v]]
        /\ \/ /\ r \in Joinable(h, k)
              /\ issued' = issued \cup {w} /\ UNCHANGED <<live, queue>>
           \/ /\ Joinable(h, k) = {} /\ r \notin issued
              /\ issued' = issued \cup {w, r} /\ queue' = Append(queue, r)
              /\ live' = [x \in DOMAIN live \cup {r} |->
                             IF x # r THEN live[x]
                             ELSE [key |-> k, handler |-> h,
                                   state |-> "Pending", result |-> None]]

\* The oldest undelivered request of h goes to its handler.
Claim(h) ==
    \E i \in 1 .. Len(queue) :
        LET r == queue[i] IN
        /\ live[r].handler = h
        /\ \A j \in 1 .. i - 1 : live[queue[j]].handler # h
        /\ live' = [live EXCEPT ![r].state = IF @ = "Pending" THEN "Delivered"
                                             ELSE "DeferredDelivered"]
        /\ queue' = Without({r})
        /\ UNCHANGED <<issued, waits>>

\* The open requests of C get result c, now visible or deferred, and the
\* deferred ones of D become visible.
Settle(C, D, c, visible) ==
    LET shown == D \cup (IF visible THEN C ELSE {}) IN
    /\ C \cup D # {}
    /\ live' = [r \in DOMAIN live |->
                   LET now == live[r].state IN
                   [live[r] EXCEPT
                      !.result = IF r \in C THEN c ELSE @,
                      !.state = IF r \in shown THEN "Visible"
                                ELSE IF r \notin C THEN now
                                ELSE IF now = "Pending" THEN "DeferredPending"
                                ELSE "DeferredDelivered"]]
    /\ queue' = Without(shown)
    /\ UNCHANGED <<issued, waits>>

\* A waiter leaves, with its result or by cancellation; the last one takes the
\* request with it.
Leave(w) ==
    LET r == waits[w] IN
    /\ waits' = Only(waits, DOMAIN waits \ {w})
    /\ IF Waiters(r) = {w}
       THEN live' = Only(live, DOMAIN live \ {r}) /\ queue' = Without({r})
       ELSE UNCHANGED <<live, queue>>
    /\ UNCHANGED issued

Close == live' = <<>> /\ waits' = <<>> /\ queue' = <<>> /\ UNCHANGED issued

Next ==
    \/ \E h \in Handlers, k \in Keys : Admit(h, k)
    \/ \E h \in Handlers : Claim(h)
    \/ \E C \in SUBSET In(Open), D \in SUBSET In(Deferred), c \in Results, v \in BOOLEAN :
           Settle(C, D, c, v)
    \/ \E w \in DOMAIN waits : Leave(w)
    \/ Close

Safety == Init /\ [][Next]_vars
=============================================================================
