---------------------------- MODULE FaultBroker ----------------------------
(***************************************************************************)
(* thekernel-axfault: a FaultBroker of preallocated request and waiter     *)
(* slots, tagged with generations and linked into a delivery FIFO and into *)
(* one list of waiters per request, and the credit pool it shares with     *)
(* other brokers.  A method takes &mut self under the adapter's lock, so   *)
(* each is one action; a refused call changes nothing.                     *)
(***************************************************************************)
EXTENDS Integers, Sequences, FiniteSets

CONSTANTS RequestSlots, WaiterSlots,  \* capacities, as numbers of slots
          Handlers, Keys, Results, None,
          PoolCapacity,   \* capacity of the RequestCreditPool
          MaxGeneration,  \* largest generation of a slot (u64::MAX)
          MaxOthers       \* bound: credits other brokers hold

ASSUME BrokerAssumption ==
    /\ {RequestSlots, WaiterSlots, PoolCapacity, MaxGeneration, MaxOthers} \subseteq Nat
    /\ None \notin Results

VARIABLES
    requests,   \* slot -> RequestRecord; state "Free" when there is none
    waiters,    \* slot -> WaiterRecord; request Nil when there is none
    head, tail, \* pending_head, pending_tail
    rgen, wgen, \* generation of each slot
    pool,       \* live_requests of the pool
    others,     \* ghost: the part of it other brokers own
    alive       \* the broker has not been dropped

slots == <<requests, waiters, head, tail>>
vars == <<slots, rgen, wgen, pool, others, alive>>

Nil == -1
RSlots == 0 .. RequestSlots - 1
WSlots == 0 .. WaiterSlots - 1
Smallest(S) == CHOOSE x \in S : \A y \in S : x <= y

NoRequest == [state |-> "Free", key |-> None, handler |-> None, result |-> None,
              first |-> Nil, last |-> Nil, count |-> 0, prev |-> Nil, next |-> Nil]
NoWaiter == [request |-> Nil, gen |-> 0, ready |-> FALSE, result |-> None,
             prev |-> Nil, next |-> Nil]

Live == {i \in RSlots : requests[i].state # "Free"}

Empty ==
    /\ requests = [i \in RSlots |-> NoRequest] /\ waiters = [w \in WSlots |-> NoWaiter]
    /\ head = Nil /\ tail = Nil

Init ==
    /\ Empty /\ rgen = [i \in RSlots |-> 0] /\ wgen = [w \in WSlots |-> 0]
    /\ others \in 0 .. MaxOthers /\ others <= PoolCapacity /\ pool = others
    /\ alive = TRUE

-----------------------------------------------------------------------------
(* The private transitions, as functions of the four slot arrays and ends.  *)

Now == [requests |-> requests, waiters |-> waiters, head |-> head, tail |-> tail]
Become(s) == /\ requests' = s.requests /\ waiters' = s.waiters
             /\ head' = s.head /\ tail' = s.tail

\* Mutation: the tail of the FIFO is left behind.
UnlinkKeepingTail(s, i) ==
    LET p == s.requests[i].prev
        n == s.requests[i].next IN
    [s EXCEPT !.head = IF p = Nil THEN n ELSE @,
              !.requests = [j \in RSlots |->
                 [@[j] EXCEPT !.next = IF j = p THEN n ELSE IF j = i THEN Nil ELSE @,
                              !.prev = IF j = n THEN p ELSE IF j = i THEN Nil ELSE @]]]

\* unlink_pending.
Unlink(s, i) ==
    LET p == s.requests[i].prev
        n == s.requests[i].next IN
    [s EXCEPT !.head = IF p = Nil THEN n ELSE @,
              !.tail = IF n = Nil THEN p ELSE @,
              !.requests = [j \in RSlots |->
                 [@[j] EXCEPT !.next = IF j = p THEN n ELSE IF j = i THEN Nil ELSE @,
                              !.prev = IF j = n THEN p ELSE IF j = i THEN Nil ELSE @]]]

\* The slots on a list that starts at h, after at most n links.
Chain(h, links, n) ==
    LET at[k \in 0 .. n] == IF k = 0 THEN {h} \ {Nil}
                            ELSE at[k - 1] \cup ({links[x].next : x \in at[k - 1]} \ {Nil})
    IN at[n]

\* publish_waiters.
PublishWaiters(s, i, c) ==
    LET told == Chain(s.requests[i].first, s.waiters, WaiterSlots) IN
    [s EXCEPT !.waiters = [w \in WSlots |->
        IF w \in told /\ ~@[w].ready THEN [@[w] EXCEPT !.ready = TRUE, !.result = c]
                                     ELSE @[w]]]

Put(s, i, state, c) ==
    [s EXCEPT !.requests[i].state = state, !.requests[i].result = c]

\* complete_slot.
CompleteSlot(s, i, c, visible) ==
    CASE s.requests[i].state = "Pending" /\ visible ->
             PublishWaiters(Put(Unlink(s, i), i, "Visible", c), i, c)
      [] s.requests[i].state = "Delivered" /\ visible ->
             PublishWaiters(Put(s, i, "Visible", c), i, c)
      [] s.requests[i].state = "Pending" /\ ~visible -> Put(s, i, "DeferredPending", c)
      [] s.requests[i].state = "Delivered" /\ ~visible -> Put(s, i, "DeferredDelivered", c)
      [] OTHER -> s

\* release_slot.
ReleaseSlot(s, i) ==
    LET c == s.requests[i].result IN
    CASE s.requests[i].state = "DeferredPending" ->
             PublishWaiters(Put(Unlink(s, i), i, "Visible", c), i, c)
      [] s.requests[i].state = "DeferredDelivered" ->
             PublishWaiters(Put(s, i, "Visible", c), i, c)
      [] OTHER -> s

\* The loops over the request slots, in slot order.
CompleteEach(s, S, c, visible) ==
    LET upto[n \in 0 .. RequestSlots] ==
            IF n = 0 THEN s
            ELSE IF n - 1 \in S THEN CompleteSlot(upto[n - 1], n - 1, c, visible)
            ELSE upto[n - 1]
    IN upto[RequestSlots]

ReleaseEach(s, S) ==
    LET upto[n \in 0 .. RequestSlots] ==
            IF n = 0 THEN s ELSE IF n - 1 \in S THEN ReleaseSlot(upto[n - 1], n - 1)
            ELSE upto[n - 1]
    IN upto[RequestSlots]

-----------------------------------------------------------------------------
(* Admission.                                                               *)

\* choose_request_slot and choose_waiter_slot: the first free slot whose
\* generation can still grow.
FreeRequests == {i \in RSlots : requests[i].state = "Free" /\ rgen[i] < MaxGeneration}
FreeWaiters == {w \in WSlots : waiters[w].request = Nil /\ wgen[w] < MaxGeneration}

\* matching_request.
Matching(h, k) ==
    {i \in RSlots : /\ requests[i].state \notin {"Free", "Visible"}
                    /\ requests[i].handler = h /\ requests[i].key = k}

\* The checks of admit that would report InconsistentState.
WaitersSound(i) ==
    LET r == requests[i] IN
    /\ r.count \in 1 .. WaiterSlots - 1 /\ r.first # Nil /\ r.last # Nil
    /\ waiters[r.last].request = i /\ waiters[r.last].gen = rgen[i]
    /\ waiters[r.last].next = Nil

PendingSound ==
    /\ (head = Nil) <=> (tail = Nil)
    /\ tail # Nil => /\ requests[tail].state \in {"Pending", "DeferredPending"}
                     /\ requests[tail].next = Nil

\* A waiter of slot w behind the last one of request i.
Join(s, i, w, gen) ==
    LET last == s.requests[i].last IN
    [s EXCEPT !.waiters = [v \in WSlots |->
                  IF v = w THEN [NoWaiter EXCEPT !.request = i, !.gen = gen, !.prev = last]
                  ELSE IF v = last THEN [@[v] EXCEPT !.next = w] ELSE @[v]],
              !.requests[i].first = IF @ = Nil THEN w ELSE @,
              !.requests[i].last = w,
              !.requests[i].count = @ + 1]

\* admit joins the request of its key ...
AdmitWaiter(h, k) ==
    /\ alive /\ Matching(h, k) # {} /\ FreeWaiters # {}
    /\ LET i == Smallest(Matching(h, k))
           w == Smallest(FreeWaiters) IN
       /\ WaitersSound(i)
       /\ Become(Join(Now, i, w, rgen[i]))
       /\ wgen' = [wgen EXCEPT ![w] = @ + 1]
    /\ UNCHANGED <<rgen, pool, others, alive>>

\* ... or makes one, at the end of the FIFO, for one credit.
AdmitRequest(h, k) ==
    /\ alive /\ Matching(h, k) = {} /\ FreeRequests # {} /\ FreeWaiters # {}
    /\ PendingSound /\ pool < PoolCapacity
    /\ LET i == Smallest(FreeRequests)
           w == Smallest(FreeWaiters)
           made == [Now EXCEPT
                      !.requests = [j \in RSlots |->
                          IF j = i THEN [NoRequest EXCEPT !.state = "Pending", !.key = k,
                                            !.handler = h, !.prev = tail]
                          ELSE IF j = tail THEN [@[j] EXCEPT !.next = i] ELSE @[j]],
                      !.head = IF tail = Nil THEN i ELSE @,
                      !.tail = i] IN
       /\ Become(Join(made, i, w, rgen[i] + 1))
       /\ rgen' = [rgen EXCEPT ![i] = @ + 1] /\ wgen' = [wgen EXCEPT ![w] = @ + 1]
    /\ pool' = pool + 1
    /\ UNCHANGED <<others, alive>>

-----------------------------------------------------------------------------
(* Delivery and completion.                                                 *)

\* The FIFO, walked from its head.
Queue ==
    LET walk[n \in 0 .. RequestSlots] ==
            IF n = 0 THEN [at |-> head, seen |-> <<>>]
            ELSE LET p == walk[n - 1] IN
                 IF p.at = Nil THEN p
                 ELSE [at |-> requests[p.at].next, seen |-> Append(p.seen, p.at)]
    IN walk[RequestSlots].seen

\* Mutation: any pending request of the handler is delivered.
ClaimAny(h) ==
    /\ alive
    /\ \E i \in RSlots :
         /\ requests[i].handler = h /\ requests[i].state \in {"Pending", "DeferredPending"}
         /\ Become([Unlink(Now, i) EXCEPT !.requests[i].state =
                       IF @ = "Pending" THEN "Delivered" ELSE "DeferredDelivered"])
    /\ UNCHANGED <<rgen, wgen, pool, others, alive>>

\* claim_next.
ClaimNext(h) ==
    /\ alive
    /\ \E n \in 1 .. Len(Queue) :
         LET i == Queue[n] IN
         /\ requests[i].handler = h
         /\ requests[i].state \in {"Pending", "DeferredPending"}
         /\ \A m \in 1 .. n - 1 :
                \/ requests[Queue[m]].handler # h
                \/ requests[Queue[m]].state \notin {"Pending", "DeferredPending"}
         /\ Become([Unlink(Now, i) EXCEPT !.requests[i].state =
                       IF @ = "Pending" THEN "Delivered" ELSE "DeferredDelivered"])
    /\ UNCHANGED <<rgen, wgen, pool, others, alive>>

Settled == UNCHANGED <<rgen, wgen, pool, others, alive>>

OpenIn(s) == {i \in RSlots : s.requests[i].state \in {"Pending", "Delivered"}}
DeferredIn(s) ==
    {i \in RSlots : s.requests[i].state \in {"DeferredPending", "DeferredDelivered"}}

\* request_index: the token of generation g names the record now in slot i.
Current(i, g) == rgen[i] = g /\ requests[i].state # "Free"

\* complete.
Complete(i, g, c, visible) ==
    /\ alive /\ Current(i, g) /\ i \in OpenIn(Now)
    /\ Become(CompleteSlot(Now, i, c, visible)) /\ Settled

\* complete_where and complete_range, whose predicate accepts the slots of S.
CompleteWhere(S, c, visible) ==
    /\ alive /\ S \cap OpenIn(Now) # {}
    /\ Become(CompleteEach(Now, S \cap OpenIn(Now), c, visible)) /\ Settled

\* release, of a deferred result.
Release(i, g) ==
    /\ alive /\ Current(i, g) /\ i \in DeferredIn(Now)
    /\ Become(ReleaseSlot(Now, i)) /\ Settled

\* release_where and release_range.
ReleaseWhere(S) ==
    /\ alive /\ S \cap DeferredIn(Now) # {}
    /\ Become(ReleaseEach(Now, S \cap DeferredIn(Now))) /\ Settled

Owned(h) == {i \in RSlots : requests[i].state # "Free" /\ requests[i].handler = h}

\* detach_handler.
DetachHandler(h, c) ==
    /\ alive /\ Owned(h) \cap (OpenIn(Now) \cup DeferredIn(Now)) # {}
    /\ LET done == CompleteEach(Now, Owned(h) \cap OpenIn(Now), c, TRUE) IN
       Become(ReleaseEach(done, Owned(h) \cap DeferredIn(done)))
    /\ Settled

-----------------------------------------------------------------------------
(* Waiters leave; the last one reclaims the request and its credit.         *)

\* The checks of remove_waiter that would report InconsistentState.
RemoveSound(w) ==
    LET x == waiters[w] IN
    /\ Current(x.request, x.gen) /\ requests[x.request].count > 0
    /\ \A v \in {x.prev, x.next} \ {Nil} : waiters[v].request # Nil

\* reclaim_request, its credit aside.
Reclaim(s, i) ==
    LET out == IF s.requests[i].state \in {"Pending", "DeferredPending"}
               THEN Unlink(s, i) ELSE s IN
    [out EXCEPT !.requests[i] = NoRequest]

\* Mutation: the predecessor keeps its link to the removed waiter.
DetachWaiterHalf(s, w) ==
    LET x == s.waiters[w]
        i == x.request IN
    [s EXCEPT !.waiters = [v \in WSlots |->
                  IF v = w THEN NoWaiter
                  ELSE [@[v] EXCEPT !.prev = IF v = x.next THEN x.prev ELSE @]],
              !.requests[i].first = IF @ = w THEN x.next ELSE @,
              !.requests[i].last = IF @ = w THEN x.prev ELSE @,
              !.requests[i].count = @ - 1]

\* remove_waiter up to the reclamation.
DetachWaiter(s, w) ==
    LET x == s.waiters[w]
        i == x.request IN
    [s EXCEPT !.waiters = [v \in WSlots |->
                  IF v = w THEN NoWaiter
                  ELSE [@[v] EXCEPT !.next = IF v = x.prev THEN x.next ELSE @,
                                    !.prev = IF v = x.next THEN x.prev ELSE @]],
              !.requests[i].first = IF @ = w THEN x.next ELSE @,
              !.requests[i].last = IF @ = w THEN x.prev ELSE @,
              !.requests[i].count = @ - 1]

\* remove_waiter.
RemoveWaiter(w) ==
    LET i == waiters[w].request
        s == DetachWaiter(Now, w)
        last == s.requests[i].count = 0 IN
    /\ RemoveSound(w)
    /\ Become(IF last THEN Reclaim(s, i) ELSE s)
    /\ pool' = IF last THEN pool - 1 ELSE pool
    /\ UNCHANGED <<rgen, wgen, others, alive>>

CurrentWaiter(w, g) == wgen[w] = g /\ waiters[w].request # Nil

\* cancel_waiter.
CancelWaiter(w, g) == alive /\ CurrentWaiter(w, g) /\ RemoveWaiter(w)

\* take_waiter_completion.
TakeWaiterCompletion(w, g) ==
    alive /\ CurrentWaiter(w, g) /\ waiters[w].ready /\ RemoveWaiter(w)

\* Mutation: only the open requests return their credits.
DropOpen ==
    /\ alive /\ alive' = FALSE
    /\ pool' = pool - Cardinality(OpenIn(Now))
    /\ requests' = [i \in RSlots |-> NoRequest] /\ waiters' = [w \in WSlots |-> NoWaiter]
    /\ head' = Nil /\ tail' = Nil
    /\ UNCHANGED <<rgen, wgen, others>>

\* Drop for FaultBroker.
Drop ==
    /\ alive /\ alive' = FALSE
    /\ pool' = pool - Cardinality(Live)
    /\ requests' = [i \in RSlots |-> NoRequest] /\ waiters' = [w \in WSlots |-> NoWaiter]
    /\ head' = Nil /\ tail' = Nil
    /\ UNCHANGED <<rgen, wgen, others>>

\* try_acquire and release_exact, called by the other brokers of the pool.
OthersAcquire ==
    /\ others < MaxOthers /\ pool < PoolCapacity
    /\ pool' = pool + 1 /\ others' = others + 1 /\ UNCHANGED <<slots, rgen, wgen, alive>>

OthersRelease ==
    /\ others > 0
    /\ pool' = pool - 1 /\ others' = others - 1 /\ UNCHANGED <<slots, rgen, wgen, alive>>

Next ==
    \/ \E h \in Handlers, k \in Keys : AdmitWaiter(h, k) \/ AdmitRequest(h, k)
    \/ \E h \in Handlers : ClaimNext(h)
    \/ \E i \in RSlots, g \in 1 .. MaxGeneration, c \in Results, v \in BOOLEAN :
           Complete(i, g, c, v)
    \/ \E S \in SUBSET RSlots, c \in Results, v \in BOOLEAN : CompleteWhere(S, c, v)
    \/ \E i \in RSlots, g \in 1 .. MaxGeneration : Release(i, g)
    \/ \E S \in SUBSET RSlots : ReleaseWhere(S)
    \/ \E h \in Handlers, c \in Results : DetachHandler(h, c)
    \/ \E w \in WSlots, g \in 1 .. MaxGeneration :
           CancelWaiter(w, g) \/ TakeWaiterCompletion(w, g)
    \/ Drop
    \/ OthersAcquire \/ OthersRelease

Spec == Init /\ [][Next]_vars

-----------------------------------------------------------------------------
(* Properties.                                                              *)

Phases == {"Free", "Pending", "Delivered", "DeferredPending", "DeferredDelivered", "Visible"}
Links(S) == S \cup {Nil}

\* Slots, links, generations and credits stay within the broker's capacities.
TypeOK ==
    /\ requests \in [RSlots -> [state : Phases, key : Keys \cup {None},
           handler : Handlers \cup {None}, result : Results \cup {None},
           first : Links(WSlots), last : Links(WSlots), count : 0 .. WaiterSlots,
           prev : Links(RSlots), next : Links(RSlots)]]
    /\ waiters \in [WSlots -> [request : Links(RSlots), gen : 0 .. MaxGeneration,
           ready : BOOLEAN, result : Results \cup {None},
           prev : Links(WSlots), next : Links(WSlots)]]
    /\ head \in Links(RSlots) /\ tail \in Links(RSlots)
    /\ rgen \in [RSlots -> 0 .. MaxGeneration] /\ wgen \in [WSlots -> 0 .. MaxGeneration]
    /\ pool \in 0 .. PoolCapacity /\ others \in 0 .. MaxOthers /\ alive \in BOOLEAN

\* Whatever sequence of calls, no call meets a state it would answer with
\* InconsistentState, and the FIFO links exactly the undelivered requests, so
\* that what pending_count reports is what claim_next can find.
NeverInconsistent ==
    /\ TypeOK /\ PendingSound
    /\ \A i \in RSlots : requests[i].state \in {"Pending", "Delivered", "DeferredPending",
                            "DeferredDelivered"} /\ FreeWaiters # {} => WaitersSound(i)
    /\ \A w \in WSlots : waiters[w].request # Nil => RemoveSound(w)
    /\ Chain(head, requests, RequestSlots)
         = {i \in RSlots : requests[i].state \in {"Pending", "DeferredPending"}}
    /\ Len(Queue) = Cardinality(Chain(head, requests, RequestSlots))

\* A waiter is ready exactly when its own request is visible, and with that
\* request's result; a request lives exactly as long as it has waiters, and
\* counts them all, across every split, cancellation and slot reuse.  At most
\* one live request of a handler and key has a result that is not visible yet,
\* so that equal faults are never delivered twice in one window.
WaitersObserve ==
    /\ \A w \in WSlots : waiters[w].request # Nil =>
           LET i == waiters[w].request IN
           /\ Current(i, waiters[w].gen)
           /\ waiters[w].ready <=> requests[i].state = "Visible"
           /\ waiters[w].ready => waiters[w].result = requests[i].result
    /\ \A i \in RSlots :
           LET mine == {w \in WSlots : waiters[w].request = i} IN
           /\ requests[i].count = Cardinality(mine)
           /\ (mine # {}) <=> (i \in Live)
           /\ Chain(requests[i].first, waiters, WaiterSlots) = mine
    /\ \A i, j \in OpenIn(Now) \cup DeferredIn(Now) :
           requests[i].handler = requests[j].handler /\ requests[i].key = requests[j].key
               => i = j

\* The pool counts one credit per live request of every broker, so that
\* release_exact never underflows and the ceiling is never passed, also when a
\* broker with live requests is dropped.
CreditsMatch == pool = others + Cardinality(Live) /\ pool <= PoolCapacity

\* The slots as requests and waiters with an identity of their own.
Promise == INSTANCE FaultPromise WITH
    RequestIds <- {"request"} \X RSlots \X (1 .. MaxGeneration),
    WaiterIds <- {"waiter"} \X WSlots \X (1 .. MaxGeneration),
    issued <- {r \in {"request"} \X RSlots \X (1 .. MaxGeneration) : r[3] <= rgen[r[2]]}
              \cup {w \in {"waiter"} \X WSlots \X (1 .. MaxGeneration) : w[3] <= wgen[w[2]]},
    live <- [r \in {<<"request", i, rgen[i]>> : i \in Live} |->
                [key |-> requests[r[2]].key, handler |-> requests[r[2]].handler,
                 state |-> requests[r[2]].state, result |-> requests[r[2]].result]],
    waits <- [w \in {<<"waiter", v, wgen[v]>> : v \in {v \in WSlots : waiters[v].request # Nil}}
                |-> <<"request", waiters[w[2]].request, waiters[w[2]].gen>>],
    queue <- [n \in 1 .. Len(Queue) |-> <<"request", Queue[n], rgen[Queue[n]]>>]

\* The broker keeps the promise of FaultPromise: coalescing, delivery in
\* arrival order and at most once, one immutable result, and identities that
\* are never reused, for every history of calls.
KeepsPromise == Promise!Safety
=============================================================================
