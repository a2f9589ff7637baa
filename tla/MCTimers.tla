------------------------------ MODULE MCTimers ------------------------------
(* A small instance of the two registries one timer tick serves: the       *)
(* persistent callbacks (TimerCallbacks) and the deadlines of timer        *)
(* futures (TimerFutures).  They have their own locks and share no state,  *)
(* so a behaviour steps one of them, `part`, chosen at the start.          *)
EXTENDS TimerCallbacks

CONSTANTS Users, u1, u2, FutureCapacity, FutureGenerations, MaxTime

VARIABLES part, fgen, due, waker, occupied, fnext, flen, now, firing, pc, kind,
          until, token, woken, ready, result, calls

\* Bound: one user makes a second call, the other one.
CallsOf == [u \in Users |-> IF u = u1 THEN 2 ELSE 1]

F == INSTANCE TimerFutures
     WITH MaxCalls <- CallsOf, Capacity <- FutureCapacity, MaxGeneration <- FutureGenerations,
          gen <- fgen, next <- fnext, len <- flen

futures == <<fgen, due, waker, occupied, fnext, flen, now, firing, pc, kind,
             until, token, woken, ready, result, calls>>
all == <<part, vars, futures>>

MCInit == part \in {"callbacks", "futures"} /\ Init /\ F!Init

\* What a step of the other part leaves alone.
InCallbacks == part = "callbacks" /\ UNCHANGED <<part, futures>>
InFutures == part = "futures" /\ UNCHANGED <<part, vars>>

MCNext == (InCallbacks /\ Next) \/ (InFutures /\ F!Next)

MCSpec ==
    /\ MCInit /\ [][MCNext]_all
    /\ WF_all(InCallbacks /\ BeginDispatch) /\ WF_all(InCallbacks /\ Dispatch)
    /\ WF_all(InFutures /\ F!Advance) /\ WF_all(InFutures /\ F!Tick)
    /\ \A u \in Users : WF_all(InFutures /\ F!UserStep(u))

-----------------------------------------------------------------------------
(* The properties of TimerFutures, under this module's names.              *)

\* Both registries keep their types and their accounts: live counts the callbacks
\* that are registered and not closing, a deadline slot is refunded exactly once
\* and never by a stale token, and a slot keeps a waker only inside a session of
\* its owner (TimerCallbacks::register, TimerRuntime::reserve and cancel).
TypesOK == /\ TypeOK /\ LiveExact
           /\ F!TypeOK /\ F!SlotsAccounted /\ F!WakersBelongToSessions

\* See TimerFutures: what race and sleep report of a deadline is right.
ElapsedIsRight == F!ElapsedIsRight

\* See TimerFutures: every wait on a deadline ends.
WaitsEnd == F!WaitsEnd
=============================================================================
