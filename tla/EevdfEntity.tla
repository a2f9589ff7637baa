---------------------------- MODULE EevdfEntity ----------------------------
(***************************************************************************)
(* The pure request/clock/entity arithmetic of thekernel-axsched's         *)
(* eevdf_model.rs, as operators on records.  Numbers are exact integers:   *)
(* EevdfArith checks that the checked 128-bit helpers of the same file     *)
(* return exactly these quotients, and the i128 range (2^85 ticks of       *)
(* service) is not exhausted by any behaviour of a machine.                *)
(*                                                                         *)
(* A request keeps its quantum q, the exact remaining fraction num/den in  *)
(* lowest terms, its virtual start and deadline; remaining_work,           *)
(* remaining_ticks and virtual_length are functions of these (projection,  *)
(* checked_virtual_length), so the checks of exact_valid hold by           *)
(* construction.  The clock's accounted_ticks is a statistic and is left   *)
(* out.                                                                    *)
(***************************************************************************)
EXTENDS Integers

CONSTANTS
  ONE,          \* fixed-point units per tick (2^32 in the code)
  NICE_0,       \* the weight of nice 0 (1024 in the code)
  TargetTicks,  \* RequestClass::target_ticks: class -> ticks
  GRACE,        \* virtual time a sleeper keeps its lag in full
  DECAY_WINDOW  \* virtual time over which the lag then decays to zero

WORK == NICE_0 * ONE
Awake == -1     \* sleeper_v = None; virtual time is never negative

\* The larger and the smaller of two numbers.
Hi(a, b) == IF a >= b THEN a ELSE b
Lo(a, b) == IF a <= b THEN a ELSE b
Abs(a) == IF a >= 0 THEN a ELSE -a

CeilDiv(a, b) == (a + b - 1) \div b

RoundNearestEven(a, b, d) ==
  LET q == (a * b) \div d
      r == (a * b) % d
  IN  IF 2 * r > d \/ (2 * r = d /\ q % 2 = 1) THEN q + 1 ELSE q

(***************************************************************************)
(* Requests.                                                               *)
(***************************************************************************)
checked_work(ticks) == ticks * WORK
checked_virtual_length(q, weight) == CeilDiv(q * WORK, weight)
checked_lag_at(lag, stamp, weight, v) == lag + weight * (v - stamp)

request_quantum(class, weight, total) ==
  IF weight >= total
  THEN TargetTicks[class]
  ELSE Lo(Hi(CeilDiv(TargetTicks[class] * weight, total), 1), TargetTicks[class])

signed_ceil_neg_div(value, d) ==
  IF value >= 0 THEN -(value \div d) ELSE CeilDiv(-value, d)

request_start(v, lag, weight) == v + signed_ceil_neg_div(lag, weight)

projection(q, num, den) ==
  LET work == CeilDiv(num * q * WORK, den)
  IN  [work |-> work, ticks |-> CeilDiv(work, WORK)]

remaining(r) == projection(r.q, r.num, r.den).ticks
is_exhausted(r) == r.num = 0

remaining_virtual_length(r, weight) ==
  CeilDiv(r.num * r.q * WORK, r.den * weight)

set_fraction(r, num, den) ==
  LET common == {d \in 1..den : num % d = 0 /\ den % d = 0}
      gcd == CHOOSE d \in common : \A e \in common : e <= d
  IN  [r EXCEPT !.num = num \div gcd, !.den = den \div gcd]

\* consume_work_up_to: service saturates at the boundary of the request.
next_after_service(r, work) ==
  LET ticks == work \div NICE_0
      full == r.q * ONE
  IN  IF ticks * r.den >= r.num * full
      THEN set_fraction(r, 0, 1)
      ELSE set_fraction(r, r.num * full - ticks * r.den, r.den * full)

RequestNew(class, weight, total, v, lag) ==
  LET q == request_quantum(class, weight, total)
      start == request_start(v, lag, weight)
  IN  [q |-> q, num |-> 1, den |-> 1, start |-> start,
       deadline |-> start + checked_virtual_length(q, weight)]

yielded(r, class, weight, total, v, lag) ==
  LET next == RequestNew(class, weight, total, v, lag)
      start == Hi(next.start, r.deadline)
  IN  [next EXCEPT !.start = start,
                   !.deadline = start + checked_virtual_length(next.q, weight)]

\* A request moved to a new anchor keeps its completed fraction.
Anchored(r, weight, v, lag) ==
  LET start == request_start(v, lag, weight)
  IN  [r EXCEPT !.start = start,
                !.deadline = start + remaining_virtual_length(r, weight)]

reconfigured_request(r, q, weight, anchor, lag) ==
  Anchored([r EXCEPT !.q = q], weight, anchor, lag)

(***************************************************************************)
(* The queue clock: virtual time v, the residue of work not yet a whole    *)
(* unit of v, and the total weight of the runnable fair entities.          *)
(***************************************************************************)
ClockNew == [v |-> 0, rem |-> 0, W |-> 0]

preview_work(c, work) ==
  [c EXCEPT !.v = c.v + ((work + c.rem) \div c.W), !.rem = (work + c.rem) % c.W]

jump_to(c, v) == [c EXCEPT !.v = v]

set_total_weight(c, total) ==
  LET rounded == RoundNearestEven(c.rem, total, c.W)
  IN  IF c.W = total THEN c
      ELSE IF c.W = 0 \/ total = 0 THEN [c EXCEPT !.W = total, !.rem = 0]
      ELSE IF rounded = total THEN [v |-> c.v + 1, rem |-> 0, W |-> total]
      ELSE [c EXCEPT !.W = total, !.rem = rounded]

checked_add_weight(c, weight) == set_total_weight(c, c.W + weight)
checked_sub_weight(c, weight) == set_total_weight(c, c.W - weight)

(***************************************************************************)
(* Sleeper credit.                                                         *)
(***************************************************************************)
credit_cap(class) == TargetTicks[class] * WORK
Clamp(lag, class) == Hi(Lo(lag, credit_cap(class)), -credit_cap(class))

bounded_sleeper_decay(class, lag, elapsed) ==
  LET capped == Lo(lag, credit_cap(class))
      beyond == elapsed - GRACE
      scaled == CeilDiv(Abs(capped) * (DECAY_WINDOW - beyond), DECAY_WINDOW)
  IN  IF beyond <= 0 THEN capped
      ELSE IF beyond >= DECAY_WINDOW THEN 0
      ELSE IF capped < 0 THEN -scaled
      ELSE Lo(scaled, credit_cap(class))

(***************************************************************************)
(* Entities.                                                               *)
(***************************************************************************)
with_lag(class, weight, total, v, lag) ==
  [class |-> class, weight |-> weight, lag |-> lag, stamp |-> v,
   req |-> RequestNew(class, weight, total, v, lag), slept |-> Awake]

is_sleeping(e) == e.slept # Awake

rebind_request_quantum(e, q) ==
  LET anchor == IF is_sleeping(e) THEN e.slept ELSE e.stamp
  IN  [e EXCEPT !.req = reconfigured_request(e.req, q, e.weight, anchor, e.lag),
                !.stamp = anchor]

rebind_default_request_quantum(e, total) ==
  rebind_request_quantum(e, request_quantum(e.class, e.weight, total))

lag_at(e, v) ==
  IF is_sleeping(e) THEN e.lag ELSE checked_lag_at(e.lag, e.stamp, e.weight, v)

freeze_at(e, v) ==
  IF is_sleeping(e) THEN e ELSE [e EXCEPT !.lag = lag_at(e, v), !.stamp = v]

eligible_at(e) ==
  IF e.lag >= 0 THEN e.stamp ELSE e.stamp + CeilDiv(-e.lag, e.weight)

is_eligible(e, v) == lag_at(e, v) >= 0

\* Whole and fractional service in one transaction: the clock advances, the
\* entity is charged, its request is consumed.
service_work(ticks, fraction) == checked_work(ticks) + fraction * NICE_0

ServiceClock(c, ticks, fraction) == preview_work(c, service_work(ticks, fraction))

\* Mutation: the charge is taken from the lag at the old virtual time.
service_old_v(e, c, ticks, fraction) ==
  LET work == service_work(ticks, fraction)
      next == ServiceClock(c, ticks, fraction)
  IN  [e EXCEPT !.lag = lag_at(e, c.v) - work, !.stamp = next.v,
                !.req = next_after_service(e.req, work)]

service(e, c, ticks, fraction) ==
  LET work == service_work(ticks, fraction)
      next == ServiceClock(c, ticks, fraction)
  IN  [e EXCEPT !.lag = lag_at(e, next.v) - work, !.stamp = next.v,
                !.req = next_after_service(e.req, work)]

renew(e, total, v) ==
  LET lag == lag_at(e, v)
  IN  [e EXCEPT !.lag = lag, !.stamp = v,
                !.req = RequestNew(e.class, e.weight, total, v, lag)]

yield_request(e, total, v) ==
  LET lag == lag_at(e, v)
  IN  [e EXCEPT !.lag = lag, !.stamp = v,
                !.req = yielded(e.req, e.class, e.weight, total, v, lag)]

begin_sleep(e, v) ==
  [e EXCEPT !.lag = Lo(lag_at(e, v), credit_cap(e.class)), !.stamp = v, !.slept = v]

begin_sleep_frozen(e, v) == [e EXCEPT !.stamp = v, !.slept = v]

\* Refused (no step) when the clock is behind the sleep anchor.
CanWakeAt(e, v) == ~is_sleeping(e) \/ v >= e.slept

end_sleep_frozen(e, v) == [e EXCEPT !.stamp = v, !.slept = Awake]

wake_preserving_progress(e, v) ==
  LET lag == bounded_sleeper_decay(e.class, e.lag, v - e.slept)
  IN  [e EXCEPT !.lag = lag, !.stamp = v, !.slept = Awake,
                !.req = Anchored(e.req, e.weight, v, lag)]

activate_preserving_progress(e, v) ==
  LET lag == lag_at(e, v)
  IN  [e EXCEPT !.lag = lag, !.stamp = v, !.req = Anchored(e.req, e.weight, v, lag)]

Reconfigured(e, class, weight, total, anchor, lag) ==
  [class |-> class, weight |-> weight, lag |-> lag, stamp |-> anchor,
   req |-> reconfigured_request(e.req, request_quantum(class, weight, total),
                                weight, anchor, lag),
   slept |-> e.slept]

reconfigure(e, class, weight, total, v) ==
  Reconfigured(e, class, weight, total, v, lag_at(e, v))

reconfigure_frozen(e, class, weight, total, v) ==
  Reconfigured(e, class, weight, total, v, e.lag)

reconfigure_sleeping(e, class, weight, total) ==
  Reconfigured(e, class, weight, total, e.slept, e.lag)

\* The snapshot is a copy of the entity with its lag materialised at the
\* source clock; request coordinates travel as offsets from that clock.
migration_snapshot(e, v) == [e |-> freeze_at(e, v), source_v |-> v]

CanReconstruct(snap) == snap.e.req.q <= TargetTicks[snap.e.class]

\* Mutation: the request keeps the source queue's coordinates.
from_migration_absolute(snap, v) == [snap.e EXCEPT !.stamp = v]

from_migration(snap, v) ==
  [snap.e EXCEPT !.stamp = v,
                 !.req = [@ EXCEPT !.start = v + (@ - snap.source_v),
                                   !.deadline = v + (@ - snap.source_v)]]
=============================================================================
