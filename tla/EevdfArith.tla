----------------------------- MODULE EevdfArith -----------------------------
(***************************************************************************)
(* The fixed-width arithmetic of the EEVDF model (eevdf_model.rs).  Virtual*)
(* time is exact rational arithmetic done in machine words: products that  *)
(* do not fit are divided bit by bit or staged in a value twice as wide,   *)
(* and only a final quotient that does not fit may be refused.             *)
(*                                                                         *)
(* A word (u128) has 2 * LimbBits bits, a Wide four limbs.  A call either  *)
(* returns <<value>> or, where the code answers ArithmeticExhausted, <<>>. *)
(***************************************************************************)
EXTENDS Integers, Sequences

CONSTANTS LimbBits,   \* bits of a limb (u64)
          WordSet,    \* the words the products are tried on
          Factors     \* the words the five-factor ratio is tried on

Limb == 2 ^ LimbBits
Word == 2 ^ (2 * LimbBits)
SignBit == 2 ^ (2 * LimbBits - 1)

VARIABLES op,    \* the function called
          args,  \* its arguments
          out    \* its answer

vars == <<op, args, out>>

-----------------------------------------------------------------------------
(* Words.                                                                  *)

Fit(n) == IF n < Word THEN <<n>> ELSE <<>>
Bit(n, p) == (n \div 2 ^ p) % 2

checked_ceil_div(n, d) ==
    IF n % d = 0 THEN <<n \div d>> ELSE Fit((n \div d) + 1)

\* A signed value times a word; the magnitude is computed in a word and
\* -2^(bits-1) is representable.
checked_mul_i128_u128(v, f) ==
    LET m == (IF v < 0 THEN -v ELSE v) * f
    IN  IF v = 0 THEN <<0>>
        ELSE IF m >= Word THEN <<>>
        ELSE IF v < 0 THEN IF m > SignBit THEN <<>> ELSE <<-m>>
                      ELSE IF m > SignBit - 1 THEN <<>> ELSE <<m>>

\* bias_i128: the two's complement word with its sign bit flipped.
bias_i128(v) ==
    LET w == IF v < 0 THEN v + Word ELSE v
    IN  IF w >= SignBit THEN w - SignBit ELSE w + SignBit

-----------------------------------------------------------------------------
(* Division of (high * Word + low), one bit more than a word.              *)

\* Mutation: the odd divisor forgets that 2 * half is one short of it.
Div129StepLoose(r, b, d) ==
    LET half == d \div 2
    IN  IF r >= half /\ r > 0 THEN <<1, (r - half) * 2 + b>>
        ELSE <<0, r * 2 + b>>

\* One bit: 2r + b against d, never forming 2r + b when it may not fit.
Div129Step(r, b, d) ==
    LET half == d \div 2
    IN  IF d % 2 = 0
        THEN IF r >= half THEN <<1, (r - half) * 2 + b>> ELSE <<0, r * 2 + b>>
        ELSE IF r > half THEN <<1, (r - half) * 2 - 1 + b>>
        ELSE IF r = half /\ b = 1 THEN <<1, 0>>
        ELSE <<0, r * 2 + b>>

\* The loop from position p down; quotient q and remainder r so far.
RECURSIVE Div129From(_, _, _, _, _, _)
Div129From(p, high, low, d, q, r) ==
    IF p < 0 THEN <<[q |-> q, r |-> r]>>
    ELSE LET top == p = 2 * LimbBits
             s == Div129Step(r, IF top THEN high ELSE Bit(low, p), d)
         IN  IF (top /\ s[1] = 1) \/ (~top /\ q > (Word - 1) \div 2) THEN <<>>
             ELSE Div129From(p - 1, high, low, d,
                             IF top THEN q ELSE 2 * q + s[1], s[2])

checked_div_129(high, low, d) ==
    Div129From(2 * LimbBits, high, low, d, 0, 0)

\* Shift a remainder left by one and divide: its top bit becomes `high'.
DivDoubled(r, b, d) ==
    checked_div_129(Bit(r, 2 * LimbBits - 1), ((2 * r) % Word) + b, d)

-----------------------------------------------------------------------------
(* a * b / d.                                                              *)

\* The fallback: binary multiplication of a, dividing at every bit.
RECURSIVE MulDivFrom(_, _, _, _, _, _)
MulDivFrom(p, a, b, d, q, r) ==
    IF p < 0 THEN <<[q |-> q, r |-> r]>>
    ELSE LET dbl == DivDoubled(r, 0, d)
             sum == dbl[1].r + b
             add == IF Bit(a, p) = 1
                    THEN checked_div_129(sum \div Word, sum % Word, d)
                    ELSE <<[q |-> 0, r |-> dbl[1].r]>>
             next == 2 * q + dbl[1].q + add[1].q
         IN  IF dbl = <<>> \/ add = <<>> \/ next >= Word THEN <<>>
             ELSE MulDivFrom(p - 1, a, b, d, next, add[1].r)

checked_mul_div_rem(a, b, d) ==
    IF a * b < Word THEN <<[q |-> (a * b) \div d, r |-> (a * b) % d]>>
    ELSE MulDivFrom(2 * LimbBits - 1, a, b, d, 0, 0)

checked_mul_div_ceil(a, b, d) ==
    LET x == checked_mul_div_rem(a, b, d)
    IN  IF x = <<>> THEN <<>>
        ELSE IF x[1].r = 0 THEN <<x[1].q>> ELSE Fit(x[1].q + 1)

\* Ties go to the even quotient; an odd divisor has no tie.
checked_mul_div_round_nearest_even(a, b, d) ==
    LET x == checked_mul_div_rem(a, b, d)
        up == \/ x[1].r > d \div 2
              \/ x[1].r = d \div 2 /\ d % 2 = 0 /\ x[1].q % 2 = 1
    IN  IF x = <<>> THEN <<>> ELSE IF up THEN Fit(x[1].q + 1) ELSE <<x[1].q>>

-----------------------------------------------------------------------------
(* Wide: four limbs, least significant first.                              *)

Zeroes == [i \in 0..3 |-> 0]
WideValue(w) == w[0] + Limb * w[1] + Limb ^ 2 * w[2] + Limb ^ 3 * w[3]
WideBit(w, p) == Bit(w[p \div LimbBits], p % LimbBits)

\* Wide::cmp, from the most significant limb.
Ge(v, w) ==
    \/ v = w
    \/ \E i \in 0..3 : v[i] > w[i] /\ \A j \in i + 1..3 : v[j] = w[j]

\* Wide::shl1 and the low bit: the carry out, and the shifted limbs.
Shl1(w, b) ==
    [carry |-> w[3] \div (Limb \div 2),
     w |-> [i \in 0..3 |-> ((2 * w[i]) % Limb)
              + IF i = 0 THEN b ELSE w[i - 1] \div (Limb \div 2)]]

\* Wide::wrapping_sub: limb by limb, with the borrow of the limbs below.
RECURSIVE Borrow(_, _, _)
Borrow(v, w, i) == IF i = 0 THEN 0
                   ELSE IF v[i - 1] - Borrow(v, w, i - 1) < w[i - 1] THEN 1 ELSE 0
WrappingSub(v, w) ==
    [i \in 0..3 |-> (v[i] - w[i] - Borrow(v, w, i)) % Limb]

\* Add `carry' at limb i and ripple upwards; <<>> when it leaves the top.
RECURSIVE Ripple(_, _, _)
Ripple(w, i, carry) ==
    IF carry = 0 THEN <<w>>
    ELSE IF i = 4 THEN <<>>
    ELSE LET v == w[i] + (carry % Limb)
         IN  Ripple([w EXCEPT ![i] = v % Limb], i + 1,
                    (carry \div Limb) + (v \div Limb))

CheckedAddOne(w) == Ripple(w, 0, 1)

\* Wide::mul_u128, schoolbook: row l of the left word's two limbs.
MulRow(w, l, left, right) ==
    LET lo == left * (right % Limb) + w[l]
        hi == left * (right \div Limb) + w[l + 1] + (lo \div Limb)
    IN  Ripple([w EXCEPT ![l] = lo % Limb, ![l + 1] = hi % Limb],
               l + 2, hi \div Limb)

MulWords(x, y) ==
    LET row == MulRow(Zeroes, 0, x % Limb, y)
    IN  IF row = <<>> THEN <<>> ELSE MulRow(row[1], 1, x \div Limb, y)

\* Wide::mul: limb i of the wide value times the word, refusing what leaves
\* the top limb.
RECURSIVE MulFrom(_, _, _, _)
MulFrom(i, w, y, acc) ==
    IF i = 4 THEN <<acc>>
    ELSE LET lo == w[i] * (y % Limb) + acc[i]
             high == w[i] * (y \div Limb)
             hi == high + acc[i + 1] + (lo \div Limb)
             next == Ripple([acc EXCEPT ![i] = lo % Limb, ![i + 1] = hi % Limb],
                            i + 2, hi \div Limb)
         IN  IF i = 3
             THEN IF high # 0 \/ lo \div Limb # 0 THEN <<>>
                  ELSE <<[acc EXCEPT ![3] = lo % Limb]>>
             ELSE IF next = <<>> THEN <<>> ELSE MulFrom(i + 1, w, y, next[1])

WideMul(w, y) == MulFrom(0, w, y, Zeroes)

\* Wide::low_u128.
LowWord(w) == IF w[2] # 0 \/ w[3] # 0 THEN <<>> ELSE <<w[0] + Limb * w[1]>>

\* Wide::div_exact_u128 and rem_u128 share the bit loop.
RECURSIVE WideDivFrom(_, _, _, _, _)
WideDivFrom(p, w, d, q, r) ==
    IF p < 0 THEN <<[q |-> q, r |-> r]>>
    ELSE LET x == DivDoubled(r, WideBit(w, p), d)
         IN  IF x = <<>> \/ x[1].q > 1 THEN <<>>
             ELSE WideDivFrom(p - 1, w, d, Shl1(q, x[1].q).w, x[1].r)

WideDiv(w, d) == WideDivFrom(4 * LimbBits - 1, w, d, Zeroes, 0)

-----------------------------------------------------------------------------
(* checked_ratio_ceil: ceil((n1*n2*n3) / (d1*d2)).                         *)

RECURSIVE gcd_u128(_, _)
gcd_u128(l, r) == IF r = 0 THEN l ELSE gcd_u128(r, l % r)

\* Reduce numerator i against denominator j.
Reduce(f, i, j) ==
    LET g == gcd_u128(f.n[i], f.d[j])
    IN  [n |-> [f.n EXCEPT ![i] = @ \div g], d |-> [f.d EXCEPT ![j] = @ \div g]]

Reduced(f) ==
    LET a == Reduce(Reduce(f, 1, 1), 1, 2)
        b == Reduce(Reduce(a, 2, 1), 2, 2)
    IN  Reduce(Reduce(b, 3, 1), 3, 2)

Product(f) == f.n[1] * f.n[2] * f.n[3]
Divisor(f) == f.d[1] * f.d[2]
NativeProduct(f) == f.n[1] * f.n[2] < Word /\ Product(f) < Word

\* The quotient bit of one step of the long division.
DivisionBit(shifted, den) == shifted.carry = 1 \/ Ge(shifted.w, den)

RECURSIVE RatioFrom(_, _, _, _, _)
RatioFrom(p, num, den, q, r) ==
    IF p < 0
    THEN IF r = Zeroes THEN LowWord(q)
         ELSE LET up == CheckedAddOne(q) IN IF up = <<>> THEN <<>> ELSE LowWord(up[1])
    ELSE LET shifted == Shl1(r, WideBit(num, p))
             bit == DivisionBit(shifted, den)
         IN  RatioFrom(p - 1, num, den, Shl1(q, IF bit THEN 1 ELSE 0).w,
                       IF bit THEN WrappingSub(shifted.w, den) ELSE shifted.w)

checked_ratio_ceil(factors) ==
    LET f == Reduced(factors)
        half == MulWords(f.n[1], f.n[2])
        num == IF half = <<>> THEN <<>> ELSE WideMul(half[1], f.n[3])
        den == MulWords(f.d[1], f.d[2])
    IN  IF NativeProduct(f) /\ Divisor(f) < Word
        THEN checked_ceil_div(Product(f), Divisor(f))
        ELSE IF num = <<>> \/ den = <<>> THEN <<>>
        ELSE RatioFrom(4 * LimbBits - 1, num[1], den[1], Zeroes, Zeroes)

-----------------------------------------------------------------------------
(* Calls.                                                                  *)

Signed == -SignBit..SignBit - 1
Triples == [a : WordSet, b : WordSet, d : WordSet \ {0}]
Ratios == [n : [1..3 -> Factors], d : [1..2 -> Factors \ {0}]]

\* No answer is a triple.
Unanswered == <<0, 0, 0>>

Init ==
    /\ \/ op \in {"rem", "ceil", "even", "wide"} /\ args \in Triples
       \/ op = "ratio" /\ args \in Ratios
       \/ op = "signed" /\ args \in Signed \X WordSet
       \/ op = "bias" /\ args \in Signed \X Signed
    /\ out = Unanswered

MulDivRem == op = "rem" /\ out' = checked_mul_div_rem(args.a, args.b, args.d)
MulDivCeil == op = "ceil" /\ out' = checked_mul_div_ceil(args.a, args.b, args.d)
RoundEven ==
    op = "even" /\ out' = checked_mul_div_round_nearest_even(args.a, args.b, args.d)
WideDivide == op = "wide" /\ out' = WideDiv(MulWords(args.a, args.b)[1], args.d)
RatioCeil == op = "ratio" /\ out' = checked_ratio_ceil(args)
MulSigned == op = "signed" /\ out' = checked_mul_i128_u128(args[1], args[2])
BiasKeys == op = "bias" /\ out' = <<bias_i128(args[1]), bias_i128(args[2])>>

Next ==
    /\ out = Unanswered /\ UNCHANGED <<op, args>>
    /\ \/ MulDivRem \/ MulDivCeil \/ RoundEven \/ WideDivide \/ RatioCeil
       \/ MulSigned \/ BiasKeys

Spec == Init /\ [][Next]_vars

-----------------------------------------------------------------------------
(* What the functions promise.                                             *)

Ceil(n, d) == (n + d - 1) \div d

\* n / d to the nearest integer, ties to even.
Nearest(n, d) ==
    LET q == n \div d r == n % d
    IN  IF 2 * r > d \/ (2 * r = d /\ q % 2 = 1) THEN q + 1 ELSE q

\* The fixed-width helpers of eevdf_model.rs are exact: an answer is the
\* mathematical quotient, remainder, ceiling or rounding of the unbounded
\* product, whichever path computed it, and exhaustion is answered exactly when
\* the result does not fit a word (for the five-factor ratio, also when the
\* reduced numerator does not fit two words).  The key bias keeps the order of
\* the signed values and stays a word.
ArithExact ==
    out # Unanswered =>
    LET prod == args.a * args.b
    IN  CASE op = "rem" ->
                out = IF prod \div args.d < Word
                      THEN <<[q |-> prod \div args.d, r |-> prod % args.d]>>
                      ELSE <<>>
          [] op = "ceil" -> out = Fit(Ceil(prod, args.d))
          [] op = "even" -> out = Fit(Nearest(prod, args.d))
          [] op = "wide" -> /\ WideValue(out[1].q) = prod \div args.d
                            /\ out[1].r = prod % args.d
          [] op = "ratio" ->
                out = IF Product(Reduced(args)) >= Word * Word THEN <<>>
                      ELSE Fit(Ceil(Product(args), Divisor(args)))
          [] op = "signed" ->
                out = IF args[1] * args[2] \in Signed THEN <<args[1] * args[2]>>
                      ELSE <<>>
          [] op = "bias" -> /\ out[1] \in 0..Word - 1
                            /\ (out[1] < out[2]) <=> (args[1] < args[2])
=============================================================================
