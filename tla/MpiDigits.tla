------------------------------ MODULE MpiDigits ------------------------------
(***************************************************************************)
(* The internal layer of src/mpi/mpi.c: numbers as arrays of digits and    *)
(* the s_mp_ and s_mpv_ functions on them.  A number is a record with a    *)
(* sign and its USED digits, least significant first.  The build is the    *)
(* one in which a digit is the widest integer (MP_NO_MP_WORD): there is no *)
(* type that holds two digits, so every carry and borrow is detected by    *)
(* comparing a wrapped sum with an operand, and a product of two digits is *)
(* put together from half digits.  Only the width of a digit is smaller    *)
(* here than the code's 64 bits.  Memory (ALLOC, growing) is left out:     *)
(* PrioLifetimes is about it.                                              *)
(***************************************************************************)
EXTENDS Integers, Sequences, FiniteSetsExt

CONSTANT HalfBits   \* MP_HALF_DIGIT_BIT

ASSUME HalfBitsAssumption == HalfBits \in Nat \ {0}

MP_DIGIT_BIT == 2 * HalfBits
MP_RADIX == 2^MP_DIGIT_BIT
MP_HALF_RADIX == 2^HalfBits
MP_DIGIT_MAX == MP_RADIX - 1
Digit == 0..MP_DIGIT_MAX

ZPOS == 0
NEG == 1

MP_LT == -1
MP_EQ == 0
MP_GT == 1

(***************************************************************************)
(* A failed call gives no number: the error codes are values that no       *)
(* number has (a number has at least one digit).                           *)
(***************************************************************************)
MP_RANGE == [sign |-> -3, dp |-> << >>]
MP_UNDEF == [sign |-> -5, dp |-> << >>]
Failed(a) == a.dp = << >>

\* Arithmetic on mp_digit: the result is reduced to the width of a digit.
Wrap(x) == x % MP_RADIX
Bit(b) == IF b THEN 1 ELSE 0
Hi(d) == d \div MP_HALF_RADIX
Lo(d) == d % MP_HALF_RADIX

\* s_mp_pad: digits above the used ones are zero.
At(dp, i) == IF i \in 1..Len(dp) THEN dp[i] ELSE 0
Zeros(n) == [i \in 1..n |-> 0]
Top(dp) == dp[Len(dp)]

(***************************************************************************)
(* The value of a number, and the number with a value: the reference that  *)
(* the functions below are compared with.                                  *)
(***************************************************************************)
MagnitudeOf(dp) ==
  LET v[i \in 1..Len(dp) + 1] ==
        IF i > Len(dp) THEN 0 ELSE dp[i] + MP_RADIX * v[i + 1]
  IN  v[1]
ValueOf(a) == IF a.sign = NEG THEN -MagnitudeOf(a.dp) ELSE MagnitudeOf(a.dp)

\* MP_RADIX^i: what a digit is worth above i others.
Weight(i) == 2^(MP_DIGIT_BIT * i)

Abs(n) == IF n < 0 THEN -n ELSE n
DigitsOf(n) ==
  LET used == CHOOSE k \in 1..(n + 1) : n < Weight(k) /\ (k > 1 => n >= Weight(k - 1))
  IN  [i \in 1..used |-> (n \div Weight(i - 1)) % MP_RADIX]
Number(n) == [sign |-> IF n < 0 THEN NEG ELSE ZPOS, dp |-> DigitsOf(Abs(n))]

-----------------------------------------------------------------------------
(* Storage: clamping, setting, comparing *)

s_mp_clamp(dp) ==
  LET nonzero == {i \in 1..Len(dp) : dp[i] # 0}
  IN  SubSeq(dp, 1, IF nonzero = {} THEN 1 ELSE Max(nonzero))

mp_zero == [sign |-> ZPOS, dp |-> <<0>>]
mp_set(d) == [sign |-> ZPOS, dp |-> <<d>>]

\* The order of two numbers is decided by their length, then by the highest
\* digit in which they differ.
s_mp_cmp(a, b) ==
  LET differ == {i \in 1..Len(a) : a[i] # b[i]}
  IN  CASE Len(a) > Len(b) -> MP_GT
        [] Len(a) < Len(b) -> MP_LT
        [] OTHER -> IF differ = {} THEN MP_EQ
                    ELSE IF a[Max(differ)] > b[Max(differ)] THEN MP_GT
                    ELSE MP_LT

s_mp_cmp_d(a, d) ==
  CASE Len(a) = 1 /\ a[1] < d -> MP_LT
    [] Len(a) = 1 /\ a[1] = d -> MP_EQ
    [] OTHER -> MP_GT

s_mp_ispow2d(d) ==
  IF \E k \in 0..(MP_DIGIT_BIT - 1) : d = 2^k
  THEN CHOOSE k \in 0..(MP_DIGIT_BIT - 1) : d = 2^k
  ELSE -1

s_mp_ispow2(v) ==
  LET extra == s_mp_ispow2d(Top(v))
  IN  IF extra < 0 \/ \E i \in 1..(Len(v) - 1) : v[i] # 0 THEN -1
      ELSE extra + MP_DIGIT_BIT * (Len(v) - 1)

-----------------------------------------------------------------------------
(* Shifts *)

s_mp_lshd(dp, p) == IF dp = <<0>> THEN dp ELSE Zeros(p) \o dp

\* Shifting every digit out leaves a positive zero.
s_mp_rshd(a, p) ==
  IF p >= Len(a.dp) /\ p > 0 THEN mp_zero
  ELSE [a EXCEPT !.dp = SubSeq(a.dp, p + 1, Len(a.dp))]

\* A left shift by less than a digit: each digit takes the high bits of the
\* one below it.
ShiftBits(dp, b) ==
  [i \in 1..Len(dp) |->
     Wrap(dp[i] * 2^b) + At(dp, i - 1) \div 2^(MP_DIGIT_BIT - b)]

s_mp_mul_2(dp) ==
  LET kin == Top(dp) \div 2^(MP_DIGIT_BIT - 1)
  IN  ShiftBits(dp, 1) \o IF kin # 0 THEN <<kin>> ELSE << >>

s_mp_mul_2d(dp, d) ==
  LET dshift == d \div MP_DIGIT_BIT
      bshift == d % MP_DIGIT_BIT
      spills == bshift # 0 /\ Top(dp) \div 2^(MP_DIGIT_BIT - bshift) # 0
      padded == dp \o Zeros(dshift + Bit(spills))
      moved == IF dshift > 0 THEN s_mp_lshd(padded, dshift) ELSE padded
  IN  s_mp_clamp(IF bshift = 0 THEN moved ELSE ShiftBits(moved, bshift))

s_mp_mod_2d(dp, d) ==
  LET ndig == d \div MP_DIGIT_BIT
      mask == 2^(d % MP_DIGIT_BIT)
  IN  IF ndig >= Len(dp) THEN dp
      ELSE s_mp_clamp([i \in 1..Len(dp) |-> CASE i <= ndig -> dp[i]
                                              [] i = ndig + 1 -> dp[i] % mask
                                              [] OTHER -> 0])

\* The sign is left as it is unless every digit is shifted out.
s_mp_div_2d(a, d) ==
  LET r == s_mp_rshd(a, d \div MP_DIGIT_BIT)
      b == d % MP_DIGIT_BIT
      shifted == [i \in 1..Len(r.dp) |->
                    r.dp[i] \div 2^b
                      + (At(r.dp, i + 1) % 2^b) * 2^(MP_DIGIT_BIT - b)]
  IN  [r EXCEPT !.dp = s_mp_clamp(IF b = 0 THEN r.dp ELSE shifted)]

s_mp_div_2(a) == s_mp_div_2d(a, 1)

s_mp_2expt(k) ==
  [sign |-> ZPOS,
   dp |-> Zeros(k \div MP_DIGIT_BIT) \o <<2^(k % MP_DIGIT_BIT)>>]

-----------------------------------------------------------------------------
(* Sums and differences of magnitudes *)

WithCarry(dp) == IF Top(dp) # 0 THEN dp ELSE SubSeq(dp, 1, Len(dp) - 1)

\* One digit of a sum: the sum wraps, and a wrapped sum is below its terms.
AddDigit(a, b, carry) ==
  LET sum == Wrap(a + b)
      out == Wrap(sum + carry)
  IN  [d |-> out, carry |-> Bit(sum < a) + Bit(out < carry)]

\* One digit of a difference: a wrapped difference is above its minuend.
SubDigit(a, b, borrow) ==
  LET diff == Wrap(a - b)
  IN  [d |-> Wrap(diff - borrow),
       carry |-> Bit(diff > a) + Bit(borrow = 1 /\ diff = 0)]

\* The carry out of the top is one more digit, if there is one.
AddDigits(a, b) ==
  LET n == IF Len(a) > Len(b) THEN Len(a) ELSE Len(b)
      r[i \in 0..n + 1] == IF i = 0 THEN [d |-> 0, carry |-> 0]
                           ELSE AddDigit(At(a, i), At(b, i), r[i - 1].carry)
  IN  WithCarry([i \in 1..n + 1 |-> r[i].d])

\* The digits of a - b at the length of a, and the borrow out of the top.
SubDigits(a, b) ==
  LET r[i \in 0..Len(a)] == IF i = 0 THEN [d |-> 0, carry |-> 0]
                            ELSE SubDigit(a[i], At(b, i), r[i - 1].carry)
  IN  [dp |-> [i \in 1..Len(a) |-> r[i].d], borrow |-> r[Len(a)].carry]

s_mp_add(a, b) == [a EXCEPT !.dp = AddDigits(a.dp, b.dp)]

s_mp_add_3arg(a, b) == [sign |-> a.sign, dp |-> AddDigits(a.dp, b.dp)]

s_mp_add_offset(a, b, offset) ==
  [a EXCEPT !.dp = s_mp_clamp(AddDigits(a.dp, Zeros(offset) \o b.dp))]

\* A borrow that is left means the second number was larger.
Difference(sign, r) == IF r.borrow # 0 THEN MP_RANGE
                       ELSE [sign |-> sign, dp |-> s_mp_clamp(r.dp)]

s_mp_sub(a, b) == Difference(a.sign, SubDigits(a.dp, b.dp))

s_mp_sub_3arg(a, b) == Difference(a.sign, SubDigits(a.dp, b.dp))

s_mp_add_d(dp, d) == AddDigits(dp, <<d>>)

s_mp_sub_d(dp, d) == Difference(ZPOS, SubDigits(dp, <<d>>)).dp

-----------------------------------------------------------------------------
(* Products of a digit *)

\* Two digits give two digits: four half products, with the carries of the
\* middle sum and of the low digit found by comparison.
AddLow(hi, lo, up) == [hi |-> Wrap(hi + Bit(Wrap(lo + up) < up)), lo |-> Wrap(lo + up)]

AddMiddle(hi, lo, mid, a0b1) ==
  AddLow(hi + Hi(mid) + IF mid < a0b1 THEN MP_HALF_RADIX ELSE 0,
         lo, Wrap(mid * MP_HALF_RADIX))

MP_MUL_DxD(a, b) ==
  LET a0b1 == Wrap(Lo(a) * Hi(b))
  IN  AddMiddle(Hi(a) * Hi(b), Lo(a) * Lo(b), Wrap(Hi(a) * Lo(b) + a0b1), a0b1)

\* The square of a digit: the middle product is counted twice by its shift.
MP_SQR_D(a) ==
  LET mid == Lo(a) * Hi(a)
  IN  AddLow(Hi(a) * Hi(a) + (mid * 2) \div MP_HALF_RADIX, Lo(a) * Lo(a),
             Wrap(mid * MP_HALF_RADIX * 2))

\* A product with one carry added, and then the old digit of c.
MulStep(p, carry, c) ==
  LET low == Wrap(p.lo + carry)
      out == Wrap(low + c)
  IN  [d |-> out, carry |-> Wrap(p.hi + Bit(low < carry) + Bit(out < c))]

\* The digits of c + a * b from the first to the last digit of a, and the
\* carry that is left on top: the loop that the three functions below share.
MulDigits(a, b, c) ==
  LET r[i \in 0..Len(a) + 1] ==
        CASE i = 0 -> [d |-> 0, carry |-> 0]
          [] i \in 1..Len(a) ->
               MulStep(MP_MUL_DxD(a[i], b), r[i - 1].carry, At(c, i))
          [] OTHER -> [d |-> r[i - 1].carry, carry |-> 0]
  IN  [i \in 1..Len(a) + 1 |-> r[i].d]

s_mpv_mul_d(a, b) == MulDigits(a, b, << >>)

\* The digit of c above those of a is overwritten by the carry.
s_mpv_mul_d_add(a, b, c) == MulDigits(a, b, c) \o SubSeq(c, Len(a) + 2, Len(c))

\* Here the carry is added to the digits of c above those of a.
AddTop(r, above) == SubSeq(r, 1, Len(r) - 1) \o AddDigits(above, <<Top(r)>>)

s_mpv_mul_d_add_prop(a, b, c) ==
  AddTop(MulDigits(a, b, c), SubSeq(c, Len(a) + 1, Len(c)))

\* The squares of the digits of a are added to pairs of digits of ps.
s_mpv_sqr_add_prop(a, ps) ==
  LET r[i \in 0..Len(a)] ==
        IF i = 0 THEN [lo |-> 0, hi |-> 0, carry |-> 0]
        ELSE LET low == MulStep(MP_SQR_D(a[i]), r[i - 1].carry, ps[2 * i - 1])
                 hi == Wrap(low.carry + ps[2 * i])
             IN  [lo |-> low.d, hi |-> hi, carry |-> Bit(hi < ps[2 * i])]
      done == 2 * Len(a)
  IN  [i \in 1..done |-> IF i % 2 = 1 THEN r[(i + 1) \div 2].lo
                         ELSE r[i \div 2].hi]
        \o IF r[Len(a)].carry = 0 THEN SubSeq(ps, done + 1, Len(ps))
           ELSE AddDigits(SubSeq(ps, done + 1, Len(ps)), <<1>>)

s_mp_mul_d(dp, d) ==
  CASE d = 0 -> <<0>>
    [] d = 1 -> dp
    [] d > 1 /\ s_mp_ispow2d(d) >= 0 -> s_mp_mul_2d(dp, s_mp_ispow2d(d))
    [] OTHER -> s_mp_clamp(s_mpv_mul_d(dp, d))

-----------------------------------------------------------------------------
(* Division *)

\* One half digit of a quotient: a guess from the high half of the divisor,
\* taken back once or twice.
TakenBack(q, r, m, divisor) ==
  LET once == Wrap(r + divisor)
      twice == once >= divisor /\ once < m
  IN  CASE r >= m -> [q |-> q, r |-> Wrap(r - m)]
        [] r < m /\ ~twice -> [q |-> q - 1, r |-> Wrap(once - m)]
        [] OTHER -> [q |-> q - 2, r |-> Wrap(once + divisor - m)]

HalfQuotient(n, low, divisor) ==
  LET q == n \div Hi(divisor)
  IN  TakenBack(q, Wrap((n % Hi(divisor)) * MP_HALF_RADIX) + low,
                Wrap(q * Lo(divisor)), divisor)

BothHalves(q1, h0) == [q |-> Wrap(q1 * MP_HALF_RADIX) + h0.q, r |-> h0.r]

SecondHalf(h1, low, divisor) == BothHalves(h1.q, HalfQuotient(h1.r, low, divisor))

s_mpv_div_2dx1d(Nhi, Nlo, divisor) ==
  SecondHalf(HalfQuotient(Nhi, Hi(Nlo), divisor), Lo(Nlo), divisor)

\* The shift that brings the top bit of the divisor to the top of its digit.
s_mp_norm(msd) ==
  CHOOSE d \in 0..(MP_DIGIT_BIT - 1) :
    msd * 2^d \in 2^(MP_DIGIT_BIT - 1)..MP_DIGIT_MAX

\* Division by a digit: a quotient digit and a running remainder p from the
\* top digit down.
DivDigit(p, digit, d) ==
  IF p # 0 THEN s_mpv_div_2dx1d(p, digit, d)
  ELSE [q |-> digit \div d, r |-> digit % d]

DivDigits(rem, d) ==
  LET step[i \in 1..Len(rem) + 1] ==
        IF i > Len(rem) THEN [q |-> 0, r |-> 0]
        ELSE DivDigit(step[i + 1].r, rem[i], d)
  IN  [i \in 1..Len(rem) |-> step[i]]

ByNormalised(steps, norm) ==
  [q |-> s_mp_clamp([i \in DOMAIN steps |-> steps[i].q]), r |-> steps[1].r \div 2^norm]

s_mp_div_d(dp, d) ==
  LET norm == s_mp_norm(d)
  IN  CASE d = 1 -> [q |-> dp, r |-> 0]
        [] d > 1 /\ Len(dp) = 1 -> [q |-> <<dp[1] \div d>>, r |-> dp[1] % d]
        [] OTHER -> ByNormalised(DivDigits(s_mp_mul_2d(dp, norm), d * 2^norm), norm)

BackOff_NotBelow(guess, multiple, div, part) ==
  LET b[i \in 0..4] ==
        IF i = 0 THEN [q |-> guess, t |-> multiple]
        ELSE LET last == b[i - 1]
             IN  IF s_mp_cmp(last.t, part) # MP_LT
                 THEN [q |-> last.q - 1, t |-> s_mp_clamp(SubDigits(last.t, div).dp)]
                 ELSE last
  IN  b[4]

\* A guess whose multiple of div is too large is taken back, at most four
\* times.
BackOff(guess, multiple, div, part) ==
  LET b[i \in 0..4] ==
        IF i = 0 THEN [q |-> guess, t |-> multiple]
        ELSE LET last == b[i - 1]
             IN  IF s_mp_cmp(last.t, part) = MP_GT
                 THEN [q |-> last.q - 1, t |-> s_mp_clamp(SubDigits(last.t, div).dp)]
                 ELSE last
  IN  b[4]

QuotientGuess(part, div) ==
  IF Top(part) = Top(div) THEN MP_DIGIT_MAX
  ELSE s_mpv_div_2dx1d(Top(part), part[Len(part) - 1], Top(div)).q

\* b.t, the divisor times the digit b.q, leaves the top of s.rem.  A borrow
\* is an error: there is no quotient.
TakeAway(s, unusedRem, b, next) ==
  IF next.borrow # 0 THEN [s EXCEPT !.quot = << >>, !.over = TRUE]
  ELSE [s EXCEPT !.rem = s_mp_clamp(SubSeq(s.rem, 1, unusedRem) \o next.dp),
                 !.quot = [i \in DOMAIN @ |-> IF i = unusedRem + 1 THEN b.q ELSE @[i]]]

QuotientDigit(s, unusedRem, part, b) ==
  TakeAway(s, unusedRem, b, SubDigits(part, b.t))

TryGuess(s, div, unusedRem, part, guess) ==
  IF guess = 0 THEN [s EXCEPT !.over = TRUE]
  ELSE QuotientDigit(s, unusedRem, part,
                     BackOff(guess, s_mp_mul_d(div, guess), div, part))

\* The part of rem under the divisor is extended by a digit when it is
\* smaller than the divisor; otherwise the digit is one.
DivStep(s, div) ==
  LET aligned == Len(s.rem) - Len(div)
      under == SubSeq(s.rem, aligned + 1, Len(s.rem))
      extended == SubSeq(s.rem, aligned, Len(s.rem))
  IN  IF s_mp_cmp(under, div) # MP_LT THEN TryGuess(s, div, aligned, under, 1)
      ELSE TryGuess(s, div, aligned - 1, extended, QuotientGuess(extended, div))

\* The loop of s_mp_div on normalised numbers.  Every round is about a lower
\* digit of the quotient, so there are no more rounds than digits.
DivLoop(first, div) ==
  LET s[k \in 0..Len(first.rem)] ==
        IF k = 0 THEN first
        ELSE LET last == s[k - 1]
             IN  IF last.over \/ ~(Len(last.rem) > Len(div) \/ s_mp_cmp(last.rem, div) >= 0)
                 THEN last ELSE DivStep(last, div)
  IN  s[Len(first.rem)]

Unsigned(dp) == [sign |-> ZPOS, dp |-> dp]

Denormalised(s, d) ==
  [quot |-> IF s.quot = << >> THEN << >> ELSE s_mp_clamp(s.quot),
   rem |-> s_mp_div_2d(Unsigned(s.rem), d).dp]

\* Magnitudes only.  The quotient has as many digits as the dividend.
s_mp_div(rem, div) ==
  LET pow == s_mp_ispow2(div)
      d == s_mp_norm(Top(div))
  IN  IF pow >= 0
      THEN [quot |-> s_mp_div_2d(Unsigned(rem), pow).dp,
            rem |-> s_mp_mod_2d(rem, pow)]
      ELSE Denormalised(DivLoop([rem |-> s_mp_mul_2d(rem, d),
                                 quot |-> Zeros(Len(rem)), over |-> FALSE],
                                s_mp_mul_2d(div, d)), d)

=============================================================================
