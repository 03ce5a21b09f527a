------------------------------ MODULE MpiArith ------------------------------
(***************************************************************************)
(* The arithmetic that src/mpi/mpi.c offers its callers, on signed numbers *)
(* of any length, and a machine that calls it: two numbers x and y, and    *)
(* one action per function, whose result replaces one of them.  The        *)
(* results of calls are the operands of later calls, as they are in the    *)
(* field operations of src/prio.                                           *)
(***************************************************************************)
EXTENDS MpiDigits

CONSTANTS
  MaxMagnitude,   \* bound: a call whose result is larger is not made
  MaxExponent,    \* bound: the largest shift and exponent
  NegativeHalves  \* whether negative numbers are divided by a digit or 2^d

ASSUME MpiArithAssumption ==
  /\ MaxMagnitude \in Nat
  /\ MaxExponent \in Nat
  /\ NegativeHalves \in BOOLEAN

VARIABLES x, y
vars == <<x, y>>

-----------------------------------------------------------------------------
(* Copies, signs and comparisons *)

\* mp_neg and the functions that add up their result never leave a negative
\* zero.
PositiveZero(a) ==
  IF ~Failed(a) /\ s_mp_cmp_d(a.dp, 0) = MP_EQ THEN [a EXCEPT !.sign = ZPOS]
  ELSE a

mp_set_int(z) ==
  [sign |-> IF z < 0 THEN NEG ELSE ZPOS, dp |-> <<Abs(z)>>]
mp_set_ulong(z) == mp_set(z)

mp_abs(a) == [a EXCEPT !.sign = ZPOS]
mp_neg(a) == PositiveZero([a EXCEPT !.sign = 1 - a.sign])

mp_cmp_z(a) == IF a.sign = NEG THEN MP_LT
               ELSE IF a.dp = <<0>> THEN MP_EQ ELSE MP_GT
mp_cmp_d(a, d) == IF a.sign = NEG THEN MP_LT ELSE s_mp_cmp_d(a.dp, d)
mp_cmp(a, b) ==
  CASE a.sign = b.sign -> IF a.sign = ZPOS THEN s_mp_cmp(a.dp, b.dp)
                          ELSE -s_mp_cmp(a.dp, b.dp)
    [] a.sign # b.sign /\ a.sign = ZPOS -> MP_GT
    [] OTHER -> MP_LT
mp_cmp_mag(a, b) == s_mp_cmp(a.dp, b.dp)
mp_isodd(a) == a.dp[1] % 2 = 1
mp_iseven(a) == ~mp_isodd(a)

-----------------------------------------------------------------------------
(* Sums *)

mp_add(a, b) ==
  PositiveZero(IF a.sign = b.sign THEN s_mp_add_3arg(a, b)
               ELSE IF s_mp_cmp(a.dp, b.dp) >= 0 THEN s_mp_sub_3arg(a, b)
               ELSE s_mp_sub_3arg(b, a))

mp_sub(a, b) ==
  LET magDiff == s_mp_cmp(a.dp, b.dp)
  IN  PositiveZero(
        CASE a.sign # b.sign -> s_mp_add_3arg(a, b)
          [] a.sign = b.sign /\ magDiff = MP_EQ -> mp_zero
          [] a.sign = b.sign /\ magDiff = MP_GT -> s_mp_sub_3arg(a, b)
          [] OTHER -> [s_mp_sub_3arg(b, a) EXCEPT !.sign = 1 - a.sign])

mp_add_d(a, d) ==
  PositiveZero(
    CASE a.sign = ZPOS -> [a EXCEPT !.dp = s_mp_add_d(a.dp, d)]
      [] a.sign = NEG /\ s_mp_cmp_d(a.dp, d) >= 0 ->
           [a EXCEPT !.dp = s_mp_sub_d(a.dp, d)]
      [] OTHER -> LET t == mp_neg(a)
                  IN  [t EXCEPT !.dp[1] = Wrap(d - t.dp[1])])

mp_sub_d(a, d) ==
  PositiveZero(
    CASE a.sign = NEG -> [a EXCEPT !.dp = s_mp_add_d(a.dp, d)]
      [] a.sign = ZPOS /\ s_mp_cmp_d(a.dp, d) >= 0 ->
           [a EXCEPT !.dp = s_mp_sub_d(a.dp, d)]
      [] OTHER -> [sign |-> NEG, dp |-> [a.dp EXCEPT ![1] = Wrap(d - @)]])

-----------------------------------------------------------------------------
(* Products *)

mp_mul_2(a) == [a EXCEPT !.dp = s_mp_mul_2(a.dp)]
mp_mul_d(a, d) == IF d = 0 THEN mp_zero
                  ELSE [a EXCEPT !.dp = s_mp_mul_d(a.dp, d)]

\* The longer number runs in the inner loop; a zero digit of the other one
\* only clears the digit above.
MulRow(row, long, d, i) ==
  LET upper == SubSeq(row, i, Len(row))
  IN  SubSeq(row, 1, i - 1) \o IF d = 0 THEN [upper EXCEPT ![Len(long) + 1] = 0]
                               ELSE s_mpv_mul_d_add(long, d, upper)

MulMagnitudes(long, short) ==
  LET c[i \in 1..Len(short)] ==
        IF i = 1 THEN s_mpv_mul_d(long, short[1]) \o Zeros(Len(short) - 1)
        ELSE MulRow(c[i - 1], long, short[i], i)
  IN  s_mp_clamp(c[Len(short)])

mp_mul(a, b) ==
  PositiveZero([sign |-> IF a.sign = b.sign THEN ZPOS ELSE NEG,
                dp |-> IF Len(a.dp) < Len(b.dp) THEN MulMagnitudes(b.dp, a.dp)
                       ELSE MulMagnitudes(a.dp, b.dp)])
s_mp_mul(a, b) == mp_mul(a, b)

\* The products of different digits once, doubled, and the squares added.
mp_sqr(a) ==
  LET n == Len(a.dp)
      c[i \in 0..(n - 1)] ==
        IF i = 0 THEN Zeros(2 * n)
        ELSE LET row == c[i - 1]
             IN  SubSeq(row, 1, 2 * i - 1)
                   \o s_mpv_mul_d_add(SubSeq(a.dp, i + 1, n), a.dp[i],
                        SubSeq(row, 2 * i, 2 * n))
      doubled == IF n = 1 THEN Zeros(2) ELSE s_mp_mul_2(c[n - 1])
  IN  [sign |-> ZPOS, dp |-> s_mp_clamp(s_mpv_sqr_add_prop(a.dp, doubled))]
s_mp_sqr(a) == mp_sqr(a)

-----------------------------------------------------------------------------
(* Quotients and remainders *)

DivMagnitudes(a, b) ==
  LET cmp == s_mp_cmp(a, b)
  IN  CASE cmp = MP_LT -> [quot |-> <<0>>, rem |-> a]
        [] cmp = MP_EQ -> [quot |-> <<1>>, rem |-> <<0>>]
        [] OTHER -> s_mp_div(a, b)

WithSigns(a, b, d) ==
  IF d.quot = << >> THEN [q |-> MP_RANGE, r |-> MP_RANGE]
  ELSE [q |-> PositiveZero([sign |-> IF a.sign = b.sign THEN ZPOS ELSE NEG,
                            dp |-> d.quot]),
        r |-> PositiveZero([sign |-> a.sign, dp |-> d.rem])]

mp_div(a, b) ==
  IF mp_cmp_z(b) = MP_EQ THEN [q |-> MP_RANGE, r |-> MP_RANGE]
  ELSE WithSigns(a, b, DivMagnitudes(a.dp, b.dp))

\* The quotient takes the sign of a as it is, zero or not.
SignedQuotient(a, d) == [q |-> [a EXCEPT !.dp = d.q], r |-> d.r]

mp_div_d(a, d) ==
  LET pow == s_mp_ispow2d(d)
  IN  CASE d = 0 -> [q |-> MP_RANGE, r |-> 0]
        [] d # 0 /\ pow >= 0 -> [q |-> s_mp_div_2d(a, pow),
                                 r |-> a.dp[1] % 2^pow]
        [] OTHER -> SignedQuotient(a, s_mp_div_d(a.dp, d))

mp_div_2(a) == s_mp_div_2(a)

mp_div_2d(a, d) == [q |-> s_mp_div_2d(a, d),
                    r |-> [a EXCEPT !.dp = s_mp_mod_2d(a.dp, d)]]

Raised(c, m) == IF ~Failed(c) /\ c.sign = NEG THEN mp_add(c, m) ELSE c

mp_mod(a, m) ==
  LET mag == s_mp_cmp(a.dp, m.dp)
  IN  CASE m.sign = NEG -> MP_RANGE
        [] m.sign # NEG /\ mag = MP_EQ -> mp_zero
        [] OTHER -> Raised(IF mag = MP_GT THEN mp_div(a, m).r ELSE a, m)

\* The remainder as a number of one digit.  The magnitude is divided when it is
\* above d, whatever the sign, and a digit of 0 is refused only there.
mp_mod_d(a, d) ==
  LET qr == mp_div_d(a, d)
      rem == IF a.sign = NEG THEN d - a.dp[1] ELSE a.dp[1]
  IN  IF s_mp_cmp_d(a.dp, d) # MP_GT THEN mp_set(rem)
      ELSE IF Failed(qr.q) THEN MP_RANGE ELSE mp_set(qr.r)

-----------------------------------------------------------------------------
(* Powers *)

\* The number of bits of d.
BitCount(d) == CHOOSE k \in 0..d : d < 2^k /\ (k > 0 => d >= 2^(k - 1))
OddAfter(d, k) == (d \div 2^k) % 2 = 1

\* Square and multiply over the bits of an exponent, lowest first.
PowerLoop(one, base, d) ==
  LET p[k \in 0..BitCount(d)] ==
        IF k = 0 THEN [s |-> one, b |-> base]
        ELSE LET last == p[k - 1]
             IN  [last EXCEPT !.s = IF OddAfter(d, k - 1) THEN s_mp_mul(@, last.b) ELSE @,
                              !.b = s_mp_sqr(@)]
  IN  p[BitCount(d)].s

mp_expt_d(a, d) == PowerLoop(mp_set(1), a, d)

\* For an even exponent the sign of the base is put back.
mp_expt(a, b) ==
  LET s == PowerLoop(mp_set(1), a, MagnitudeOf(b.dp))
  IN  IF mp_cmp_z(b) = MP_LT THEN MP_RANGE
      ELSE IF mp_iseven(b) THEN [s EXCEPT !.sign = a.sign] ELSE s

mp_2expt(k) == s_mp_2expt(k)

mp_addmod(a, b, m) == mp_mod(mp_add(a, b), m)
mp_submod(a, b, m) == mp_mod(mp_sub(a, b), m)
mp_mulmod(a, b, m) == mp_mod(mp_mul(a, b), m)
mp_sqrmod(a, m) == mp_mod(mp_sqr(a), m)

\* m is subtracted until the rest is below it.
BackOffModulus(a, m) ==
  LET turns == MagnitudeOf(a.dp)
      below(b) == mp_cmp(b, m) = MP_LT
      rest[n \in 0..turns] ==
        IF n = 0 THEN a
        ELSE LET last == rest[n - 1] IN IF below(last) THEN last ELSE s_mp_sub(last, m)
  IN  rest[CHOOSE n \in 0..turns : below(rest[n])]

s_mp_reduce_NotRaised(a, m, mu) ==
  LET k == Len(m.dp)
      q3 == s_mp_rshd(s_mp_mul(s_mp_rshd(a, k - 1), mu), k + 1)
      low(b) == [b EXCEPT !.dp = s_mp_mod_2d(b.dp, MP_DIGIT_BIT * (k + 1))]
  IN  BackOffModulus(mp_sub(low(a), low(s_mp_mul(q3, m))), m)

\* Barrett reduction: the quotient is estimated with mu = RADIX^2k / m, and
\* the difference is brought back into the range by subtracting m.
s_mp_reduce(a, m, mu) ==
  LET k == Len(m.dp)
      q3 == s_mp_rshd(s_mp_mul(s_mp_rshd(a, k - 1), mu), k + 1)
      low(b) == [b EXCEPT !.dp = s_mp_mod_2d(b.dp, MP_DIGIT_BIT * (k + 1))]
  IN  BackOffModulus(Raised(mp_sub(low(a), low(s_mp_mul(q3, m))),
                            Unsigned(Zeros(k + 1) \o <<1>>)), m)

ReduceLoop(one, base, d, m, mu) ==
  LET p[k \in 0..BitCount(d)] ==
        IF k = 0 THEN [s |-> one, b |-> base]
        ELSE LET last == p[k - 1]
             IN  [last EXCEPT
                    !.s = IF OddAfter(d, k - 1) THEN s_mp_reduce(s_mp_mul(@, last.b), m, mu)
                          ELSE @,
                    !.b = s_mp_reduce(s_mp_sqr(@), m, mu)]
  IN  p[BitCount(d)].s

s_mp_exptmod(a, b, m) ==
  IF mp_cmp_z(b) = MP_LT \/ mp_cmp_z(m) # MP_GT THEN MP_RANGE
  ELSE ReduceLoop(mp_set(1), mp_mod(a, m), MagnitudeOf(b.dp), m,
         mp_div([sign |-> ZPOS, dp |-> s_mp_lshd(<<1>>, 2 * Len(m.dp))], m).q)

ModLoop(one, base, d, m) ==
  LET p[k \in 0..BitCount(d)] ==
        IF k = 0 THEN [s |-> one, b |-> base]
        ELSE LET last == p[k - 1]
             IN  [last EXCEPT
                    !.s = IF OddAfter(d, k - 1) THEN mp_mod(s_mp_mul(@, last.b), m) ELSE @,
                    !.b = mp_mod(s_mp_sqr(@), m)]
  IN  p[BitCount(d)].s

mp_exptmod_d(a, d, m) == ModLoop(mp_set(1), a, d, m)

-----------------------------------------------------------------------------
(* The calls *)

Store(r) == /\ ~Failed(r)
            /\ Len(r.dp) <= Len(DigitsOf(MaxMagnitude))
            /\ Abs(ValueOf(r)) <= MaxMagnitude
            /\ x' = r
            /\ UNCHANGED y

MayHalve == NegativeHalves \/ x.sign = ZPOS

mp_exch == /\ x' = y
           /\ y' = x

Init == x = mp_zero /\ y = mp_zero

Next ==
  \/ mp_exch
  \/ Store(y)                       \* mp_copy
  \/ Store(mp_abs(x))
  \/ Store(mp_neg(x))
  \/ Store(mp_add(x, y))
  \/ Store(mp_sub(x, y))
  \/ Store(mp_mul(x, y))
  \/ Store(mp_sqr(x))
  \/ Store(mp_mul_2(x))
  \/ Store(mp_div(x, y).q)
  \/ Store(mp_div(x, y).r)
  \/ Store(mp_mod(x, y))
  \/ mp_cmp_d(y, MaxExponent) # MP_GT /\ Store(mp_expt(x, y))
  \/ MayHalve /\ Store(mp_div_2(x))
  \/ \E z \in -MP_DIGIT_MAX..MP_DIGIT_MAX : Store(mp_set_int(z))
  \/ \E d \in Digit :
       \/ Store(mp_set_ulong(d))
       \/ Store(mp_add_d(x, d))
       \/ Store(mp_sub_d(x, d))
       \/ Store(mp_mul_d(x, d))
       \/ MayHalve /\ Store(mp_div_d(x, d).q)
       \/ Store(mp_mod_d(x, d))
       \/ mp_cmp_z(y) = MP_GT /\ Store(mp_exptmod_d(x, d, y))
       \/ Store(s_mp_exptmod(x, mp_set(d), y))
  \/ \E k \in 0..MaxExponent :
       \/ Store(mp_2expt(k))
       \/ Store(mp_expt_d(x, k))
       \/ MayHalve /\ Store(mp_div_2d(x, k).q)
       \/ MayHalve /\ Store(mp_div_2d(x, k).r)

Spec == Init /\ [][Next]_vars

-----------------------------------------------------------------------------
(* Properties.  In each reachable pair of numbers the result of a call is  *)
(* compared with the integers the numbers stand for.                       *)

X == ValueOf(x)
Y == ValueOf(y)
Sgn(n) == IF n < 0 THEN -1 ELSE IF n > 0 THEN 1 ELSE 0
Pow(n, k) == LET p[j \in 0..k] == IF j = 0 THEN 1 ELSE p[j - 1] * n IN p[k]

(***************************************************************************)
(* However long the chain of calls, no number has a leading zero digit     *)
(* and zero is positive: s_mp_cmp and mp_cmp_z, which every later call     *)
(* branches on, look at the length and the sign before the digits.         *)
(***************************************************************************)
Canonical == \A n \in {x, y} : n = Number(ValueOf(n))

(***************************************************************************)
(* Carries and borrows found by comparing wrapped digits lose nothing:     *)
(* sums and differences of numbers of either sign and different lengths,   *)
(* with single digits and at a digit offset, are the integers' own.        *)
(***************************************************************************)
AdditionExact ==
  /\ ValueOf(mp_add(x, y)) = X + Y
  /\ ValueOf(mp_sub(x, y)) = X - Y
  /\ \A d \in Digit : /\ ValueOf(mp_add_d(x, d)) = X + d
                      /\ ValueOf(mp_sub_d(x, d)) = X - d
  /\ MagnitudeOf(s_mp_add_offset(x, y, 1).dp) = Abs(X) + MP_RADIX * Abs(Y)

(***************************************************************************)
(* Products: the inner loops with their carries, squaring by doubled cross *)
(* products, and the shortcuts for powers of two give the same integer.    *)
(***************************************************************************)
ProductsExact ==
  /\ ValueOf(mp_mul(x, y)) = X * Y
  /\ ValueOf(mp_sqr(x)) = X * X
  /\ ValueOf(mp_mul_2(x)) = 2 * X
  /\ \A d \in Digit : ValueOf(mp_mul_d(x, d)) = X * d
  /\ \A k \in 0..MaxExponent : /\ MagnitudeOf(s_mp_mul_2d(x.dp, k)) = Abs(X) * 2^k
                               /\ ValueOf(mp_expt_d(x, k)) = Pow(X, k)

\* What mp_mod_d answers.  "Result will always be 0 <= c < d" (mpi.c:1290) is
\* true of it but for a number equal to d, whose remainder is d, and below -d
\* it is the magnitude that is reduced.
DigitRemainder(n, d) ==
  IF n = d THEN d ELSE IF n < -d THEN Abs(n) % d ELSE n % d

(***************************************************************************)
(* Division: guessed quotient digits are taken back until they are right,  *)
(* so q * y + r = x with |r| < |y| and the signs that mp_div documents;    *)
(* mp_mod is in 0..m-1, and mp_mod_d too but for the two cases that        *)
(* DigitRemainder names (mpi.c:1300); a zero divisor is refused.           *)
(* Quotients of a negative number by a digit or by 2^d are left out.       *)
(***************************************************************************)
QuotientsExact ==
  LET qr == mp_div(x, y)
  IN  /\ Y = 0 => Failed(qr.q)
      /\ X # 0 => Failed(mp_mod_d(x, 0))
      /\ \A d \in Digit \ {0} : ValueOf(mp_mod_d(x, d)) = DigitRemainder(X, d)
      /\ Y # 0 => /\ ValueOf(qr.q) * Y + ValueOf(qr.r) = X
                  /\ Abs(ValueOf(qr.r)) < Abs(Y)
                  /\ Sgn(ValueOf(qr.r)) \in {0, Sgn(X)}
      /\ Y > 0 => ValueOf(mp_mod(x, y)) = X % Y
      /\ X >= 0 =>
           /\ \A d \in Digit \ {0} : /\ ValueOf(mp_div_d(x, d).q) = X \div d
                                     /\ mp_div_d(x, d).r = X % d
           /\ \A k \in 0..MaxExponent :
                /\ ValueOf(mp_div_2d(x, k).q) = X \div 2^k
                /\ ValueOf(mp_div_2d(x, k).r) = X % 2^k

(***************************************************************************)
(* Powers: "c = a ** b" (mpi.c:1136) is true of mp_expt but for an even    *)
(* power of a negative number, which gets the sign of the number           *)
(* (mpi.c:1194): (-2)^2 is -4; a negative exponent is refused.  Modular    *)
(* powers: Barrett's estimate in s_mp_exptmod and the plain remainders of  *)
(* mp_exptmod_d agree with the power modulo y.  A modulus of one is left   *)
(* out for a zero exponent, where both functions answer one.               *)
(***************************************************************************)
PowersExact ==
  /\ Y < 0 => Failed(mp_expt(x, y))
  /\ Y \in 0..MaxExponent =>
       ValueOf(mp_expt(x, y)) = IF X < 0 /\ Y % 2 = 0 THEN -Pow(X, Y) ELSE Pow(X, Y)
  /\ Y > 0 => \A d \in Digit :
                d > 0 \/ Y > 1 =>
                  /\ ValueOf(s_mp_exptmod(x, mp_set(d), y)) = Pow(X, d) % Y
                  /\ ValueOf(mp_exptmod_d(x, d, y)) = Pow(X, d) % Y

(***************************************************************************)
(* Comparisons agree with the order of the integers, zero included: what   *)
(* mp_cmp_z, mp_cmp_d, mp_cmp and mp_cmp_mag say in their comments.        *)
(***************************************************************************)
OrderExact ==
  /\ mp_cmp_z(x) = Sgn(X)
  /\ mp_cmp(x, y) = Sgn(X - Y)
  /\ mp_cmp_mag(x, y) = Sgn(Abs(X) - Abs(Y))
  /\ \A d \in Digit : mp_cmp_d(x, d) = Sgn(X - d)

(***************************************************************************)
(* Whatever chain of calls of mpi.c led to x and y, they are canonical and *)
(* the calls that the parts above compare answer with the integers' sum,   *)
(* difference, product, quotient, remainder, power or order.  The parts    *)
(* name where the code departs from its comments: mp_expt of a negative    *)
(* number, mp_mod_d of a number equal to the digit or below its negative,  *)
(* the modulus of one.  Quotients of negative numbers by a digit or by 2^d *)
(* are neither compared nor, unless NegativeHalves, made: a quotient of    *)
(* zero keeps the number's sign there (mpi.c:598), and a later comparison  *)
(* takes it for a number below zero.                                       *)
(***************************************************************************)
ArithmeticExact ==
  /\ Canonical /\ AdditionExact /\ ProductsExact /\ QuotientsExact
  /\ PowersExact /\ OrderExact

=============================================================================
