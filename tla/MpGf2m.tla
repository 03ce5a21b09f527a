------------------------------- MODULE MpGf2m -------------------------------
(***************************************************************************)
(* src/mpi/mp_gf2m.c: arithmetic on polynomials with coefficients 0 and 1, *)
(* packed in the digits of a number, modulo a polynomial f given as the    *)
(* array p of its exponents, largest first and 0 last.  The state is two   *)
(* polynomials and the modulus, and every action is one call.  As in       *)
(* MpiDigits a digit is narrower than the code's; the tables shrink with   *)
(* it.                                                                     *)
(***************************************************************************)
EXTENDS MpiDigits, Bitwise, Functions

CONSTANTS
  TableBits,    \* index bits of tab[] in s_bmul_1x1: 4 for 64-bit digits, else 3
  SquareBits,   \* index bits of mp_gf2m_sqr_tb: 4 in the code
  Polynomials,  \* the arrays p in use
  MaxDegree,    \* bound: the largest degree of a polynomial that is stored
  Operands      \* bound: the values of the second polynomial

ASSUME MpGf2mAssumption ==
  /\ TableBits \in 1..MP_DIGIT_BIT
  /\ SquareBits \in 1..HalfBits /\ HalfBits % SquareBits = 0
  /\ \A p \in Polynomials : p[Len(p)] = 0 /\ \A k \in 2..Len(p) : p[k] < p[k - 1]
  /\ MaxDegree \in Nat /\ Operands \subseteq Nat

VARIABLES
  pa, pb,   \* the polynomials, as digits
  p         \* the modulus in use, << >> before there is one
gfVars == <<pa, pb, p>>

\* Exclusive or of digits, tabulated because every step below uses it.
XorTable == [d, e \in Digit |-> d ^^ e]
d (+) e == XorTable[d, e]
XorOver(f) == FoldFunction((+), 0, f)
SHL(d, n) == Wrap(d * 2^n)
SHR(d, n) == d \div 2^n
IsOdd(a) == a[1] % 2 = 1

-----------------------------------------------------------------------------
(* Products *)

\* The bits of a that the table leaves out.
TopBits(a) ==
  {k \in (MP_DIGIT_BIT - TableBits + 1)..(MP_DIGIT_BIT - 1) : SHR(a, k) % 2 = 1}

\* The low and the high digit of a product: tab[i] is i times a without its
\* top bits, which are multiplied in on their own.
s_bmul_1x1 == [a, b \in Digit |->
  LET kept == a % 2^(MP_DIGIT_BIT - TableBits + 1)
      tab == [i \in 0..(2^TableBits - 1) |->
                XorOver([k \in 0..(TableBits - 1) |-> (SHR(i, k) % 2) * SHL(kept, k)])]
      s(k) == tab[SHR(b, k * TableBits) % 2^TableBits]
      windows == 0..((MP_DIGIT_BIT - 1) \div TableBits)
  IN  <<XorOver([k \in windows |-> SHL(s(k), k * TableBits)])
          (+) XorOver([k \in TopBits(a) |-> SHL(b, k)]),
        XorOver([k \in windows |-> SHR(s(k), MP_DIGIT_BIT - k * TableBits)])
          (+) XorOver([k \in TopBits(a) |-> SHR(b, MP_DIGIT_BIT - k)])>>]

\* Karatsuba: three products of digits instead of four.  Least digit first.
FromThree(h, l, m) ==
  LET r2 == ((h[1] (+) m[2]) (+) l[2]) (+) h[2]
      r1 == (((h[2] (+) r2) (+) l[1]) (+) m[2]) (+) m[1]
  IN  <<l[1], r1, r2, h[2]>>

s_bmul_2x2(a, b) == FromThree(s_bmul_1x1[a[2], b[2]], s_bmul_1x1[a[1], b[1]],
                              s_bmul_1x1[a[1] (+) a[2], b[1] (+) b[2]])

\* r holds the low and, from its fifth digit, the high product; zm is the
\* product of the sums.
AddMiddleProduct(r, zm) ==
  LET z(i) == (zm[i] (+) r[i]) (+) At(r, i + 4)
  IN  [i \in 1..Len(r) |-> IF i \in 3..6 THEN r[i] (+) z(i - 2) ELSE r[i]]

s_bmul_3x3(a, b) ==
  AddMiddleProduct(
    s_bmul_2x2(<<a[1], a[2]>>, <<b[1], b[2]>>) \o s_bmul_1x1[a[3], b[3]],
    s_bmul_2x2(<<a[3] (+) a[1], a[2]>>, <<b[3] (+) b[1], b[2]>>))

s_bmul_4x4(a, b) ==
  AddMiddleProduct(
    s_bmul_2x2(<<a[1], a[2]>>, <<b[1], b[2]>>)
      \o s_bmul_2x2(<<a[3], a[4]>>, <<b[3], b[4]>>),
    s_bmul_2x2(<<a[3] (+) a[1], a[4] (+) a[2]>>, <<b[3] (+) b[1], b[4] (+) b[2]>>))

mp_badd(a, b) ==
  LET used == IF Len(a) >= Len(b) THEN Len(a) ELSE Len(b)
  IN  s_mp_clamp([i \in 1..used |-> At(a, i) (+) At(b, i)])

\* One digit of b times all of a, at an offset; the carry of the last digit is
\* the digit above a.
s_bmul_d_add(a, b, offset, i) ==
  LET k == i - offset
  IN  (IF k \in 1..Len(a) THEN s_bmul_1x1[a[k], b][1] ELSE 0)
        (+) (IF k - 1 \in 1..Len(a) THEN s_bmul_1x1[a[k - 1], b][2] ELSE 0)
s_bmul_d(a, b, i) == s_bmul_d_add(a, b, 0, i)

\* The longer polynomial is the inner one.  A digit of b that is zero adds
\* nothing but the zero digit above.
mp_bmul(m, n) ==
  LET a == IF Len(m) < Len(n) THEN n ELSE m
      b == IF Len(m) < Len(n) THEN m ELSE n
  IN  s_mp_clamp([i \in 1..(Len(a) + Len(b)) |->
        s_bmul_d(a, b[1], i)
          (+) XorOver([ib \in {j \in 2..Len(b) : b[j] # 0} |->
                        s_bmul_d_add(a, b[ib], ib - 1, i)])])

-----------------------------------------------------------------------------
(* Reduction *)

\* The bits that fall below the digit are lost.
TakeDown_NoSpill(zz, j, n, i) ==
  IF i = j - n \div MP_DIGIT_BIT THEN SHR(zz, n % MP_DIGIT_BIT) ELSE 0

\* What digit i gains when digit zz at j is taken down by n bits.
TakeDown(zz, j, n, i) ==
  LET d0 == n % MP_DIGIT_BIT
      to == j - n \div MP_DIGIT_BIT
  IN  CASE i = to -> SHR(zz, d0)
        [] i = to - 1 /\ d0 # 0 -> SHL(zz, MP_DIGIT_BIT - d0)
        [] OTHER -> 0

\* Every digit above the one with f's leading term, from the top.  A digit may
\* gain bits from its own reduction and is then reduced again.
RECURSIVE HighDigits(_, _, _)
HighDigits(z, f, j) ==
  LET terms(i) == XorOver([k \in 2..Len(f) |-> TakeDown(z[j], j, f[1] - f[k], i)])
  IN  CASE j <= f[1] \div MP_DIGIT_BIT + 1 -> z
        [] j > f[1] \div MP_DIGIT_BIT + 1 /\ z[j] = 0 -> HighDigits(z, f, j - 1)
        [] OTHER -> HighDigits([i \in 1..Len(z) |->
                      (IF i = j THEN 0 ELSE z[i]) (+) terms(i)], f, j)

\* The final round: the bits of the digit of f's leading term from that term
\* upwards, until none is set.
RECURSIVE LastDigit(_, _)
LastDigit(z, f) ==
  LET dN == f[1] \div MP_DIGIT_BIT + 1
      d0 == f[1] % MP_DIGIT_BIT
      zz == SHR(z[dN], d0)
      gain(t, i) == CASE i = t \div MP_DIGIT_BIT + 1 -> SHL(zz, t % MP_DIGIT_BIT)
                      [] i = t \div MP_DIGIT_BIT + 2 ->
                           SHR(zz, MP_DIGIT_BIT - (t % MP_DIGIT_BIT))
                      [] OTHER -> 0
  IN  IF zz = 0 THEN z
      ELSE LastDigit([i \in 1..Len(z) |->
             (IF i = dN THEN z[i] % 2^d0 ELSE z[i])
               (+) XorOver([k \in 2..Len(f) |-> gain(f[k], i)])], f)

mp_bmod(a, f) ==
  LET z == HighDigits(a, f, Len(a))
  IN  s_mp_clamp(IF Len(a) > f[1] \div MP_DIGIT_BIT THEN LastDigit(z, f) ELSE z)

\* mp_gf2m_sqr_tb, and the macros that square a half digit with it.
mp_gf2m_sqr_tb ==
  [v \in 0..(2^SquareBits - 1) |->
     XorOver([k \in 0..(SquareBits - 1) |-> (SHR(v, k) % 2) * 2^(2 * k)])]
gf2m_SQR0(w) ==
  XorOver([k \in 0..(HalfBits \div SquareBits - 1) |->
    SHL(mp_gf2m_sqr_tb[SHR(w, k * SquareBits) % 2^SquareBits], 2 * k * SquareBits)])
gf2m_SQR1(w) == gf2m_SQR0(Hi(w))

mp_bsqrmod(a, f) == mp_bmod([i \in 1..(2 * Len(a)) |->
  IF i % 2 = 1 THEN gf2m_SQR0(a[(i + 1) \div 2]) ELSE gf2m_SQR1(a[i \div 2])], f)

\* aliased: a and b are the same number, which is squared.
mp_bmulmod(a, b, f, aliased) ==
  IF aliased THEN mp_bsqrmod(a, f) ELSE mp_bmod(mp_bmul(a, b), f)

-----------------------------------------------------------------------------
(* Division *)

s_mp_div2(a) == s_mp_div_2d([sign |-> ZPOS, dp |-> a], 1).dp

\* s[1] is halved, and s[2] with it modulo the polynomial pp.
HalveBoth(s, pp) ==
  <<s_mp_div2(s[1]),
    s_mp_div2(IF IsOdd(s[2]) THEN mp_badd(s[2], pp) ELSE s[2])>>
RECURSIVE MakeOddBoth(_, _)
MakeOddBoth(s, pp) == IF IsOdd(s[1]) THEN s ELSE MakeOddBoth(HalveBoth(s, pp), pp)

\* au and bv are the pairs (a, u) and (b, v): a = u * x / y and b = v * x / y.
RECURSIVE Divide(_, _, _)
Divide(au, bv, pp) ==
  LET sum == <<mp_badd(au[1], bv[1]), mp_badd(au[2], bv[2])>>
      odd == MakeOddBoth(HalveBoth(sum, pp), pp)
  IN  CASE s_mp_cmp(bv[1], au[1]) = MP_GT -> Divide(au, odd, pp)
        [] s_mp_cmp(bv[1], au[1]) # MP_GT /\ au[1] = <<1>> -> au[2]
        [] OTHER -> Divide(odd, bv, pp)

\* Called with x that has an inverse: the loops never end for another one.
mp_bdivmod(n, d, pp, f) ==
  Divide(MakeOddBoth(<<mp_bmod(d, f), mp_bmod(n, f)>>, pp), <<pp, <<0>>>>, pp)

-----------------------------------------------------------------------------
(* Arrays of exponents *)

ExponentsOf(a) ==
  {k \in 0..(Len(a) * MP_DIGIT_BIT - 1) :
     SHR(a[k \div MP_DIGIT_BIT + 1], k % MP_DIGIT_BIT) % 2 = 1}

\* The exponents in the order in which the bits are met, from the highest.
Ranked(a, k) ==
  {e \in ExponentsOf(a) : Cardinality({g \in ExponentsOf(a) : g > e}) = k - 1}

\* At most max are stored, the rest of the array is zero, and all are counted.
mp_bpoly2arr(a, max) ==
  [count |-> Cardinality(ExponentsOf(a)),
   p |-> [k \in 1..max |->
            IF k <= Cardinality(ExponentsOf(a)) THEN CHOOSE e \in Ranked(a, k) : TRUE
            ELSE 0]]

\* The array is read up to its first 0, which stands for the constant term.
mp_barr2poly(f) ==
  LET end == CHOOSE k \in 1..Len(f) : f[k] = 0 /\ \A j \in 1..(k - 1) : f[j] # 0
      set == {f[k] : k \in 1..end}
      used == f[1] \div MP_DIGIT_BIT + 1
  IN  [i \in 1..used |-> XorOver([e \in {t \in set : t \div MP_DIGIT_BIT + 1 = i} |->
                                    2^(e % MP_DIGIT_BIT)])]

-----------------------------------------------------------------------------
(* Two polynomials and the calls on them.                                  *)

pp == mp_barr2poly(p)

GfInit == /\ p \in Polynomials
          /\ pa \in {DigitsOf(n) : n \in 0..(2^(MaxDegree + 1) - 1)}
          /\ pb \in {DigitsOf(n) : n \in Operands}

Keep(a) == MagnitudeOf(a) < 2^(MaxDegree + 1) /\ pa' = a /\ UNCHANGED <<pb, p>>

Add == Keep(mp_badd(pa, pb))
Mul == Keep(mp_bmul(pa, pb))
Mod == Keep(mp_bmod(pa, p))
MulMod == \E aliased \in {FALSE, pa = pb} : Keep(mp_bmulmod(pa, pb, p, aliased))
SqrMod == Keep(mp_bsqrmod(pa, p))
DivMod == mp_bmod(pb, p) # <<0>> /\ Keep(mp_bdivmod(pa, pb, pp, p))
FromArray == Keep(mp_barr2poly(mp_bpoly2arr(pa, Cardinality(ExponentsOf(pa)) + 1).p))
GfNext == Add \/ Mul \/ Mod \/ MulMod \/ SqrMod \/ DivMod \/ FromArray
GfSpec == GfInit /\ [][GfNext]_gfVars

-----------------------------------------------------------------------------
(* Properties.  The value of a polynomial is the number its bits spell.    *)

Times(m, n) ==
  FoldSet(LAMBDA k, sum : sum ^^ (m * 2^k), 0,
                      {j \in 0..(4 * MP_DIGIT_BIT - 1) : SHR(n, j) % 2 = 1})
Bits(a) == MagnitudeOf(a)
RECURSIVE Remainder(_, _)
Remainder(m, n) ==
  LET over == {k \in 0..(2 * MaxDegree) : m >= 2^(k + p[1])}
  IN  IF over = {} THEN m ELSE Remainder(m ^^ (n * 2^Max(over)), n)

\* Every polynomial that a call leaves has digits of the digit's width and no
\* zero digit on top: mp_bmod compares lengths, and mp_bdivmod ends when a
\* number has the single digit 1.
PolyCanonical ==
  \A a \in {pa, pb} : /\ Len(a) >= 1 /\ \A i \in 1..Len(a) : a[i] \in Digit
                     /\ Len(a) > 1 => Top(a) # 0

\* The products put together from tables, from high bits multiplied on their
\* own and from Karatsuba's three products are the product of polynomials.
BmulExact ==
  p # << >> =>
  LET a == At(pa, 1)  b == At(pa, 2)  c == At(pb, 1)  d == At(pb, 2)
      exact(r, m, n) == Bits(r) = Times(Bits(m), Bits(n))
  IN  /\ exact(mp_bmul(pa, pb), pa, pb)
      /\ exact(s_bmul_2x2(<<a, b>>, <<c, d>>), <<a, b>>, <<c, d>>)
      /\ exact(s_bmul_3x3(<<a, d, b>>, <<c, b, d>>), <<a, d, b>>, <<c, b, d>>)
      /\ s_mp_clamp(s_bmul_4x4(<<a, b, c, d>>, <<d, a, b, c>>))
           = mp_bmul(<<a, b, c, d>>, <<d, a, b, c>>)

\* Reduction digit by digit with the exponents of f gives the remainder of the
\* division by f, also when f's leading term is the lowest bit of a digit and
\* when a digit's own reduction sets its high bits again; squaring by table
\* and then reducing is multiplying by itself and then reducing.
BmodExact ==
  p # << >> =>
  LET f == Bits(pp)
  IN  /\ Bits(mp_bmod(pa, p)) = Remainder(Bits(pa), f)
      /\ Bits(mp_bsqrmod(pa, p)) = Remainder(Times(Bits(pa), Bits(pa)), f)
      /\ Bits(mp_bmulmod(pa, pb, p, FALSE)) = Remainder(Times(Bits(pa), Bits(pb)), f)

\* What mp_bdivmod returns, multiplied by the divisor, is the dividend, and it
\* is reduced.
BdivExact ==
  p # << >> /\ mp_bmod(pb, p) # <<0>> =>
    LET q == mp_bdivmod(pa, pb, pp, p)
    IN  /\ Bits(q) < 2^p[1]
        /\ Remainder(Times(Bits(q), Bits(pb)), Bits(pp)) = Remainder(Bits(pa), Bits(pp))

\* A polynomial with a constant term survives its conversion to the array of
\* its exponents and back; a short array gets the highest exponents and the
\* count of all of them.
ArraysExact ==
  p # << >> =>
  \A max \in 0..(Cardinality(ExponentsOf(pa)) + 1) :
    LET r == mp_bpoly2arr(pa, max)
        stored == {r.p[k] : k \in 1..(IF max < r.count THEN max ELSE r.count)}
    IN  /\ r.count = Cardinality(ExponentsOf(pa))
        /\ stored \subseteq ExponentsOf(pa)
        /\ \A e \in ExponentsOf(pa) \ stored, s \in stored : e < s
        /\ max >= r.count /\ IsOdd(pa) => mp_barr2poly(r.p) = pa

\* The calls of mp_gf2m.c leave canonical polynomials and compute products,
\* remainders, quotients and conversions over GF(2).
PolynomialsExact == PolyCanonical /\ BmulExact /\ BmodExact /\ BdivExact /\ ArraysExact

=============================================================================
