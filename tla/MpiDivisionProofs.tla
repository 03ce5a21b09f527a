------------------------- MODULE MpiDivisionProofs --------------------------
(***************************************************************************)
(* Theorems about the quotients, remainders and modular powers of          *)
(* src/mpi/mpi.c, for digits of every width and numbers of every length,   *)
(* and about chains of all the calls of MpiArith.                          *)
(***************************************************************************)
EXTENDS MpiProofs

-----------------------------------------------------------------------------
(* Shifts to the right *)

ShiftedDown(dp, b) ==
  [i \in 1 .. Len(dp) |-> dp[i] \div 2 ^ b + (At(dp, i + 1) % 2 ^ b) * 2 ^ (MP_DIGIT_BIT - b)]

LEMMA DownDigitIs ==
    ASSUME NEW b \in 0 .. MP_DIGIT_BIT, NEW d \in Digit, NEW p \in Digit
    PROVE  LET h == 2 ^ b
               g == 2 ^ (MP_DIGIT_BIT - b)
               e == d \div h + (p % h) * g
           IN  /\ e \in Digit /\ (d % h) \in Nat /\ (p % h) \in Nat
               /\ h * e + (d % h) = d + MP_RADIX * (p % h)
<1> DEFINE R == MP_RADIX
           h == 2 ^ b
           g == 2 ^ (MP_DIGIT_BIT - b)
           q == d \div h
           r == d % h
           m == p % h
           e == q + m * g
<1>1. h \in Nat /\ h > 0 /\ g \in Nat /\ g > 0 /\ h * g = R BY BitsOf
<1>2. R \in Nat /\ d \in Nat /\ d < R /\ p \in Nat /\ p < R /\ R > 0 BY RadixIs, DigitInt
<1> HIDE DEF h, g
<1>3. q \in Nat /\ r \in Nat /\ r < h /\ d = q * h + r BY <1>1, <1>2, DivisionIs
<1>4. m \in Nat /\ m < h BY <1>1, <1>2, DivisionIs
<1>5. q < g
    <2>1. g * h = R BY <1>1
    <2>2. d < g * h BY <1>2, <2>1
    <2> QED BY <1>1, <1>2, <2>2, QuotientBelow
<1> HIDE DEF q, r, m
<1> DEFINE mg == m * g
           hq == q * h
<1>6. mg \in Nat /\ hq \in Nat BY <1>1, <1>3, <1>4
<1>7. mg + g <= R
    <2>1. (m + 1) * g <= h * g BY <1>1, <1>4
    <2>2. (m + 1) * g = mg + g BY <1>1, <1>4
    <2> QED BY <1>1, <2>1, <2>2
<1>8. h * (q + mg) = hq + R * m
    <2>1. h * (q + m * g) = q * h + (h * g) * m BY <1>1, <1>3, <1>4
    <2> QED BY <1>1, <2>1
<1>9. e = q + mg OBVIOUS
<1> HIDE DEF mg, hq, e
<1>10. e \in 0 .. R - 1 BY <1>1, <1>2, <1>3, <1>5, <1>6, <1>7, <1>9
<1>11. e \in Digit BY <1>10, RadixIs DEF R
<1>12. h * e + r = d + R * m
    <2> DEFINE rm == R * m
    <2>1. rm \in Nat BY <1>2, <1>4
    <2>2. h * e = hq + rm /\ d = hq + r BY <1>3, <1>8, <1>9 DEF hq
    <2> HIDE DEF rm
    <2>3. (hq + rm) + r = (hq + r) + rm BY <1>3, <1>6, <2>1
    <2> QED BY <2>2, <2>3 DEF rm
<1> QED BY <1>3, <1>4, <1>11, <1>12 DEF h, g, q, r, m, e, R

LEMMA ShiftedDownIs ==
    ASSUME NEW dp \in Seq(Digit), NEW b \in 0 .. MP_DIGIT_BIT
    PROVE  /\ ShiftedDown(dp, b) \in Seq(Digit) /\ Len(ShiftedDown(dp, b)) = Len(dp)
           /\ MagnitudeOf(ShiftedDown(dp, b)) = MagnitudeOf(dp) \div 2 ^ b
<1> DEFINE n == Len(dp)
           s == ShiftedDown(dp, b)
           h == 2 ^ b
           g == 2 ^ (MP_DIGIT_BIT - b)
           m(i) == At(dp, i) % h
           e(i) == At(dp, i) \div h + m(i + 1) * g
<1>0. n \in Nat OBVIOUS
<1>1. h \in Nat /\ h > 0 /\ g \in Nat /\ g > 0 /\ h * g = MP_RADIX BY BitsOf
<1>2. ASSUME NEW i \in Int
      PROVE  /\ e(i) \in Digit /\ m(i) \in Nat /\ m(i + 1) \in Nat
             /\ h * e(i) + m(i) = At(dp, i) + MP_RADIX * m(i + 1)
    <2>1. At(dp, i) \in Digit BY AtIs
    <2>2. At(dp, i + 1) \in Digit
        <3>1. i + 1 \in Int OBVIOUS
        <3> QED BY <3>1, AtIs
    <2> QED BY <2>1, <2>2, DownDigitIs
<1>3. s = [i \in 1 .. n |-> dp[i] \div h + m(i + 1) * g] BY DEF ShiftedDown
<1>4. \A i \in 1 .. n : s[i] = e(i)
    <2>1. \A i \in 1 .. n : At(dp, i) = dp[i] BY DEF At
    <2> HIDE DEF s, h, g, n, m
    <2> QED BY <1>3, <2>1
<1> HIDE DEF h, g
<1>5. s \in Seq(Digit) /\ Len(s) = n
    <2>1. \A i \in 1 .. n : s[i] \in Digit
        <3> SUFFICES ASSUME NEW i \in 1 .. n PROVE s[i] \in Digit OBVIOUS
        <3>1. i \in Int OBVIOUS
        <3> HIDE DEF s, e
        <3> QED BY <1>2, <1>4, <3>1
    <2>2. s = [i \in 1 .. n |-> s[i]]
        <3> HIDE DEF m, n
        <3> QED BY <1>3
    <2> HIDE DEF s, n
    <2> QED BY <1>0, <2>1, <2>2
<1>6. \A i \in 1 .. n : At(s, i) = e(i)
    <2> HIDE DEF s, e
    <2> QED BY <1>4, <1>5 DEF At
<1> HIDE DEF s, e
<1> DEFINE P == {i \in Nat : h * Part(s, i) + m(1) = Part(dp, i) + Weight(i) * m(i + 1)}
<1>7. 0 \in P
    <2>1. Part(s, 0) = 0 /\ Part(dp, 0) = 0 BY <1>5, PartIs
    <2>2. Weight(0) = 1 BY WeightIs
    <2>3. m(1) \in Nat
        <3>1. 1 \in Int OBVIOUS
        <3> HIDE DEF m
        <3> QED BY <1>2, <3>1
    <2>4. m(0 + 1) = m(1)
        <3>1. 0 + 1 = 1 OBVIOUS
        <3> QED BY <3>1
    <2> HIDE DEF m
    <2>5. h * 0 + m(1) = 0 + 1 * m(1) BY <1>1, <2>3
    <2> QED BY <2>1, <2>2, <2>4, <2>5
<1>8. ASSUME NEW i \in 0 .. n - 1, i \in P PROVE i + 1 \in P
    <2> DEFINE w == Weight(i)
               R == MP_RADIX
               d == At(dp, i + 1)
               f == At(s, i + 1)
               u == m((i + 1) + 1)
               v == m(i + 1)
               S == Part(s, i)
               D == Part(dp, i)
               z == m(1)
    <2>1. i \in Nat /\ i + 1 \in Nat /\ i + 1 \in 1 .. n /\ i + 1 \in Int BY <1>0
    <2>2. h * f + v = d + R * u /\ u \in Nat /\ v \in Nat /\ f \in Nat
        <3> HIDE DEF m
        <3>1. f = e(i + 1) BY <1>6, <2>1
        <3>2. /\ e(i + 1) \in Digit /\ v \in Nat /\ u \in Nat
              /\ h * e(i + 1) + v = d + R * u
            BY <1>2, <2>1
        <3>3. f \in Nat BY <3>1, <3>2, DigitInt
        <3> QED BY <3>1, <3>2, <3>3
    <2>3. /\ Part(s, i + 1) = S + f * w /\ S \in Nat
          /\ Part(dp, i + 1) = D + d * w /\ D \in Nat
        BY <1>5, <2>1, PartIs
    <2>4. w \in Nat /\ Weight(i + 1) = R * w BY <2>1, WeightIs
    <2>5. R \in Nat BY RadixIs
    <2>6. d \in Nat
        <3>1. d \in Digit BY <2>1, AtIs
        <3> QED BY <3>1, DigitInt
    <2>7. h * S + z = D + w * v BY <1>8
    <2>8. z \in Nat
        <3>1. 1 \in Int OBVIOUS
        <3> HIDE DEF m
        <3> QED BY <1>2, <3>1
    <2>9. SUFFICES h * Part(s, i + 1) + z = Part(dp, i + 1) + Weight(i + 1) * u BY <2>1
    <2> HIDE DEF w, R, d, f, u, v, S, D, z, m
    <2>10. (h * f + v) * w = (d + R * u) * w BY <2>2
    <2>11. (h * f + v) * w = h * (f * w) + w * v BY <1>1, <2>2, <2>4
    <2>12. (d + R * u) * w = d * w + (R * w) * u BY <2>2, <2>4, <2>5, <2>6
    <2>13. h * (S + f * w) = h * S + h * (f * w) BY <1>1, <2>2, <2>3, <2>4
    <2> DEFINE hf == h * (f * w)
               wv == w * v
               dw == d * w
               ru == (R * w) * u
               hS == h * S
    <2>14. hf \in Nat /\ wv \in Nat /\ dw \in Nat /\ ru \in Nat /\ hS \in Nat
        BY <1>1, <2>2, <2>3, <2>4, <2>5, <2>6
    <2>15. /\ hf + wv = dw + ru /\ hS + z = D + wv /\ h * Part(s, i + 1) = hS + hf
           /\ Part(dp, i + 1) = D + dw /\ Weight(i + 1) * u = ru
        BY <2>3, <2>4, <2>7, <2>10, <2>11, <2>12, <2>13
    <2> HIDE DEF hf, wv, dw, ru, hS
    <2> QED BY <2>3, <2>8, <2>14, <2>15
<1> HIDE DEF P
<1>9. \A i \in 0 .. n : i \in P BY <1>0, <1>7, <1>8, UptoInduct
<1>10. n \in P
    <2>1. n \in 0 .. n BY <1>0
    <2> HIDE DEF n
    <2> QED BY <1>9, <2>1
<1>11. Part(dp, n) = MagnitudeOf(dp) /\ Part(s, n) = MagnitudeOf(s)
    <2>1. n >= Len(dp) /\ n >= Len(s) BY <1>0, <1>5
    <2> QED BY <1>0, <1>5, <2>1, MagnitudeIs
<1>12. m(n + 1) = 0
    <2>1. n + 1 \in Int /\ n + 1 > Len(dp) BY <1>0
    <2>2. At(dp, n + 1) = 0 BY <2>1, AtIs
    <2>3. 0 % h = 0 BY <1>1
    <2> QED BY <2>2, <2>3
<1> DEFINE M == MagnitudeOf(dp)
           T == MagnitudeOf(s)
           z == m(1)
<1>13. z \in Nat /\ z < h
    <2>1. At(dp, 1) \in Digit
        <3>1. 1 \in Int OBVIOUS
        <3> QED BY <3>1, AtIs
    <2>2. At(dp, 1) \in Nat BY <2>1, DigitInt
    <2> QED BY <1>1, <2>2, DivisionIs
<1>14. T \in Nat BY <1>5, MagnitudeIs
<1>15. M \in Nat BY MagnitudeIs
<1>16. M = T * h + z
    <2>1. h * Part(s, n) + m(1) = Part(dp, n) + Weight(n) * m(n + 1) BY <1>10 DEF P
    <2>2. Weight(n) * 0 = 0
        <3>1. Weight(n) \in Nat BY <1>0, WeightIs
        <3> QED BY <3>1
    <2> HIDE DEF z, n
    <2>3. h * T + z = M + 0 BY <1>11, <1>12, <2>1, <2>2 DEF z
    <2> HIDE DEF M, T
    <2> QED BY <1>1, <1>13, <1>14, <1>15, <2>3
<1> HIDE DEF M, T, z, m
<1>17. M \div h = T BY <1>1, <1>13, <1>14, <1>15, <1>16, DivisionUnique
<1> QED BY <1>5, <1>17 DEF M, T, s, n, h

LEMMA RshdIs ==
    ASSUME NEW a \in Signed, NEW p \in Nat
    PROVE  /\ s_mp_rshd(a, p) \in Signed
           /\ s_mp_rshd(a, p).sign = ZPOS \/ s_mp_rshd(a, p).sign = a.sign
           /\ MagnitudeOf(s_mp_rshd(a, p).dp) = MagnitudeOf(a.dp) \div Weight(p)
<1> DEFINE dp == a.dp
           n == Len(dp)
           A == MagnitudeOf(dp)
           r == s_mp_rshd(a, p)
           W == Weight(p)
<1>1. Normal(dp) /\ dp \in Seq(Digit) /\ dp # <<>> /\ A \in Nat /\ n \in Nat /\ n > 0
    <2>1. Normal(dp) BY SignedIs
    <2> QED BY <2>1, NormalIs DEF Normal
<1>2. W \in Nat /\ W > 0 BY WeightIs
<1>3. A < Weight(n) /\ Weight(n) \in Nat
    <2>1. A < Weight(n) BY <1>1, MagnitudeIs
    <2>2. Weight(n) \in Nat BY <1>1, WeightIs
    <2> QED BY <2>1, <2>2
<1>4. a = [sign |-> a.sign, dp |-> dp] /\ a.sign \in {ZPOS, NEG} BY SignedIs
<1>5. CASE p >= n /\ p > 0
    <2>1. r = mp_zero BY <1>5 DEF s_mp_rshd
    <2>2. 0 \in Digit BY RadixIs
    <2>3. Normal(<<0>>) /\ MagnitudeOf(<<0>>) = 0 BY <2>2, OneDigit
    <2>4. mp_zero \in Signed BY ZeroIs, NumbersIs
    <2>5. mp_zero.sign = ZPOS /\ mp_zero.dp = <<0>> BY DEF mp_zero
    <2>6. A \div W = 0
        <3>1. Weight(n) <= W BY <1>1, <1>5, WeightMono
        <3> HIDE DEF A, W
        <3>2. A < W BY <1>1, <1>2, <1>3, <3>1
        <3>3. A = 0 * W + A BY <1>1, <1>2
        <3>4. 0 \in Nat OBVIOUS
        <3> QED BY <1>1, <1>2, <3>2, <3>3, <3>4, DivisionUnique
    <2> QED BY <2>1, <2>3, <2>4, <2>5, <2>6
<1>6. CASE ~(p >= n /\ p > 0)
    <2> DEFINE s == SubSeq(dp, p + 1, n)
    <2>1. p \in 0 .. n /\ p < n BY <1>1, <1>6
    <2>2. /\ s \in Seq(Digit) /\ Len(s) = n - p /\ A = Part(dp, p) + W * MagnitudeOf(s)
        BY <1>1, <2>1, SuffixIs
    <2>3. r = [a EXCEPT !.dp = s] BY <1>6 DEF s_mp_rshd
    <2>4. Top(s) = Top(dp)
        <3>1. n - p \in 1 .. n - p BY <1>1, <2>1
        <3>2. s[n - p] = dp[(n - p) + ((p + 1) - 1)] BY <1>1, <2>1
        <3>3. (n - p) + ((p + 1) - 1) = n BY <1>1
        <3> HIDE DEF s
        <3> QED BY <2>2, <3>2, <3>3 DEF Top
    <2> HIDE DEF s
    <2>5. Normal(s)
        <3>1. s # <<>>
            <4>1. Len(s) > 0 BY <1>1, <2>1, <2>2
            <4> QED BY <4>1
        <3>2. Len(s) > 1 => Len(dp) > 1 BY <1>1, <2>1, <2>2
        <3> QED BY <1>1, <2>2, <2>4, <3>1, <3>2 DEF Normal
    <2>6. r = [sign |-> a.sign, dp |-> s] BY <1>4, <2>3
    <2> HIDE DEF r
    <2>7. r \in Signed BY <1>4, <2>5, <2>6, SignedOf
    <2>8. r.sign = a.sign /\ r.dp = s BY <2>6
    <2>9. A \div W = MagnitudeOf(s)
        <3> DEFINE q == MagnitudeOf(s)
                   t == Part(dp, p)
        <3>1. q \in Nat BY <2>2, MagnitudeIs
        <3>2. t \in Nat /\ t < W BY <1>1, PartIs
        <3>3. A = t + W * q BY <2>2
        <3> HIDE DEF q, t, A, W
        <3>4. W * q = q * W /\ q * W \in Nat BY <1>2, <3>1
        <3>5. A = q * W + t BY <3>2, <3>3, <3>4
        <3>6. A \div W = q BY <1>1, <1>2, <3>1, <3>2, <3>5, DivisionUnique
        <3> QED BY <3>6 DEF q
    <2> QED BY <2>7, <2>8, <2>9 DEF r, A, W
<1> QED BY <1>5, <1>6

LEMMA DivTwice ==
    ASSUME NEW n \in Nat, NEW d \in Nat, d > 0, NEW e \in Nat, e > 0
    PROVE  (n \div d) \div e = n \div (d * e)
<1> DEFINE q == n \div d
           r == n % d
           p == q \div e
           s == q % e
<1>1. q \in Nat /\ r \in Nat /\ r < d /\ n = q * d + r BY DivisionIs
<1> HIDE DEF q, r
<1>2. p \in Nat /\ s \in Nat /\ s < e /\ q = p * e + s BY <1>1, DivisionIs
<1> HIDE DEF p, s
<1> DEFINE m == d * e
           t == s * d + r
<1>3. m \in Nat /\ m > 0 OBVIOUS
<1>4. n = p * m + t
    <2>1. (p * e + s) * d = p * (d * e) + s * d BY <1>1, <1>2
    <2> DEFINE u == p * (d * e)
               v == s * d
    <2>2. u \in Nat /\ v \in Nat BY <1>1, <1>2
    <2>3. n = (u + v) + r BY <1>1, <1>2, <2>1
    <2> HIDE DEF u, v
    <2>4. n = u + (v + r) BY <1>1, <2>2, <2>3
    <2> QED BY <2>4 DEF u, v
<1>5. t \in Nat /\ t < m
    <2>1. (s + 1) * d <= e * d BY <1>1, <1>2
    <2>2. (s + 1) * d = s * d + d /\ e * d = d * e BY <1>1, <1>2
    <2> DEFINE v == s * d
    <2>3. v \in Nat BY <1>2
    <2>4. v + d <= m BY <2>1, <2>2
    <2> HIDE DEF v, m
    <2>5. v + r \in Nat /\ v + r < m BY <1>1, <1>3, <2>3, <2>4
    <2> QED BY <2>5 DEF v
<1> HIDE DEF m, t
<1>6. n \div m = p BY <1>2, <1>3, <1>4, <1>5, DivisionUnique
<1> QED BY <1>6 DEF p, q, m

LEMMA Div2dIs ==
    ASSUME NEW a \in Signed, NEW d \in Nat
    PROVE  /\ s_mp_div_2d(a, d) \in Signed
           /\ s_mp_div_2d(a, d).sign = ZPOS \/ s_mp_div_2d(a, d).sign = a.sign
           /\ MagnitudeOf(s_mp_div_2d(a, d).dp) = MagnitudeOf(a.dp) \div 2 ^ d
<1> DEFINE k == d \div MP_DIGIT_BIT
           b == d % MP_DIGIT_BIT
           r == s_mp_rshd(a, k)
           s == ShiftedDown(r.dp, b)
           e == IF b = 0 THEN r.dp ELSE s
           A == MagnitudeOf(a.dp)
           W == Weight(k)
           h == 2 ^ b
<1>1. k \in Nat /\ b \in 0 .. MP_DIGIT_BIT /\ 2 ^ d = W * h BY BitShift
<1>2. s_mp_div_2d(a, d) = [r EXCEPT !.dp = s_mp_clamp(e)] BY DEF s_mp_div_2d, ShiftedDown
<1> HIDE DEF k, b
<1>3. r \in Signed /\ (r.sign = ZPOS \/ r.sign = a.sign) /\ MagnitudeOf(r.dp) = A \div W
    BY <1>1, RshdIs
<1> HIDE DEF r, W
<1>4. /\ r.dp \in Seq(Digit) /\ r.dp # <<>> /\ r = [sign |-> r.sign, dp |-> r.dp]
      /\ r.sign \in {ZPOS, NEG}
    BY <1>3, SignedIs DEF Normal
<1>5. s \in Seq(Digit) /\ Len(s) = Len(r.dp) /\ MagnitudeOf(s) = MagnitudeOf(r.dp) \div h
    BY <1>1, <1>4, ShiftedDownIs
<1>6. e \in Seq(Digit) /\ e # <<>> /\ MagnitudeOf(e) = MagnitudeOf(r.dp) \div h
    <2>1. CASE b = 0
        <3>1. h = 1 BY <2>1
        <3>2. MagnitudeOf(r.dp) \in Nat BY <1>4, MagnitudeIs
        <3>3. MagnitudeOf(r.dp) \div 1 = MagnitudeOf(r.dp) BY <3>2
        <3> QED BY <1>4, <2>1, <3>1, <3>3
    <2>2. CASE b # 0
        <3> HIDE DEF s, h
        <3>1. s # <<>>
            <4>1. Len(s) > 0
                <5>1. Len(r.dp) \in Nat /\ Len(r.dp) > 0 BY <1>4
                <5> QED BY <1>5, <5>1
            <4> QED BY <4>1
        <3> QED BY <1>5, <2>2, <3>1
    <2> QED BY <2>1, <2>2
<1> HIDE DEF e
<1>7. Normal(s_mp_clamp(e)) /\ MagnitudeOf(s_mp_clamp(e)) = MagnitudeOf(e) BY <1>6, ClampIs
<1> DEFINE c == s_mp_clamp(e)
           z == s_mp_div_2d(a, d)
<1>8. z = [sign |-> r.sign, dp |-> c] BY <1>2, <1>4
<1> HIDE DEF c, z
<1>9. z \in Signed BY <1>4, <1>7, <1>8, SignedOf DEF c
<1>10. z.sign = r.sign /\ z.dp = c BY <1>8
<1>11. (A \div W) \div h = A \div (W * h)
    <2>1. A \in Nat BY SignedIs
    <2>2. W \in Nat /\ W > 0 BY <1>1, WeightIs DEF W
    <2>3. h \in Nat /\ h > 0 BY <1>1, BitsOf
    <2> HIDE DEF A, h
    <2> QED BY <2>1, <2>2, <2>3, DivTwice
<1>12. MagnitudeOf(c) = A \div 2 ^ d BY <1>1, <1>3, <1>6, <1>7, <1>11 DEF c
<1> QED BY <1>3, <1>9, <1>10, <1>12 DEF z, A

LEMMA Mod2dIs ==
    ASSUME NEW dp, Normal(dp), NEW d \in Nat
    PROVE  /\ Normal(s_mp_mod_2d(dp, d))
           /\ MagnitudeOf(s_mp_mod_2d(dp, d)) = (MagnitudeOf(dp) % 2 ^ d)
<1> DEFINE k == d \div MP_DIGIT_BIT
           b == d % MP_DIGIT_BIT
           n == Len(dp)
           h == 2 ^ b
           W == Weight(k)
           A == MagnitudeOf(dp)
           F(i) == CASE i <= k -> dp[i] [] i = k + 1 -> dp[i] % h [] OTHER -> 0
           s == [i \in 1 .. n |-> F(i)]
<1>1. k \in Nat /\ b \in 0 .. MP_DIGIT_BIT /\ 2 ^ d = W * h BY BitShift
<1>2. s_mp_mod_2d(dp, d) = IF k >= n THEN dp ELSE s_mp_clamp(s) BY DEF s_mp_mod_2d
<1> HIDE DEF k, b
<1>3. h \in Nat /\ h > 0 /\ W \in Nat /\ W > 0
    <2>1. W \in Nat /\ W > 0 BY <1>1, WeightIs
    <2>2. h \in Nat /\ h > 0 BY <1>1, BitsOf
    <2> QED BY <2>1, <2>2
<1>4. dp \in Seq(Digit) /\ dp # <<>> /\ n \in Nat /\ n > 0 /\ A \in Nat BY NormalIs DEF Normal
<1> DEFINE m == W * h
<1>5. m \in Nat /\ m > 0 BY <1>3
<1>6. CASE k >= n
    <2>1. A < m
        <3>1. A < Weight(n) BY <1>4, MagnitudeIs
        <3>2. Weight(n) <= W BY <1>1, <1>4, <1>6, WeightMono
        <3>3. W <= m BY <1>3
        <3>4. Weight(n) \in Nat BY <1>4, WeightIs
        <3> HIDE DEF m, W, A
        <3> QED BY <1>3, <1>4, <1>5, <3>1, <3>2, <3>3, <3>4
    <2>2. (A % m) = A
        <3> HIDE DEF m, A
        <3> QED BY <1>4, <1>5, <2>1
    <2> QED BY <1>1, <1>2, <1>6, <2>2
<1>7. CASE k < n
    <2> HIDE DEF h
    <2>0. k + 1 \in 1 .. n /\ k + 1 \in Nat /\ k + 1 \in Int /\ k \in 0 .. n /\ k + 1 <= n BY <1>1, <1>4, <1>7
    <2>1. dp[k + 1] \in Digit /\ dp[k + 1] \in Nat /\ At(dp, k + 1) = dp[k + 1]
        <3>1. dp[k + 1] \in Digit BY <1>4, <2>0
        <3> QED BY <2>0, <3>1, DigitInt DEF At
    <2> DEFINE c == dp[k + 1]
               q == c \div h
               e == c % h
    <2> HIDE DEF c
    <2>2. q \in Nat /\ e \in Nat /\ e < h /\ c = q * h + e BY <1>3, <2>1, DivisionIs DEF c
    <2> HIDE DEF q, e
    <2>3. e \in Digit
        <3>1. e <= c
            <4>1. q * h \in Nat BY <1>3, <2>2
            <4> DEFINE qh == q * h
            <4> HIDE DEF qh
            <4> QED BY <2>2, <4>1 DEF qh
        <3>2. c \in 0 .. MP_RADIX - 1 /\ MP_RADIX \in Nat BY <2>1, RadixIs DEF c
        <3>3. e \in 0 .. MP_RADIX - 1 BY <2>2, <3>1, <3>2
        <3> QED BY <3>3, RadixIs
    <2>4. ASSUME NEW i \in 1 .. n
          PROVE  /\ F(i) \in Digit /\ (i <= k => F(i) = dp[i]) /\ (i = k + 1 => F(i) = e)
                 /\ (i > k + 1 => F(i) = 0)
        <3>1. dp[i] \in Digit /\ 0 \in Digit BY <1>4, RadixIs
        <3>2. CASE i <= k
            <4>1. i # k + 1 /\ ~(i > k + 1) BY <1>1, <3>2
            <4>2. F(i) = dp[i] BY <3>2, <4>1
            <4> HIDE DEF F
            <4> QED BY <3>1, <4>1, <4>2
        <3>3. CASE i = k + 1
            <4>1. ~(i <= k) /\ ~(i > k + 1) BY <1>1, <3>3
            <4>2. F(i) = dp[i] % h BY <3>3, <4>1
            <4>3. F(i) = e BY <3>3, <4>2 DEF e, c
            <4> HIDE DEF F
            <4> QED BY <2>3, <4>1, <4>3
        <3>4. CASE i > k + 1
            <4>1. ~(i <= k) /\ i # k + 1 BY <1>1, <3>4
            <4>2. F(i) = 0 BY <4>1
            <4> HIDE DEF F
            <4> QED BY <3>1, <4>1, <4>2
        <3> QED BY <1>1, <3>2, <3>3, <3>4
    <2> HIDE DEF F
    <2>5. s \in Seq(Digit) /\ Len(s) = n /\ \A i \in 1 .. n : s[i] = F(i) /\ At(s, i) = F(i)
        <3>1. s \in [1 .. n -> Digit] BY <2>4
        <3>2. s \in Seq(Digit) /\ Len(s) = n BY <1>4, <3>1
        <3>3. \A i \in 1 .. n : s[i] = F(i) OBVIOUS
        <3> HIDE DEF s
        <3> QED BY <3>2, <3>3 DEF At
    <2> HIDE DEF s
    <2>6. Part(s, k) = Part(dp, k)
        <3>1. \A i \in 1 .. k : At(s, i) = At(dp, i)
            <4> SUFFICES ASSUME NEW i \in 1 .. k PROVE At(s, i) = At(dp, i) OBVIOUS
            <4>1. i \in 1 .. n /\ i <= k BY <1>1, <1>4, <1>7
            <4>2. At(dp, i) = dp[i] BY <4>1 DEF At
            <4> QED BY <2>4, <2>5, <4>1, <4>2
        <3> QED BY <1>1, <1>4, <2>5, <3>1, PartSame
    <2>7. MagnitudeOf(s) = Part(s, k + 1)
        <3>1. \A i \in (k + 1) + 1 .. n : At(s, i) = 0
            <4> SUFFICES ASSUME NEW i \in (k + 1) + 1 .. n PROVE At(s, i) = 0 OBVIOUS
            <4>1. i \in 1 .. n /\ i > k + 1 BY <1>1, <2>0
            <4> QED BY <2>4, <2>5, <4>1
        <3>2. Part(s, n) = Part(s, k + 1) BY <1>4, <2>0, <2>5, <3>1, PartEnd
        <3>3. Part(s, n) = MagnitudeOf(s)
            <4>1. n >= Len(s) BY <1>4, <2>5
            <4> QED BY <1>4, <2>5, <4>1, MagnitudeIs
        <3> QED BY <3>2, <3>3
    <2> DEFINE P == Part(dp, k)
               T == MagnitudeOf(SubSeq(dp, (k + 1) + 1, n))
               t == P + e * W
    <2>8. MagnitudeOf(s) = t
        <3>1. Part(s, k + 1) = Part(s, k) + At(s, k + 1) * W BY <1>1, <2>5, PartIs
        <3>2. At(s, k + 1) = e BY <2>0, <2>4, <2>5
        <3> QED BY <2>6, <2>7, <3>1, <3>2
    <2>9. A = (P + c * W) + (MP_RADIX * W) * T /\ T \in Nat
        <3>1. k + 1 \in 0 .. n BY <1>1, <1>4, <1>7
        <3>2. /\ SubSeq(dp, (k + 1) + 1, n) \in Seq(Digit) /\ A = Part(dp, k + 1) + Weight(k + 1) * T
            BY <1>4, <3>1, SuffixIs
        <3>3. Part(dp, k + 1) = P + At(dp, k + 1) * W BY <1>1, <1>4, PartIs
        <3>4. Weight(k + 1) = MP_RADIX * W BY <1>1, WeightIs
        <3>5. T \in Nat BY <3>2, MagnitudeIs
        <3> QED BY <2>1, <3>2, <3>3, <3>4, <3>5 DEF c
    <2>10. P \in Nat /\ P < W BY <1>1, <1>4, PartIs
    <2> DEFINE g == 2 ^ (MP_DIGIT_BIT - b)
    <2>11. g \in Nat /\ MP_RADIX = h * g BY <1>1, BitsOf DEF h
    <2> HIDE DEF A, W, P, T, g
    <2> DEFINE u == q + g * T
    <2>12. u \in Nat BY <2>2, <2>9, <2>11
    <2>13. A = u * m + t
        <3>1. (P + (q * h + e) * W) + ((h * g) * W) * T = (q + g * T) * (W * h) + (P + e * W)
            <4>1. (q * h + e) * W = q * (W * h) + e * W BY <1>3, <2>2
            <4>2. ((h * g) * W) * T = (g * T) * (W * h) BY <1>3, <2>9, <2>11
            <4>3. (q + g * T) * (W * h) = q * (W * h) + (g * T) * (W * h) BY <1>3, <2>2, <2>9, <2>11
            <4> DEFINE a1 == q * (W * h)
                       a2 == e * W
                       a3 == (g * T) * (W * h)
            <4>4. a1 \in Nat /\ a2 \in Nat /\ a3 \in Nat BY <1>3, <2>2, <2>9, <2>11
            <4> HIDE DEF a1, a2, a3
            <4>5. (P + (a1 + a2)) + a3 = (a1 + a3) + (P + a2) BY <2>10, <4>4
            <4> QED BY <4>1, <4>2, <4>3, <4>5 DEF a1, a2, a3
        <3> QED BY <2>2, <2>9, <2>11, <3>1
    <2>14. t \in Nat /\ t < m
        <3>1. (e + 1) * W <= h * W BY <1>3, <2>2
        <3>2. (e + 1) * W = e * W + W /\ h * W = W * h BY <1>3, <2>2
        <3> DEFINE ew == e * W
        <3>3. ew \in Nat BY <1>3, <2>2
        <3>4. ew + W <= m BY <3>1, <3>2
        <3> HIDE DEF ew, m
        <3>5. P + ew \in Nat /\ P + ew < m BY <1>3, <1>5, <2>10, <3>3, <3>4
        <3> QED BY <3>5 DEF ew
    <2> HIDE DEF u, t, m
    <2>15. A \in Nat BY <1>4 DEF A
    <2>16. (A % m) = t BY <1>5, <2>12, <2>13, <2>14, <2>15, DivisionUnique
    <2>17. s # <<>> BY <1>4, <2>5
    <2>18. Normal(s_mp_clamp(s)) /\ MagnitudeOf(s_mp_clamp(s)) = t BY <2>5, <2>8, <2>17, ClampIs
    <2>19. s_mp_mod_2d(dp, d) = s_mp_clamp(s)
        <3>1. ~(k >= n) BY <1>1, <1>4, <1>7
        <3> QED BY <1>2, <3>1 DEF s
    <2> QED BY <1>1, <2>16, <2>18, <2>19 DEF m, A, W, h
<1> QED BY <1>1, <1>4, <1>6, <1>7

-----------------------------------------------------------------------------
(* Division by a digit *)

LEMMA NormIs ==
    ASSUME NEW msd \in Digit, msd # 0
    PROVE  /\ s_mp_norm(msd) \in 0 .. MP_DIGIT_BIT - 1
           /\ msd * 2 ^ s_mp_norm(msd) \in Digit
           /\ msd * 2 ^ s_mp_norm(msd) >= MP_RADIX \div 2
<1> DEFINE n == MP_DIGIT_BIT
           m == BitCount(msd)
           d == n - m
           top == 2 ^ (n - 1)
           E(k) == msd * 2 ^ k \in top .. MP_DIGIT_MAX
           r == s_mp_norm(msd)
<1>1. n \in Nat /\ n > 0 /\ MP_RADIX \in Nat /\ MP_RADIX = 2 ^ n /\ MP_DIGIT_MAX = MP_RADIX - 1
    BY RadixIs DEF MP_RADIX, MP_DIGIT_MAX
<1>2. msd \in Nat /\ msd > 0 /\ msd < MP_RADIX
    <2>1. msd \in Nat /\ msd < MP_RADIX BY DigitInt
    <2> QED BY <2>1
<1>3. r = CHOOSE k \in 0 .. n - 1 : E(k) BY DEF s_mp_norm
<1> HIDE DEF n, r
<1>4. m \in Nat /\ msd < 2 ^ m /\ (m > 0 => msd >= 2 ^ (m - 1)) BY <1>2, BitCountIs
<1> HIDE DEF m
<1>5. m > 0
    <2>1. m = 0 => 2 ^ m = 1 OBVIOUS
    <2>2. msd < 2 ^ m BY <1>4
    <2>3. m # 0 BY <1>2, <2>1, <2>2
    <2> QED BY <1>4, <2>3
<1>6. m - 1 \in Nat /\ msd >= 2 ^ (m - 1) BY <1>4, <1>5
<1>7. m <= n
    <2> SUFFICES ASSUME m > n PROVE FALSE BY <1>1, <1>4
    <2>1. n <= m - 1 BY <1>1, <1>4
    <2>2. 2 ^ n <= 2 ^ (m - 1) BY <1>1, <1>6, <2>1, PowerMono
    <2>3. 2 ^ (m - 1) \in Nat BY <1>6, PowerStep
    <2> DEFINE u == 2 ^ (m - 1)
    <2> HIDE DEF u
    <2>4. MP_RADIX <= u /\ u \in Nat /\ msd >= u BY <1>1, <1>6, <2>2, <2>3 DEF u
    <2> QED BY <1>1, <1>2, <2>4
<1>8. d \in 0 .. n - 1 /\ d \in Nat /\ m + d = n /\ (m - 1) + d = n - 1 BY <1>1, <1>4, <1>5, <1>7
<1> HIDE DEF d
<1> DEFINE g == 2 ^ d
           u == 2 ^ m
           v == 2 ^ (m - 1)
<1>9. /\ g \in Nat /\ g > 0 /\ u \in Nat /\ v \in Nat /\ u * g = MP_RADIX /\ v * g = top
    <2>1. g \in Nat /\ g > 0 BY <1>8, PowerPositive
    <2>2. u \in Nat BY <1>4, PowerPositive
    <2>3. v \in Nat BY <1>6, PowerPositive
    <2>4. 2 ^ (m + d) = u * g BY <1>4, <1>8, PowerSum
    <2>5. 2 ^ ((m - 1) + d) = v * g BY <1>6, <1>8, PowerSum
    <2> QED BY <1>1, <1>8, <2>1, <2>2, <2>3, <2>4, <2>5
<1>10. n - 1 \in Nat /\ top \in Nat /\ MP_RADIX = 2 * top
    <2>1. n - 1 \in Nat /\ (n - 1) + 1 = n BY <1>1
    <2>2. 2 ^ ((n - 1) + 1) = 2 * 2 ^ (n - 1) /\ 2 ^ (n - 1) \in Nat BY <2>1, PowerStep
    <2> QED BY <1>1, <2>1, <2>2
<1>11. msd * g \in Nat /\ msd * g < MP_RADIX /\ msd * g >= top
    <2>1. msd < u /\ msd >= v BY <1>4, <1>6
    <2> HIDE DEF g, u, v, top
    <2>2. msd * g < u * g BY <1>2, <1>9, <2>1
    <2>3. msd * g >= v * g BY <1>2, <1>9, <2>1
    <2> QED BY <1>2, <1>9, <2>2, <2>3
<1>12. E(d)
    <2> DEFINE w == msd * g
    <2> HIDE DEF w, top
    <2>1. w \in top .. MP_DIGIT_MAX BY <1>1, <1>10, <1>11 DEF w
    <2> QED BY <2>1 DEF w, g
<1> HIDE DEF E
<1>13. r \in 0 .. n - 1 /\ E(r) BY <1>3, <1>8, <1>12
<1>14. msd * 2 ^ r \in top .. MP_DIGIT_MAX BY <1>13 DEF E
<1>15. msd * 2 ^ r \in Digit /\ msd * 2 ^ r >= MP_RADIX \div 2
    <2> DEFINE w == msd * 2 ^ r
    <2> HIDE DEF w, top
    <2>1. w \in top .. MP_DIGIT_MAX BY <1>14 DEF w
    <2>2. w \in 0 .. MP_RADIX - 1 /\ w >= MP_RADIX \div 2 BY <1>1, <1>10, <2>1
    <2>3. w \in Digit BY <2>2, RadixIs
    <2> QED BY <2>2, <2>3 DEF w
<1> QED BY <1>13, <1>15 DEF r, n

LEMMA Ispow2Is ==
    ASSUME NEW v, Normal(v), s_mp_ispow2(v) >= 0
    PROVE  s_mp_ispow2(v) \in Nat /\ MagnitudeOf(v) = 2 ^ s_mp_ispow2(v)
<1> DEFINE n == Len(v)
           t == Top(v)
           e == s_mp_ispow2d(t)
           N == n - 1
           p == e + MP_DIGIT_BIT * N
<1>1. v \in Seq(Digit) /\ n \in Nat /\ n > 0 /\ N \in Nat /\ n = N + 1
    <2>1. v \in Seq(Digit) /\ n \in Nat /\ n > 0 BY NormalIs
    <2> QED BY <2>1
<1>2. e \in 0 .. MP_DIGIT_BIT - 1 \/ e = -1 BY Ispow2dIs
<1>3. MP_DIGIT_BIT \in Nat BY RadixIs
<1> HIDE DEF e, n
<1>4. s_mp_ispow2(v) = IF e < 0 \/ \E i \in 1 .. N : v[i] # 0 THEN -1 ELSE p
    BY DEF s_mp_ispow2, e, n
<1>5. ~(e < 0) /\ ~(\E i \in 1 .. N : v[i] # 0) /\ s_mp_ispow2(v) = p
    <2>1. ~(-1 >= 0) OBVIOUS
    <2> QED BY <1>4, <2>1
<1>6. e \in Nat /\ t = 2 ^ e
    <2>1. e \in Nat BY <1>2, <1>3, <1>5
    <2>2. e >= 0 BY <2>1
    <2> QED BY <2>1, <2>2, Ispow2dIs DEF e
<1>7. \A i \in 1 .. N : At(v, i) = 0
    <2> SUFFICES ASSUME NEW i \in 1 .. N PROVE At(v, i) = 0 OBVIOUS
    <2>1. i \in 1 .. Len(v) BY <1>1 DEF n
    <2> QED BY <1>5, <2>1 DEF At
<1>8. Part(v, N) = 0
    <2>1. 0 \in Nat /\ 0 <= N /\ \A i \in 0 + 1 .. N : At(v, i) = 0 BY <1>1, <1>7
    <2>2. Part(v, N) = Part(v, 0) BY <1>1, <2>1, PartEnd
    <2> QED BY <1>1, <2>2, PartIs
<1>9. MagnitudeOf(v) = Part(v, n)
    <2>1. n >= Len(v) BY <1>1 DEF n
    <2> QED BY <1>1, <2>1, MagnitudeIs
<1>10. Part(v, n) = Part(v, N) + At(v, n) * Weight(N) BY <1>1, PartIs
<1>11. At(v, n) = t
    <2>1. n \in 1 .. Len(v) BY <1>1 DEF n
    <2> QED BY <2>1 DEF At, Top, n
<1>12. p \in Nat /\ 2 ^ p = 2 ^ e * Weight(N)
    <2> DEFINE q == MP_DIGIT_BIT * N
    <2>1. q \in Nat BY <1>1, <1>3
    <2>2. Weight(N) = 2 ^ q BY DEF Weight
    <2> HIDE DEF q
    <2>3. e + q \in Nat /\ 2 ^ (e + q) = 2 ^ e * 2 ^ q BY <1>6, <2>1, PowerSum
    <2> QED BY <2>2, <2>3 DEF q
<1>13. Weight(N) \in Nat /\ 2 ^ e \in Nat BY <1>1, <1>6, WeightIs, PowerStep
<1> HIDE DEF t, N, p
<1>14. 0 + t * Weight(N) = t * Weight(N) BY <1>6, <1>13
<1> QED BY <1>5, <1>6, <1>8, <1>9, <1>10, <1>11, <1>12, <1>14

DigitQuotient(d) == [q : Digit, r : 0 .. d - 1]

LEMMA DivDigitIs ==
    ASSUME NEW d \in Digit, d >= MP_RADIX \div 2, NEW p \in 0 .. d - 1, NEW c \in Digit
    PROVE  /\ DivDigit(p, c, d) \in DigitQuotient(d)
           /\ DivDigit(p, c, d).q * d + DivDigit(p, c, d).r = p * MP_RADIX + c
<1>1. d \in Nat /\ d < MP_RADIX /\ c \in Nat /\ c < MP_RADIX /\ MP_RADIX \in Nat /\ MP_RADIX >= 4
    BY DigitInt, RadixIs
<1>2. d > 0 BY <1>1
<1>3. CASE p # 0
    <2> DEFINE z == s_mpv_div_2dx1d(p, c, d)
    <2>1. DivDigit(p, c, d) = z BY <1>3 DEF DivDigit
    <2>2. p \in 0 .. MP_RADIX - 1 /\ p < d BY <1>1
    <2>3. p \in Digit BY <2>2, RadixIs
    <2>4. z.q \in Digit /\ z.r \in Nat /\ z.r < d /\ z.q * d + z.r = p * MP_RADIX + c
        BY <2>2, <2>3, Div2dx1dIs
    <2>5. z = [q |-> z.q, r |-> z.r] BY DEF s_mpv_div_2dx1d, SecondHalf, BothHalves
    <2> HIDE DEF z
    <2>6. z.r \in 0 .. d - 1 BY <1>1, <2>4
    <2>7. z \in DigitQuotient(d) BY <2>4, <2>5, <2>6 DEF DigitQuotient
    <2> QED BY <2>1, <2>4, <2>7
<1>4. CASE p = 0
    <2> DEFINE q == c \div d
               r == c % d
    <2>1. DivDigit(p, c, d) = [q |-> q, r |-> r] BY <1>4 DEF DivDigit
    <2>2. q \in Nat /\ r \in Nat /\ r < d /\ c = q * d + r BY <1>1, <1>2, DivisionIs
    <2> HIDE DEF q, r
    <2>3. q <= c
        <3>1. q <= q * d BY <1>1, <1>2, <2>2
        <3>2. q * d \in Nat BY <1>1, <2>2
        <3> QED BY <2>2, <3>1, <3>2
    <2>4. q \in 0 .. MP_RADIX - 1 /\ r \in 0 .. d - 1 BY <1>1, <2>2, <2>3
    <2>5. q \in Digit BY <2>4, RadixIs
    <2>6. p * MP_RADIX + c = c BY <1>1, <1>4
    <2> QED BY <2>1, <2>2, <2>4, <2>5, <2>6 DEF DigitQuotient
<1> QED BY <1>3, <1>4

\* The loop of DivDigits, unfolded: f[j] is its state after j digits.
LEMMA DivDigitsRun ==
    ASSUME NEW dp \in Seq(Digit), NEW d \in Digit, d >= MP_RADIX \div 2
    PROVE  \E c : /\ \A i \in 1 .. Len(dp) + 1 : c[i] \in DigitQuotient(d)
                  /\ c[Len(dp) + 1].r = 0
                  /\ \A i \in 1 .. Len(dp) : c[i] = DivDigit(c[i + 1].r, At(dp, i), d)
                  /\ DivDigits(dp, d) = [i \in 1 .. Len(dp) |-> c[i]]
<1> DEFINE n == Len(dp)
           first == [q |-> 0, r |-> 0]
           Body(h) == [i \in 1 .. n + 1 |-> IF i > n THEN first ELSE DivDigit(h[i + 1].r, dp[i], d)]
           c == CHOOSE h : h = Body(h)
           V == DigitQuotient(d)
           I == [j \in 0 .. n |-> V]
           g == [v \in V \X Nat |-> DivDigit(v[1].r, At(dp, n + 1 - v[2]), d)]
<1>0. n \in Nat /\ d \in Nat /\ d > 0
    <2>1. d \in Nat BY DigitInt
    <2>2. MP_RADIX \in Nat /\ MP_RADIX >= 4 BY RadixIs
    <2> QED BY <2>1, <2>2
<1>1. first \in V
    <2>1. 0 \in Digit BY RadixIs
    <2> QED BY <1>0, <2>1 DEF DigitQuotient
<1>2. ASSUME NEW v \in V, NEW i \in Int PROVE DivDigit(v.r, At(dp, i), d) \in V
    <2>1. v.r \in 0 .. d - 1 BY DEF DigitQuotient
    <2>2. At(dp, i) \in Digit BY AtIs
    <2> QED BY <2>1, <2>2, DivDigitIs
<1>3. DivDigits(dp, d) = [i \in 1 .. n |-> c[i]] BY DEF DivDigits
<1> HIDE DEF V
<1>4. StaysIn(I, V, first, g, n)
    <2>1. first \in I[0] BY <1>0, <1>1
    <2>2. \A i \in 0 .. n : I[i] \subseteq V OBVIOUS
    <2>3. ASSUME NEW i \in 0 .. n - 1, NEW v \in I[i] PROVE g[<<v, i + 1>>] \in I[i + 1]
        <3>1. v \in V /\ i + 1 \in Nat /\ i + 1 \in 0 .. n /\ n + 1 - (i + 1) \in Int BY <1>0, <2>3
        <3>2. g[<<v, i + 1>>] = DivDigit(v.r, At(dp, n + 1 - (i + 1)), d) BY <3>1
        <3>3. g[<<v, i + 1>>] \in V BY <1>2, <3>1, <3>2
        <3> QED BY <3>1, <3>3
    <2> HIDE DEF I, g, first
    <2> QED BY <2>1, <2>2, <2>3 DEF StaysIn
<1>5. PICK f \in [0 .. n -> V] : RecursesUpto(f, first, g, n)
    <2> HIDE DEF I, g, first, n
    <2> QED BY <1>0, <1>4, UptoStates
<1> DEFINE k == [i \in 1 .. n + 1 |-> f[n + 1 - i]]
<1>6. k = Body(k)
    <2>1. ASSUME NEW i \in 1 .. n + 1
          PROVE  k[i] = IF i > n THEN first ELSE DivDigit(k[i + 1].r, dp[i], d)
        <3>1. CASE i > n
            <4>1. i = n + 1 /\ n + 1 - i = 0 /\ 0 \in 0 .. n BY <1>0, <3>1
            <4>2. k[i] = f[0] BY <4>1
            <4>3. f[0] = first BY <1>5, <4>1 DEF RecursesUpto
            <4> QED BY <3>1, <4>2, <4>3
        <3>2. CASE ~(i > n)
            <4>1. n + 1 - i \in 0 .. n /\ n + 1 - i # 0 /\ n + 1 - i \in Nat BY <1>0, <3>2
            <4>2. (n + 1 - i) - 1 = n + 1 - (i + 1) /\ i + 1 \in 1 .. n + 1 BY <1>0, <3>2
            <4>3. f[n + 1 - i] = g[<<f[n + 1 - (i + 1)], n + 1 - i>>]
                BY <1>5, <4>1, <4>2 DEF RecursesUpto
            <4>4. n + 1 - (i + 1) \in 0 .. n BY <1>0, <3>2
            <4>5. f[n + 1 - (i + 1)] \in V BY <1>5, <4>4
            <4>6. n + 1 - (n + 1 - i) = i BY <1>0
            <4>7. g[<<f[n + 1 - (i + 1)], n + 1 - i>>] = DivDigit(f[n + 1 - (i + 1)].r, At(dp, i), d)
                BY <4>1, <4>5, <4>6
            <4>8. At(dp, i) = dp[i] BY <1>0, <3>2 DEF At
            <4>9. k[i] = f[n + 1 - i] /\ k[i + 1] = f[n + 1 - (i + 1)] BY <4>2
            <4> QED BY <3>2, <4>3, <4>7, <4>8, <4>9
        <3> QED BY <3>1, <3>2
    <2> HIDE DEF first, n, g
    <2> QED BY <2>1
<1>7. c = Body(c)
    <2> HIDE DEF k, Body
    <2> QED BY <1>6
<1> HIDE DEF c
<1>8. ASSUME NEW i \in 1 .. n + 1
      PROVE  c[i] = IF i > n THEN first ELSE DivDigit(c[i + 1].r, dp[i], d)
    <2> HIDE DEF first
    <2>1. Body(c)[i] = IF i > n THEN first ELSE DivDigit(c[i + 1].r, dp[i], d) OBVIOUS
    <2> QED BY <1>7, <2>1
<1>9. \A i \in 1 .. n : c[i] = DivDigit(c[i + 1].r, At(dp, i), d)
    <2> SUFFICES ASSUME NEW i \in 1 .. n PROVE c[i] = DivDigit(c[i + 1].r, At(dp, i), d) OBVIOUS
    <2>1. i \in 1 .. n + 1 /\ ~(i > n) BY <1>0
    <2>2. At(dp, i) = dp[i] BY DEF At
    <2> QED BY <1>8, <2>1, <2>2
<1>10. c[n + 1] = first
    <2>1. n + 1 \in 1 .. n + 1 /\ n + 1 > n BY <1>0
    <2> QED BY <1>8, <2>1
<1> DEFINE P == {j \in 0 .. n : c[n + 1 - j] \in V}
<1>11. 0 \in P
    <2>1. n + 1 - 0 = n + 1 /\ 0 \in 0 .. n BY <1>0
    <2> QED BY <1>1, <1>10, <2>1
<1>12. ASSUME NEW j \in 0 .. n - 1, j \in P PROVE j + 1 \in P
    <2>1. n + 1 - (j + 1) \in 1 .. n /\ (n + 1 - (j + 1)) + 1 = n + 1 - j /\ j + 1 \in 0 .. n BY <1>0
    <2>2. c[n + 1 - j] \in V BY <1>12
    <2>3. c[n + 1 - (j + 1)] = DivDigit(c[n + 1 - j].r, At(dp, n + 1 - (j + 1)), d)
        BY <1>9, <2>1
    <2>4. n + 1 - (j + 1) \in Int BY <2>1
    <2>5. c[n + 1 - (j + 1)] \in V BY <1>2, <2>2, <2>3, <2>4
    <2> QED BY <2>1, <2>5
<1> HIDE DEF P
<1>13. \A j \in 0 .. n : j \in P BY <1>0, <1>11, <1>12, UptoInduct
<1>14. \A i \in 1 .. n + 1 : c[i] \in V
    <2> SUFFICES ASSUME NEW i \in 1 .. n + 1 PROVE c[i] \in V OBVIOUS
    <2>1. n + 1 - i \in 0 .. n /\ n + 1 - (n + 1 - i) = i BY <1>0
    <2>2. n + 1 - i \in P BY <1>13, <2>1
    <2> QED BY <2>1, <2>2 DEF P
<1>15. c[n + 1].r = 0 BY <1>10
<1> QED BY <1>3, <1>9, <1>14, <1>15 DEF V

DigitQuotients(s) == [i \in DOMAIN s |-> s[i].q]

\* From the top digit down, what is left of the number above a digit is the running
\* remainder.
LEMMA DivDigitsIs ==
    ASSUME NEW dp \in Seq(Digit), dp # <<>>, NEW d \in Digit, d >= MP_RADIX \div 2
    PROVE  /\ DigitQuotients(DivDigits(dp, d)) \in Seq(Digit)
           /\ DigitQuotients(DivDigits(dp, d)) # <<>>
           /\ DivDigits(dp, d)[1].r \in 0 .. d - 1
           /\ MagnitudeOf(dp) = MagnitudeOf(DigitQuotients(DivDigits(dp, d))) * d
                                  + DivDigits(dp, d)[1].r
<1> DEFINE n == Len(dp)
           s == DivDigits(dp, d)
           t == DigitQuotients(s)
<1>0. n \in Nat /\ n > 0 /\ d \in Nat
    <2>1. d \in Nat BY DigitInt
    <2> QED BY <2>1
<1>1. PICK c : /\ \A i \in 1 .. n + 1 : c[i] \in DigitQuotient(d)
               /\ c[n + 1].r = 0
               /\ \A i \in 1 .. n : c[i] = DivDigit(c[i + 1].r, At(dp, i), d)
               /\ s = [i \in 1 .. n |-> c[i]]
    BY DivDigitsRun
<1>2. \A i \in 1 .. n + 1 : c[i].q \in Digit /\ c[i].r \in 0 .. d - 1 /\ c[i].r \in Nat
    <2> SUFFICES ASSUME NEW i \in 1 .. n + 1
                 PROVE  c[i].q \in Digit /\ c[i].r \in 0 .. d - 1 /\ c[i].r \in Nat OBVIOUS
    <2>1. c[i] \in DigitQuotient(d) BY <1>1
    <2>2. c[i].q \in Digit /\ c[i].r \in 0 .. d - 1 BY <2>1 DEF DigitQuotient
    <2> QED BY <1>0, <2>2
<1> HIDE DEF s, n
<1>3. t = [i \in 1 .. n |-> c[i].q] BY <1>1 DEF DigitQuotients
<1>4. t \in Seq(Digit) /\ Len(t) = n
    <2>1. \A i \in 1 .. n : i \in 1 .. n + 1 BY <1>0
    <2> QED BY <1>0, <1>2, <1>3, <2>1
<1>5. \A i \in 1 .. n : At(t, i) = c[i].q BY <1>3, <1>4 DEF At
<1>6. s[1].r = c[1].r /\ 1 \in 1 .. n + 1 BY <1>0, <1>1
<1> HIDE DEF t
<1> DEFINE M == MagnitudeOf(dp)
           Q == MagnitudeOf(t)
           E(j) == M - Part(dp, n - j) = d * (Q - Part(t, n - j)) + c[n + 1 - j].r * Weight(n - j)
           P == {j \in 0 .. n : E(j)}
<1>7. M = Part(dp, n) /\ Q = Part(t, n) /\ M \in Nat /\ Q \in Nat
    <2>1. n >= Len(dp) /\ n >= Len(t) BY <1>0, <1>4 DEF n
    <2> QED BY <1>0, <1>4, <2>1, MagnitudeIs
<1> HIDE DEF M, Q
<1>8. 0 \in P
    <2>1. n - 0 = n /\ n + 1 - 0 = n + 1 /\ 0 \in 0 .. n BY <1>0
    <2>2. Weight(n) \in Nat BY <1>0, WeightIs
    <2>3. M - Part(dp, n) = 0 /\ Q - Part(t, n) = 0 BY <1>7
    <2>4. d * 0 = 0 /\ 0 * Weight(n) = 0 BY <1>0, <2>2
    <2>5. M - Part(dp, n) = d * (Q - Part(t, n)) + c[n + 1].r * Weight(n) BY <1>1, <2>3, <2>4
    <2> QED BY <2>1, <2>5
<1>9. ASSUME NEW j \in 0 .. n - 1, j \in P PROVE j + 1 \in P
    <2> DEFINE i == n - j
               m == n - (j + 1)
               A == Part(dp, m)
               B == Part(t, m)
               w == Weight(m)
               a == At(dp, i)
               b == c[i].q
               p == c[i + 1].r
               r == c[i].r
    <2>1. i \in 1 .. n /\ i \in 1 .. n + 1 /\ i + 1 \in 1 .. n + 1 /\ m \in Nat /\ i = m + 1
          /\ j + 1 \in 0 .. n /\ n + 1 - j = i + 1 /\ n + 1 - (j + 1) = i /\ i \in Int
        BY <1>0
    <2>2. E(j) BY <1>9
    <2>3. M - Part(dp, i) = d * (Q - Part(t, i)) + p * Weight(i) BY <2>1, <2>2
    <2> HIDE DEF i, m
    <2>4. Part(dp, i) = A + a * w /\ A \in Nat BY <2>1, PartIs
    <2>5. Part(t, i) = B + b * w /\ B \in Nat
        <3>1. At(t, i) = b BY <1>5, <2>1
        <3>2. Part(t, m + 1) = Part(t, m) + At(t, m + 1) * Weight(m) /\ Part(t, m) \in Nat
            BY <1>4, <2>1, PartIs
        <3> QED BY <2>1, <3>1, <3>2
    <2>6. Weight(i) = MP_RADIX * w /\ w \in Nat /\ MP_RADIX \in Nat
        BY <2>1, WeightIs, RadixIs
    <2>7. a \in Digit BY <2>1, AtIs
    <2>8. a \in Nat BY <2>7, DigitInt
    <2>9. b \in Digit /\ p \in 0 .. d - 1 /\ p \in Nat /\ r \in Nat BY <1>2, <2>1
    <2>10. b \in Nat BY <2>9, DigitInt
    <2>11. b * d + r = p * MP_RADIX + a
        <3>1. c[i] = DivDigit(p, a, d) BY <1>1, <2>1
        <3>2. DivDigit(p, a, d).q * d + DivDigit(p, a, d).r = p * MP_RADIX + a
            BY <2>7, <2>9, DivDigitIs
        <3> QED BY <3>1, <3>2
    <2> HIDE DEF A, B, w, a, b, p, r
    <2>12. M - (A + a * w) = d * (Q - (B + b * w)) + p * (MP_RADIX * w) BY <2>3, <2>4, <2>5, <2>6
    <2>13. (b * d + r) * w = (p * MP_RADIX + a) * w BY <2>11
    <2>14. (b * d + r) * w = d * (b * w) + r * w BY <1>0, <2>6, <2>9, <2>10
    <2>15. (p * MP_RADIX + a) * w = p * (MP_RADIX * w) + a * w BY <2>6, <2>8, <2>9
    <2>16. d * (Q - (B + b * w)) = d * (Q - B) - d * (b * w) BY <1>0, <1>7, <2>5, <2>6, <2>10
    <2> DEFINE aw == a * w
               dbw == d * (b * w)
               dq == d * (Q - B)
               pw == p * (MP_RADIX * w)
               rw == r * w
    <2>17. aw \in Int /\ dbw \in Int /\ dq \in Int /\ pw \in Int /\ rw \in Int
        BY <1>0, <1>7, <2>5, <2>6, <2>8, <2>9, <2>10
    <2>18. M - (A + aw) = dq - dbw + pw BY <2>12, <2>16
    <2>19. dbw + rw = pw + aw BY <2>13, <2>14, <2>15
    <2> HIDE DEF aw, dbw, dq, pw, rw
    <2>20. M - A = dq + rw BY <1>7, <2>4, <2>17, <2>18, <2>19
    <2>21. M - A = d * (Q - B) + r * w BY <2>20 DEF dq, rw
    <2>22. E(j + 1) BY <2>1, <2>21 DEF A, B, r, w, m
    <2> QED BY <2>1, <2>22
<1> HIDE DEF P
<1>10. \A j \in 0 .. n : j \in P BY <1>0, <1>8, <1>9, UptoInduct
<1>11. E(n)
    <2>1. n \in 0 .. n BY <1>0
    <2>2. n \in P BY <1>10, <2>1
    <2> QED BY <2>2 DEF P
<1>12. M = Q * d + c[1].r
    <2>1. n - n = 0 /\ n + 1 - n = 1 BY <1>0
    <2>2. Part(dp, 0) = 0 /\ Part(t, 0) = 0 BY <1>4, PartIs
    <2>3. Weight(0) = 1
        <3>1. 0 \in Nat OBVIOUS
        <3> QED BY <3>1, WeightIs
    <2>4. M - 0 = d * (Q - 0) + c[1].r * 1 BY <1>11, <2>1, <2>2, <2>3
    <2>5. c[1].r \in Nat BY <1>2, <1>6
    <2> QED BY <1>0, <1>7, <2>4, <2>5
<1>13. t # <<>> BY <1>0, <1>4
<1>14. s[1].r \in 0 .. d - 1 BY <1>2, <1>6
<1> QED BY <1>4, <1>6, <1>12, <1>13, <1>14 DEF M, Q, t, s

\* Both a and b have been multiplied by h.
Scaled(a, b, h, q, r) ==
    /\ a \in Nat /\ b \in Nat /\ h \in Nat /\ b > 0 /\ h > 0 /\ q \in Nat /\ r \in Nat
    /\ a * h = q * (b * h) + r /\ r < b * h

LEMMA Denormal ==
    ASSUME NEW a, NEW b, NEW h, NEW q, NEW r, Scaled(a, b, h, q, r)
    PROVE  /\ a \div b = q
           /\ r \div h = (a % b)
<1> DEFINE e == a - q * b
<1> USE DEF Scaled
<1>1. e \in Int /\ e * h = r
    <2>1. (a - q * b) * h = a * h - (q * b) * h OBVIOUS
    <2>2. (q * b) * h = q * (b * h) OBVIOUS
    <2> DEFINE u == a * h
               v == q * (b * h)
    <2>3. u \in Int /\ v \in Int OBVIOUS
    <2>4. e * h = u - v BY <2>1, <2>2
    <2>5. u = v + r OBVIOUS
    <2> HIDE DEF u, v, e
    <2>6. e * h = r BY <2>3, <2>4, <2>5
    <2> QED BY <2>6 DEF e
<1>2. a = q * b + e OBVIOUS
<1> HIDE DEF e
<1>3. e \in Nat
    <2> SUFFICES ASSUME e < 0 PROVE FALSE BY <1>1
    <2>1. e * h < 0 BY <1>1
    <2> QED BY <1>1, <2>1
<1>4. e < b
    <2> SUFFICES ASSUME e >= b PROVE FALSE BY <1>3
    <2>1. e * h >= b * h BY <1>3
    <2>2. b * h \in Nat OBVIOUS
    <2> QED BY <1>1, <2>1, <2>2
<1>5. a \div b = q /\ (a % b) = e BY <1>2, <1>3, <1>4, DivisionUnique
<1>6. r \div h = e
    <2>1. r = e * h + 0 BY <1>1
    <2>2. 0 \in Nat /\ 0 < h OBVIOUS
    <2> QED BY <1>3, <2>1, <2>2, DivisionUnique
<1> QED BY <1>5, <1>6

LEMMA DivDIs ==
    ASSUME NEW dp, Normal(dp), NEW d \in Digit, d # 0
    PROVE  /\ Normal(s_mp_div_d(dp, d).q)
           /\ MagnitudeOf(s_mp_div_d(dp, d).q) = MagnitudeOf(dp) \div d
           /\ s_mp_div_d(dp, d).r = (MagnitudeOf(dp) % d)
<1> DEFINE M == MagnitudeOf(dp)
           norm == s_mp_norm(d)
           h == 2 ^ norm
           up == s_mp_mul_2d(dp, norm)
           s == DivDigits(up, d * h)
           t == DigitQuotients(s)
<1>0. d \in Nat /\ d > 0 /\ M \in Nat /\ dp \in Seq(Digit) /\ dp # <<>> /\ dp[1] \in Digit
    BY DigitInt, NormalIs DEF Normal
<1>1. s_mp_div_d(dp, d) = CASE d = 1 -> [q |-> dp, r |-> 0]
                            [] d > 1 /\ Len(dp) = 1 -> [q |-> <<dp[1] \div d>>, r |-> dp[1] % d]
                            [] OTHER -> ByNormalised(s, norm)
    BY DEF s_mp_div_d
<1>2. CASE d = 1
    <2>1. s_mp_div_d(dp, d) = [q |-> dp, r |-> 0] BY <1>1, <1>2
    <2>2. M = M * 1 + 0 BY <1>0
    <2>3. 0 \in Nat /\ 0 < d BY <1>0
    <2>4. M \div 1 = M /\ (M % 1) = 0 BY <1>0, <1>2, <2>2, <2>3, DivisionUnique
    <2> QED BY <1>2, <2>1, <2>4
<1>3. CASE d > 1 /\ Len(dp) = 1
    <2>1. s_mp_div_d(dp, d) = [q |-> <<dp[1] \div d>>, r |-> dp[1] % d]
        <3>1. ~(d = 1) BY <1>0, <1>3
        <3> HIDE DEF s, norm
        <3> QED BY <1>1, <1>3, <3>1
    <2>2. M = dp[1] BY <1>3, NormalIs
    <2> DEFINE q == dp[1] \div d
    <2>3. q \in Digit
        <3> DEFINE c == dp[1]
        <3>1. c \in Nat /\ c < MP_RADIX /\ MP_RADIX \in Nat BY <1>0, DigitInt, RadixIs
        <3> HIDE DEF c
        <3>2. c \div d \in Nat /\ (c % d) \in Nat /\ c = (c \div d) * d + (c % d)
            BY <1>0, <3>1, DivisionIs
        <3> DEFINE v == c \div d
                   w == c % d
        <3> HIDE DEF v, w
        <3>3. v \in Nat /\ w \in Nat /\ c = v * d + w BY <3>2 DEF v, w
        <3>4. v <= v * d /\ v * d \in Nat BY <1>0, <3>3
        <3>5. v \in 0 .. MP_RADIX - 1 BY <3>1, <3>3, <3>4
        <3> QED BY <3>5, RadixIs DEF c, v
    <2> HIDE DEF q
    <2>4. Normal(<<q>>) /\ MagnitudeOf(<<q>>) = q BY <2>3, OneDigit
    <2> QED BY <2>1, <2>2, <2>4 DEF q
<1>4. CASE d > 1 /\ Len(dp) # 1
    <2>1. s_mp_div_d(dp, d) = ByNormalised(s, norm)
        <3>1. ~(d = 1) BY <1>0, <1>4
        <3> HIDE DEF s, norm
        <3> QED BY <1>1, <1>4, <3>1
    <2>2. norm \in 0 .. MP_DIGIT_BIT - 1 /\ d * h \in Digit /\ d * h >= MP_RADIX \div 2
        BY NormIs
    <2>3. norm \in Nat BY <2>2
    <2>4. h \in Nat /\ h > 0 BY <2>3, PowerPositive
    <2> HIDE DEF norm
    <2>5. Normal(up) /\ MagnitudeOf(up) = M * h BY <1>0, <2>3, Mul2dIs
    <2> HIDE DEF h
    <2>6. up \in Seq(Digit) /\ up # <<>> BY <2>5 DEF Normal
    <2> DEFINE B == d * h
    <2> HIDE DEF up
    <2>7. /\ t \in Seq(Digit) /\ t # <<>> /\ s[1].r \in 0 .. B - 1
          /\ MagnitudeOf(up) = MagnitudeOf(t) * B + s[1].r
        BY <2>2, <2>6, DivDigitsIs
    <2> DEFINE Q == MagnitudeOf(t)
               r == s[1].r
    <2>8. Q \in Nat BY <2>7, MagnitudeIs
    <2>9. r \in Nat /\ r < B
        <3>1. B \in Nat BY <1>0, <2>4
        <3> QED BY <2>7, <3>1
    <2> HIDE DEF Q, r
    <2>10. M * h = Q * (d * h) + r BY <2>5, <2>7 DEF Q, r
    <2>14. Scaled(M, d, h, Q, r)
      <3>1. d \in Nat /\ d > 0 /\ M \in Nat /\ h \in Nat /\ h > 0 /\ Q \in Nat /\ r \in Nat
            /\ M * h = Q * (d * h) + r /\ r < d * h
          BY <1>0, <2>4, <2>8, <2>9, <2>10
      <3> HIDE DEF M
      <3> QED BY <3>1 DEF Scaled
    <2> HIDE DEF M
    <2>11. M \div d = Q /\ r \div h = (M % d) BY <2>14, Denormal
    <2>12. Normal(s_mp_clamp(t)) /\ MagnitudeOf(s_mp_clamp(t)) = Q BY <2>7, ClampIs DEF Q
    <2>13. ByNormalised(s, norm) = [q |-> s_mp_clamp(t), r |-> r \div h]
        BY DEF ByNormalised, DigitQuotients, r, h
    <2> QED BY <2>1, <2>11, <2>12, <2>13 DEF M
<1> HIDE DEF s, t, norm, h, up
<1> QED BY <1>0, <1>2, <1>3, <1>4

-----------------------------------------------------------------------------
(* The digits of a quotient *)

(* A guess g from the highest digits, with its multiple of the highest digit *)
(* d of the divisor d * w + p no more than e, is too large by two at most    *)
(* when d is in the upper half of the digits.                                *)
LEMMA GuessBound ==
    ASSUME NEW g \in Nat, NEW d \in Nat, NEW w \in Nat, NEW p \in Nat, NEW e \in Nat,
           NEW q \in Nat, NEW h \in Nat, w > 0, p < w,
           g * (d * w) <= e, e < (q + 1) * (d * w + p), g < h, h <= 2 * d
    PROVE  g <= q + 2
<1> DEFINE D == d * w + p
<1>1. D \in Nat OBVIOUS
<1>2. g * D <= e + g * w
    <2>1. g * D = g * (d * w) + g * p OBVIOUS
    <2>2. g * p <= g * w BY LessTimes
    <2> DEFINE a == g * (d * w)
               b == g * p
               c == g * w
    <2>3. a \in Nat /\ b \in Nat /\ c \in Nat OBVIOUS
    <2> HIDE DEF a, b, c, D
    <2> QED BY <2>1, <2>2, <2>3 DEF a, b, c
<1>3. g * w < 2 * D
    <2>1. g * w < (2 * d) * w
        <3>1. g + 1 <= 2 * d OBVIOUS
        <3>2. (g + 1) * w <= (2 * d) * w BY <3>1, LessTimes
        <3>3. (g + 1) * w = g * w + w OBVIOUS
        <3> DEFINE a == g * w
                   b == (2 * d) * w
        <3>4. a \in Nat /\ b \in Nat OBVIOUS
        <3> HIDE DEF a, b
        <3>5. a + w <= b BY <3>2, <3>3 DEF a, b
        <3>6. a < b BY <3>4, <3>5
        <3> QED BY <3>6 DEF a, b
    <2>2. (2 * d) * w = 2 * (d * w) OBVIOUS
    <2> DEFINE a == g * w
               b == d * w
    <2>3. a \in Nat /\ b \in Nat /\ D = b + p OBVIOUS
    <2> HIDE DEF a, b, D
    <2>4. a < 2 * b BY <2>1, <2>2 DEF a, b
    <2>5. a < 2 * D BY <2>3, <2>4
    <2> QED BY <2>5 DEF a
<1>4. g * D < (q + 3) * D
    <2>1. (q + 3) * D = (q + 1) * D + 2 * D BY <1>1
    <2> DEFINE a == g * D
               b == g * w
               c == (q + 1) * D
    <2>2. a \in Nat /\ b \in Nat /\ c \in Nat BY <1>1
    <2>3. e < c OBVIOUS
    <2> HIDE DEF a, b, c, D
    <2>4. a < c + 2 * D BY <1>1, <1>2, <1>3, <2>2, <2>3 DEF a, b
    <2> QED BY <2>1, <2>4 DEF a, c
<1> HIDE DEF D
<1>5. SUFFICES ASSUME g >= q + 3 PROVE FALSE OBVIOUS
<1>6. (q + 3) * D <= g * D BY <1>1, <1>5, LessTimes
<1>7. (q + 3) * D \in Nat /\ g * D \in Nat BY <1>1
<1> QED BY <1>4, <1>6, <1>7

\* A divisor that s_mp_div has normalised.
Divisor(v) == Normal(v) /\ Top(v) >= MP_RADIX \div 2

LEMMA DivisorIs ==
    ASSUME NEW v, Divisor(v)
    PROVE  /\ v \in Seq(Digit) /\ Len(v) \in Nat /\ Len(v) > 0 /\ Top(v) \in Digit
           /\ MagnitudeOf(v) \in Nat /\ MagnitudeOf(v) > 0
           /\ Part(v, Len(v) - 1) \in Nat /\ Part(v, Len(v) - 1) < Weight(Len(v) - 1)
           /\ MagnitudeOf(v) = Top(v) * Weight(Len(v) - 1) + Part(v, Len(v) - 1)
           /\ Weight(Len(v)) <= 2 * MagnitudeOf(v) /\ MagnitudeOf(v) < Weight(Len(v))
           /\ Top(v) \in Nat /\ MP_RADIX <= 2 * Top(v)
<1> DEFINE n == Len(v)
           m == n - 1
           t == Top(v)
           W == Weight(m)
<1>1. v \in Seq(Digit) /\ n \in Nat /\ n > 0 /\ MagnitudeOf(v) \in Nat /\ m \in Nat /\ n = m + 1
    <2>1. v \in Seq(Digit) /\ n \in Nat /\ n > 0 /\ MagnitudeOf(v) \in Nat BY NormalIs DEF Divisor
    <2> QED BY <2>1
<1>2. At(v, n) = t /\ t \in Digit
    <2>1. n \in 1 .. n /\ n \in Int BY <1>1
    <2>2. At(v, n) \in Digit BY <1>1, <2>1, AtIs
    <2> QED BY <2>1, <2>2 DEF At, Top
<1>3. t \in Nat /\ MP_RADIX \in Nat /\ MP_RADIX <= 2 * t
    <2>1. t \in Nat /\ MP_RADIX \in Nat /\ MP_HALF_RADIX \in Nat /\ MP_HALF_RADIX >= 2
          /\ MP_RADIX = MP_HALF_RADIX * MP_HALF_RADIX
        BY <1>2, DigitInt, RadixIs
    <2>2. MP_RADIX = 2 * (MP_RADIX \div 2)
        <3> DEFINE k == MP_DIGIT_BIT - 1
        <3>1. k \in Nat /\ MP_DIGIT_BIT = k + 1 BY RadixIs
        <3>2. 2 ^ k \in Nat /\ 2 ^ (k + 1) = 2 * 2 ^ k BY <3>1, PowerStep
        <3>3. MP_RADIX = 2 * 2 ^ k BY <3>1, <3>2 DEF MP_RADIX
        <3> HIDE DEF k
        <3> DEFINE e == 2 ^ k
        <3>4. e \in Nat /\ MP_RADIX = 2 * e BY <3>2, <3>3
        <3> HIDE DEF e
        <3>5. MP_RADIX \div 2 = e BY <3>4
        <3> QED BY <3>4, <3>5
    <2>3. t >= MP_RADIX \div 2 BY DEF Divisor
    <2> HIDE DEF t
    <2> QED BY <2>1, <2>2, <2>3
<1>4. MagnitudeOf(v) = Part(v, n)
    <2>1. n >= Len(v) BY <1>1
    <2> QED BY <1>1, <2>1, MagnitudeIs
<1> HIDE DEF n, m, t
<1>5. Part(v, n) = Part(v, m) + t * W /\ Part(v, m) \in Nat /\ Part(v, m) < W
    BY <1>1, <1>2, PartIs
<1>6. W \in Nat /\ W > 0 /\ Weight(n) = MP_RADIX * W BY <1>1, WeightIs
<1>7. Part(v, n) < Weight(n) BY <1>1, PartIs
<1>8. MP_RADIX * W <= 2 * (t * W) /\ t * W \in Nat
    <2>1. MP_RADIX * W <= (2 * t) * W BY <1>3, <1>6, LessTimes
    <2>2. (2 * t) * W = 2 * (t * W) BY <1>3, <1>6
    <2> HIDE DEF W
    <2> QED BY <1>3, <1>6, <2>1, <2>2
<1>9. t > 0
    <2>1. MP_RADIX >= 4 BY RadixIs
    <2> QED BY <1>3, <2>1
<1>10. t * W > 0 BY <1>3, <1>6, <1>9
<1> DEFINE tw == t * W
           P == Part(v, m)
<1> HIDE DEF W, P, tw
<1>11. MagnitudeOf(v) = tw + P /\ P \in Nat /\ tw \in Nat /\ tw > 0 /\ Weight(n) <= 2 * tw
       /\ Weight(n) \in Nat
    <2>1. Weight(n) \in Nat BY <1>1, WeightIs
    <2> QED BY <1>4, <1>5, <1>6, <1>8, <1>10, <2>1 DEF tw, P
<1>12. MagnitudeOf(v) > 0 /\ Weight(n) <= 2 * MagnitudeOf(v) BY <1>11
<1> QED BY <1>1, <1>2, <1>3, <1>4, <1>5, <1>7, <1>11, <1>12 DEF n, m, t, W, P, tw

LEMMA QuotientGuessIs ==
    ASSUME NEW v, Divisor(v), NEW part \in Seq(Digit), Len(part) = Len(v) + 1,
           MagnitudeOf(part) < MP_RADIX * MagnitudeOf(v)
    PROVE  LET q == MagnitudeOf(part) \div MagnitudeOf(v)
           IN  /\ q \in Nat /\ QuotientGuess(part, v) \in Digit
               /\ q <= QuotientGuess(part, v) /\ QuotientGuess(part, v) <= q + 2
<1> DEFINE n == Len(v)
           m == n - 1
           D == MagnitudeOf(v)
           E == MagnitudeOf(part)
           W == Weight(m)
           R == MP_RADIX
           d == Top(v)
           p == Part(v, m)
           e1 == Top(part)
           e2 == part[Len(part) - 1]
           lo == Part(part, m)
           top == e1 * R + e2
           q == E \div D
           g == QuotientGuess(part, v)
<1>1. /\ v \in Seq(Digit) /\ n \in Nat /\ n > 0 /\ d \in Digit /\ d \in Nat
      /\ D \in Nat /\ D > 0 /\ p \in Nat /\ p < W /\ D = d * W + p /\ R <= 2 * d
      /\ d >= R \div 2
    BY DivisorIs DEF Divisor
<1>2. m \in Nat /\ n = m + 1 /\ Len(part) = n + 1 /\ Len(part) - 1 = n BY <1>1
<1>3. R \in Nat /\ R >= 4 BY RadixIs
<1>4. W \in Nat /\ W > 0 /\ Weight(n) = R * W BY <1>2, WeightIs
<1>5. E \in Nat /\ E = Part(part, n + 1)
    <2>1. n + 1 \in Nat /\ n + 1 >= Len(part) BY <1>1
    <2> QED BY <1>2, <2>1, MagnitudeIs
<1>6. At(part, n + 1) = e1 /\ At(part, n) = e2 /\ e1 \in Digit /\ e2 \in Digit
    <2>1. n + 1 \in 1 .. Len(part) /\ n \in 1 .. Len(part) /\ n + 1 \in Int /\ n \in Int
        BY <1>1, <1>2
    <2>2. At(part, n + 1) \in Digit /\ At(part, n) \in Digit BY <2>1, AtIs
    <2>3. At(part, n + 1) = part[n + 1] /\ At(part, n) = part[n] BY <2>1 DEF At
    <2> QED BY <1>2, <2>2, <2>3 DEF Top
<1>7. e1 \in Nat /\ e2 \in Nat /\ e1 < R /\ e2 < R BY <1>6, DigitInt
<1>8. Part(part, n + 1) = Part(part, n) + e1 * Weight(n)
      /\ Part(part, n) = lo + e2 * W /\ lo \in Nat /\ lo < W
    BY <1>1, <1>2, <1>6, PartIs
<1> HIDE DEF n, m, d, e1, e2
<1>9. E = top * W + lo /\ top \in Nat
    <2>1. top * W = e1 * (R * W) + e2 * W BY <1>3, <1>4, <1>7
    <2>2. top \in Nat BY <1>3, <1>7
    <2> DEFINE a == e1 * (R * W)
               b == e2 * W
               c == top * W
    <2>3. a \in Nat /\ b \in Nat BY <1>3, <1>4, <1>7
    <2>4. E = lo + b + a BY <1>4, <1>5, <1>8
    <2> HIDE DEF a, b, E, lo
    <2>5. E = a + b + lo BY <1>8, <2>3, <2>4 DEF lo
    <2> QED BY <2>1, <2>2, <2>5 DEF a, b
<1> HIDE DEF D, E, W, R, lo, p
<1>d. D \in Nat /\ D > 0 /\ R \in Nat BY <1>1, <1>3
<1>10. e1 <= d
    <2> SUFFICES ASSUME e1 >= d + 1 PROVE FALSE BY <1>1, <1>7
    <2>1. (d + 1) * (R * W) <= e1 * (R * W)
        <3>1. R * W \in Nat BY <1>3, <1>4
        <3> QED BY <1>1, <1>7, <3>1, LessTimes
    <2>2. e1 * (R * W) <= E
        <3>1. e1 * (R * W) \in Nat /\ e2 * W \in Nat BY <1>3, <1>4, <1>7
        <3>2. E = (lo + e2 * W) + e1 * (R * W) BY <1>4, <1>5, <1>8
        <3>3. lo \in Nat BY <1>8
        <3> DEFINE a == e1 * (R * W)
                   b == e2 * W
        <3> HIDE DEF a, b
        <3>4. a \in Nat /\ b \in Nat /\ E = (lo + b) + a BY <3>1, <3>2 DEF a, b
        <3>5. a <= E BY <3>3, <3>4
        <3> QED BY <3>5 DEF a
    <2>3. (d + 1) * (R * W) = R * (d * W + W) BY <1>1, <1>3, <1>4
    <2>4. R * D < R * (d * W + W)
        <3>1. d * W + W \in Nat /\ D < d * W + W
            <4>1. d * W \in Nat BY <1>1, <1>4
            <4> DEFINE a == d * W
            <4> HIDE DEF a
            <4>2. a \in Nat /\ D = a + p BY <1>1, <4>1 DEF a
            <4>3. a + W \in Nat /\ D < a + W BY <1>1, <1>4, <4>2
            <4> QED BY <4>3 DEF a
        <3> DEFINE a == d * W + W
        <3> HIDE DEF a
        <3>2. D + 1 <= a /\ a \in Nat BY <1>1, <3>1 DEF a
        <3>3. R * (D + 1) <= R * a BY <1>d, <3>2, LessTimes
        <3>4. R * (D + 1) = R * D + R /\ R * D \in Nat /\ R * a \in Nat BY <1>d, <3>2
        <3>5. R * D < R * a BY <1>3, <3>3, <3>4
        <3> QED BY <3>5 DEF a
    <2> DEFINE a == e1 * (R * W)
               b == (d + 1) * (R * W)
               c == R * D
    <2>5. a \in Nat /\ b \in Nat /\ c \in Nat BY <1>1, <1>3, <1>4, <1>7
    <2>6. E < c BY DEF R, E, D
    <2>7. c < b BY <2>3, <2>4
    <2> HIDE DEF a, b, c
    <2>8. b <= a /\ a <= E BY <2>1, <2>2 DEF a, b
    <2> QED BY <1>5, <2>5, <2>6, <2>7, <2>8
<1>11. q \in Nat /\ E = q * D + (E % D) /\ (E % D) \in Nat /\ (E % D) < D
    BY <1>1, <1>5, DivisionIs
<1>q. q \in Nat BY <1>11
<1> HIDE DEF q
<1>12. q * D <= E /\ E < (q + 1) * D
    <2> DEFINE r == E % D
               a == q * D
    <2>0. a \in Nat BY <1>d, <1>q
    <2>1. r \in Nat /\ r < D /\ a \in Nat /\ E = a + r BY <1>11, <2>0
    <2>2. (q + 1) * D = a + D BY <1>d, <1>q
    <2> HIDE DEF r, a
    <2>3. a <= E /\ E < a + D BY <1>1, <2>1
    <2> QED BY <2>2, <2>3 DEF a
<1>13. q < R
    <2> SUFFICES ASSUME q >= R PROVE FALSE BY <1>3, <1>11
    <2>1. R * D <= q * D BY <1>d, <1>q, LessTimes
    <2>2. E < R * D BY DEF R, E, D
    <2>3. R * D \in Nat /\ q * D \in Nat BY <1>d, <1>q
    <2> QED BY <1>5, <1>12, <2>1, <2>2, <2>3
<1>14. ASSUME NEW k \in Nat, k < R, k * (d * W) <= E PROVE k <= q + 2
    <2>1. E < (q + 1) * (d * W + p) BY <1>1, <1>12
    <2> HIDE DEF top
    <2> QED BY <1>1, <1>3, <1>4, <1>5, <1>11, <1>14, <2>1, GuessBound
<1>15. CASE e1 = d
    <2>1. g = MP_RADIX - 1 BY <1>15 DEF QuotientGuess, MP_DIGIT_MAX, d, e1
    <2>2. g \in 0 .. MP_RADIX - 1 /\ g \in Nat /\ g < R /\ q <= g
        BY <1>3, <1>11, <1>13, <2>1 DEF R
    <2>3. g \in Digit BY <2>2, RadixIs
    <2>4. g * (d * W) <= E
        <3>1. d * W \in Nat BY <1>1, <1>4
        <3>2. g * (d * W) <= R * (d * W) BY <1>3, <2>2, <3>1, LessTimes
        <3>3. R * (d * W) = e1 * (R * W) BY <1>1, <1>3, <1>4, <1>15
        <3>4. e1 * (R * W) \in Nat /\ e2 * W \in Nat /\ g * (d * W) \in Nat
            BY <1>1, <1>3, <1>4, <1>7, <2>2
        <3>5. E = (lo + e2 * W) + e1 * (R * W) BY <1>4, <1>5, <1>8
        <3> DEFINE a == e1 * (R * W)
                   b == e2 * W
                   c == g * (d * W)
        <3> HIDE DEF a, b, c, g
        <3>6. a \in Nat /\ b \in Nat /\ c \in Nat /\ E = (lo + b) + a /\ c <= a
            BY <3>2, <3>3, <3>4, <3>5 DEF a, b, c
        <3>7. c <= E BY <1>8, <3>6
        <3> QED BY <3>7 DEF c
    <2> HIDE DEF g
    <2>5. g <= q + 2 BY <1>14, <2>2, <2>4
    <2> QED BY <1>11, <2>2, <2>3, <2>5 DEF q, g, E, D
<1>16. CASE e1 # d
    <2> DEFINE z == s_mpv_div_2dx1d(e1, e2, d)
    <2>1. g = z.q BY <1>16 DEF QuotientGuess, d, e1, e2
    <2>2. e1 < d BY <1>1, <1>7, <1>10, <1>16
    <2>3. z.q \in Digit /\ z.r \in Nat /\ z.r < d /\ z.q * d + z.r = top
        BY <1>1, <1>6, <2>2, Div2dx1dIs DEF R
    <2> HIDE DEF z, g
    <2>4. g \in Digit /\ g \in Nat /\ g < R BY <2>1, <2>3, DigitInt DEF R
    <2>5. g * d + z.r = top BY <2>1, <2>3
    <2>6. g * (d * W) <= E
        <3>1. g * d \in Nat /\ g * d <= top
            <4>1. g * d \in Nat BY <1>1, <2>4
            <4> DEFINE a == g * d
            <4> HIDE DEF a, top
            <4>2. a \in Nat /\ a + z.r = top BY <2>5, <4>1 DEF a
            <4>3. a <= top BY <2>3, <4>2
            <4> QED BY <4>1, <4>3 DEF a
        <3> HIDE DEF top
        <3>2. (g * d) * W <= top * W BY <1>4, <1>9, <3>1, LessTimes
        <3>3. (g * d) * W = g * (d * W) BY <1>1, <1>4, <2>4
        <3> DEFINE a == g * (d * W)
                   b == top * W
        <3>4. a \in Nat /\ b \in Nat BY <1>1, <1>4, <1>9, <2>4
        <3> HIDE DEF a, b
        <3>5. a <= b /\ E = b + lo BY <1>9, <3>2, <3>3 DEF a, b
        <3>6. a <= E BY <1>8, <3>4, <3>5
        <3> QED BY <3>6 DEF a
    <2>7. g <= q + 2 BY <1>14, <2>4, <2>6
    <2>8. q <= g
        <3> SUFFICES ASSUME q >= g + 1 PROVE FALSE BY <1>11, <2>4
        <3>1. (g + 1) * d >= top + 1
            <4>1. (g + 1) * d = g * d + d BY <1>1, <2>4
            <4> DEFINE a == g * d
            <4>2. a \in Nat BY <1>1, <2>4
            <4> HIDE DEF a, top
            <4>3. a + z.r = top /\ (g + 1) * d = a + d BY <2>5, <4>1 DEF a
            <4> QED BY <1>1, <1>9, <2>3, <4>2, <4>3
        <3> HIDE DEF top
        <3>2. (g + 1) * D <= q * D BY <1>d, <1>q, <2>4, LessTimes
        <3>3. ((g + 1) * d) * W <= (g + 1) * D
            <4>1. (g + 1) * D = ((g + 1) * d) * W + (g + 1) * p BY <1>1, <1>4, <2>4
            <4>2. (g + 1) * p \in Nat /\ ((g + 1) * d) * W \in Nat BY <1>1, <1>4, <2>4
            <4> DEFINE a == (g + 1) * p
                       b == ((g + 1) * d) * W
                       c == (g + 1) * D
            <4> HIDE DEF a, b, c
            <4>3. c = b + a /\ a \in Nat /\ b \in Nat BY <4>1, <4>2 DEF a, b, c
            <4>4. b <= c BY <4>3
            <4> QED BY <4>4 DEF b, c
        <3>4. (top + 1) * W <= ((g + 1) * d) * W
            <4>1. (g + 1) * d \in Nat BY <1>1, <2>4
            <4> QED BY <1>4, <1>9, <3>1, <4>1, LessTimes
        <3>5. (top + 1) * W = top * W + W BY <1>4, <1>9
        <3> DEFINE a == top * W
                   b == ((g + 1) * d) * W
                   c == (g + 1) * D
                   f == q * D
        <3>6. a \in Nat /\ b \in Nat /\ c \in Nat /\ f \in Nat
            <4>1. d \in Nat /\ W \in Nat BY <1>1, <1>4
            <4>2. a \in Nat /\ f \in Nat BY <1>9, <1>d, <1>q, <4>1
            <4>3. b \in Nat /\ c \in Nat BY <1>d, <2>4, <4>1
            <4> QED BY <4>2, <4>3
        <3> HIDE DEF a, b, c, f
        <3>7. f <= E /\ c <= f /\ b <= c /\ a + W <= b /\ E = a + lo
            BY <1>9, <1>12, <3>2, <3>3, <3>4, <3>5 DEF a, b, c, f
        <3> QED BY <1>4, <1>5, <1>8, <3>6, <3>7
    <2> QED BY <1>11, <2>4, <2>7, <2>8 DEF q, g, E, D
<1> HIDE DEF g
<1> QED BY <1>15, <1>16 DEF q, g, E, D

\* The quotient digit is too large: the divisor is taken off its multiple.
LEMMA TakenOffIs ==
    ASSUME NEW v, Normal(v), NEW t, Normal(t), MagnitudeOf(v) <= MagnitudeOf(t)
    PROVE  /\ Normal(s_mp_clamp(SubDigits(t, v).dp))
           /\ MagnitudeOf(s_mp_clamp(SubDigits(t, v).dp)) = MagnitudeOf(t) - MagnitudeOf(v)
           /\ SubDigits(t, v).borrow = 0
           /\ SubDigits(t, v).dp \in Seq(Digit) /\ Len(SubDigits(t, v).dp) = Len(t)
           /\ MagnitudeOf(SubDigits(t, v).dp) = MagnitudeOf(t) - MagnitudeOf(v)
<1> DEFINE s == SubDigits(t, v)
<1>1. /\ v \in Seq(Digit) /\ t \in Seq(Digit) /\ MagnitudeOf(v) \in Nat /\ MagnitudeOf(t) \in Nat
      /\ Len(v) \in Nat /\ Len(t) \in Nat /\ Len(t) > 0
    BY NormalIs
<1>2. Len(v) <= Len(t)
    <2> SUFFICES ASSUME Len(v) > Len(t) PROVE FALSE BY <1>1
    <2>1. MagnitudeOf(v) > MagnitudeOf(t) BY LongerIsLarger
    <2> QED BY <1>1, <2>1
<1>3. s.dp \in Seq(Digit) /\ Len(s.dp) = Len(t) /\ (s.borrow # 0 <=> MagnitudeOf(t) < MagnitudeOf(v))
      /\ (s.borrow = 0 => MagnitudeOf(s.dp) = MagnitudeOf(t) - MagnitudeOf(v))
    BY <1>1, <1>2, SubDigitsIs
<1> HIDE DEF s
<1>4. s.borrow = 0 BY <1>1, <1>3
<1>5. s.dp # <<>> BY <1>1, <1>3
<1>6. Normal(s_mp_clamp(s.dp)) /\ MagnitudeOf(s_mp_clamp(s.dp)) = MagnitudeOf(s.dp)
    BY <1>3, <1>5, ClampIs
<1> QED BY <1>3, <1>4, <1>6 DEF s

\* q is what the division of the integers gives.
QuotientOf(q, e, d) == q \in Nat /\ q > 0 /\ q * d <= e /\ e < (q + 1) * d

(* A guess that is too large by no more than two is taken back until it is   *)
(* right.                                                                    *)
LEMMA BackOffIs ==
    ASSUME NEW v, Divisor(v), NEW part, Normal(part), NEW guess \in Digit, NEW q,
           QuotientOf(q, MagnitudeOf(part), MagnitudeOf(v)), q <= guess, guess <= q + 2
    PROVE  LET b == BackOff(guess, s_mp_mul_d(v, guess), v, part)
           IN  b.q = q /\ q \in Digit /\ Normal(b.t) /\ MagnitudeOf(b.t) = q * MagnitudeOf(v)
<1> DEFINE D == MagnitudeOf(v)
           E == MagnitudeOf(part)
           first == [q |-> guess, t |-> s_mp_mul_d(v, guess)]
           Step(w, i) == IF s_mp_cmp(w.t, part) = MP_GT
                         THEN [q |-> w.q - 1, t |-> s_mp_clamp(SubDigits(w.t, v).dp)]
                         ELSE w
           Body(h) == [i \in 0 .. 4 |-> IF i = 0 THEN first ELSE Step(h[i - 1], i)]
           c == CHOOSE h : h = Body(h)
           V == [q : Digit, t : Seq(Digit)]
           I == [j \in 0 .. 4 |-> {w \in V : /\ Normal(w.t) /\ MagnitudeOf(w.t) = w.q * D
                                             /\ q <= w.q /\ (w.q + j <= q + 2 \/ w.q = q)}]
           Good(w, j) == /\ w \in V /\ Normal(w.t) /\ MagnitudeOf(w.t) = w.q * D
                         /\ q <= w.q /\ (w.q + j <= q + 2 \/ w.q = q)
<1>0. BackOff(guess, s_mp_mul_d(v, guess), v, part) = c[4] BY DEF BackOff
<1>n. 4 \in Nat OBVIOUS
<1>1. Normal(v) /\ D \in Nat /\ D > 0 BY DivisorIs DEF Divisor
<1>2. E \in Nat BY NormalIs
<1>3. q \in Nat /\ q > 0 /\ q * D <= E /\ E < (q + 1) * D BY DEF QuotientOf
<1>4. guess \in Nat /\ guess < MP_RADIX /\ MP_RADIX \in Nat BY DigitInt, RadixIs
<1>I. \A j \in 0 .. 4 : \A w : w \in I[j] <=> Good(w, j) OBVIOUS
<1>L3. \A i \in 0 .. 4 : I[i] \subseteq V OBVIOUS
<1>L1. first \in I[0]
    <2>1. Normal(s_mp_mul_d(v, guess)) /\ MagnitudeOf(s_mp_mul_d(v, guess)) = D * guess BY <1>1, MulDIs
    <2>2. D * guess = guess * D /\ guess + 0 = guess BY <1>1, <1>4
    <2>3. s_mp_mul_d(v, guess) \in Seq(Digit) BY <2>1, NormalIs
    <2>4. first \in V /\ first.q = guess /\ first.t = s_mp_mul_d(v, guess) BY <2>3
    <2> HIDE DEF first, V, D
    <2>5. Good(first, 0) BY <2>1, <2>2, <2>4
    <2>6. 0 \in 0 .. 4 OBVIOUS
    <2> HIDE DEF Good, I
    <2> QED BY <1>I, <2>5, <2>6
<1>L2. ASSUME NEW j \in 0 .. 4 - 1, NEW w \in I[j] PROVE Step(w, j + 1) \in I[j + 1]
    <2> DEFINE k == w.q
               u == Step(w, j + 1)
    <2>1. j \in 0 .. 4 /\ j + 1 \in 0 .. 4 /\ j \in Nat OBVIOUS
    <2>2. Good(w, j)
        <3> HIDE DEF Good, I
        <3> QED BY <1>I, <2>1
    <2>3. k \in Digit /\ Normal(w.t) /\ MagnitudeOf(w.t) = k * D /\ q <= k
          /\ (k + j <= q + 2 \/ k = q)
        BY <2>2
    <2>4. k \in Nat /\ k < MP_RADIX BY <2>3, DigitInt
    <2>5. s_mp_cmp(w.t, part) = Sgn(k * D - E) BY <2>3, CmpIs
    <2>6. k * D \in Nat BY <1>1, <2>4
    <2> HIDE DEF k, D, E
    <2>7. Good(u, j + 1)
        <3>1. CASE k * D > E
            <4>1. Sgn(k * D - E) = MP_GT
                <5> DEFINE a == k * D
                <5> HIDE DEF a
                <5>1. a \in Nat /\ a > E BY <2>6, <3>1 DEF a
                <5>2. Sgn(a - E) = 1 BY <1>2, <5>1 DEF Sgn
                <5> QED BY <5>2 DEF a, MP_GT
            <4>2. u = [q |-> k - 1, t |-> s_mp_clamp(SubDigits(w.t, v).dp)]
                BY <2>5, <4>1 DEF k
            <4>3. k # q BY <1>2, <1>3, <2>6, <3>1
            <4>4. k - 1 \in Nat /\ q <= k - 1 /\ k > 0 /\ k - 1 < MP_RADIX /\ (k - 1) + (j + 1) <= q + 2
                BY <1>3, <2>1, <2>3, <2>4, <4>3, <1>4
            <4>5. k * D = (k - 1) * D + D /\ (k - 1) * D \in Nat BY <1>1, <2>4, <4>4
            <4>6. D <= k * D /\ k * D - D = (k - 1) * D
                <5> DEFINE a == k * D
                           b == (k - 1) * D
                <5> HIDE DEF a, b
                <5>1. a = b + D /\ b \in Nat BY <4>5 DEF a, b
                <5>2. D <= a /\ a - D = b BY <1>1, <5>1
                <5> QED BY <5>2 DEF a, b
            <4>7. Normal(s_mp_clamp(SubDigits(w.t, v).dp))
                  /\ MagnitudeOf(s_mp_clamp(SubDigits(w.t, v).dp)) = MagnitudeOf(w.t) - MagnitudeOf(v)
                BY <1>1, <2>3, <4>6, TakenOffIs DEF D
            <4> DEFINE z == s_mp_clamp(SubDigits(w.t, v).dp)
            <4>8. k - 1 \in Digit
                <5>1. k - 1 \in 0 .. MP_RADIX - 1 BY <1>4, <4>4
                <5> QED BY <5>1, RadixIs
            <4>9. z \in Seq(Digit) BY <4>7, NormalIs
            <4>10. MagnitudeOf(z) = (k - 1) * D BY <2>3, <4>6, <4>7 DEF D
            <4> HIDE DEF z, u
            <4>11. u = [q |-> k - 1, t |-> z] BY <4>2 DEF z
            <4>12. u \in V /\ u.q = k - 1 /\ u.t = z BY <4>8, <4>9, <4>11
            <4>13. Normal(z) BY <4>7 DEF z
            <4> HIDE DEF V
            <4> QED BY <4>4, <4>10, <4>12, <4>13
        <3>2. CASE ~(k * D > E)
            <4>1. Sgn(k * D - E) # MP_GT
                <5> DEFINE a == k * D
                <5> HIDE DEF a
                <5>1. a \in Nat /\ ~(a > E) BY <2>6, <3>2 DEF a
                <5>2. ~(a - E > 0) BY <1>2, <5>1
                <5>3. Sgn(a - E) \in {-1, 0} BY <5>2 DEF Sgn
                <5>4. -1 # 1 /\ 0 # 1 OBVIOUS
                <5> QED BY <5>3, <5>4 DEF a, MP_GT
            <4>2. u = w BY <2>5, <4>1
            <4>3. k = q
                <5> SUFFICES ASSUME k >= q + 1 PROVE FALSE BY <1>3, <2>3, <2>4
                <5>1. (q + 1) * D <= k * D BY <1>1, <1>3, <2>4, LessTimes
                <5> DEFINE a == k * D
                           b == (q + 1) * D
                <5>2. a \in Nat /\ b \in Nat BY <1>1, <1>3, <2>6
                <5> HIDE DEF a, b
                <5>3. b <= a /\ E < b /\ ~(a > E) BY <1>3, <3>2, <5>1 DEF a, b
                <5> QED BY <1>2, <5>2, <5>3
            <4> HIDE DEF u, V
            <4> QED BY <2>2, <4>2, <4>3 DEF k
        <3> QED BY <3>1, <3>2
    <2> HIDE DEF Good, I, Step
    <2> QED BY <1>I, <2>1, <2>7
<1> DEFINE g == [w \in V \X Nat |-> Step(w[1], w[2])]
<1>L4. \A w \in V, i \in Nat : g[<<w, i>>] = Step(w, i)
    <2> HIDE DEF Step, V, I
    <2> QED OBVIOUS
<1>L5. PICK h \in [0 .. 4 -> V] :
         \A i \in 0 .. 4 : h[i] \in I[i] /\ h[i] = IF i = 0 THEN first ELSE g[<<h[i - 1], i>>]
    <2> HIDE DEF g, I, first, V, Step
    <2>1. ASSUME NEW i \in 0 .. 4 - 1, NEW w \in I[i] PROVE g[<<w, i + 1>>] \in I[i + 1]
        <3>1. i \in 0 .. 4 /\ i + 1 \in Nat BY <1>n
        <3>2. w \in V BY <1>L3, <3>1
        <3> QED BY <1>L2, <1>L4, <3>1, <3>2
    <2>2. StaysIn(I, V, first, g, 4) BY <1>L1, <1>L3, <2>1 DEF StaysIn
    <2>3. \E f \in [0 .. 4 -> V] : RecursesUpto(f, first, g, 4) /\ \A i \in 0 .. 4 : f[i] \in I[i]
        BY <1>n, <2>2, UptoStates
    <2> QED BY <2>3 DEF RecursesUpto
<1>L6. ASSUME NEW i \in 0 .. 4 PROVE h[i] = IF i = 0 THEN first ELSE Step(h[i - 1], i)
    <2> HIDE DEF g, I, first, V, Step
    <2>1. CASE i = 0 BY <1>L5, <2>1
    <2>2. CASE i # 0
        <3>1. i - 1 \in 0 .. 4 /\ i \in Nat BY <1>n, <2>2
        <3>2. h[i - 1] \in V BY <1>L5, <3>1
        <3> QED BY <1>L4, <1>L5, <2>2, <3>1, <3>2
    <2> QED BY <2>1, <2>2
<1> HIDE DEF g
<1>L7. h = Body(h)
    <2> DEFINE t == Body(h)
    <2>1. \A i \in 0 .. 4 : t[i] = IF i = 0 THEN first ELSE Step(h[i - 1], i) OBVIOUS
    <2>2. t = [i \in 0 .. 4 |-> t[i]] /\ h = [i \in 0 .. 4 |-> h[i]] OBVIOUS
    <2> HIDE DEF t, Step, first, I, V
    <2>3. \A i \in 0 .. 4 : h[i] = t[i] BY <1>L6, <2>1
    <2>4. h = t BY <2>2, <2>3
    <2> QED BY <2>4 DEF t, Step, first
<1>L8. c = Body(c) BY <1>L7
<1> HIDE DEF c
<1>L9. \A i \in 0 .. 4 : c[i] = IF i = 0 THEN first ELSE Step(c[i - 1], i)
    <2> DEFINE t == Body(c)
    <2>1. \A i \in 0 .. 4 : t[i] = IF i = 0 THEN first ELSE Step(c[i - 1], i) OBVIOUS
    <2>2. c = t BY <1>L8
    <2> HIDE DEF t, Step, first
    <2> QED BY <2>1, <2>2
<1> HIDE DEF Body, I, V, first, Step
<1>La. \A i \in 0 .. 4 : c[i] \in I[i]
    <2> DEFINE P == {i \in Nat : c[i] \in I[i]}
    <2>1. 0 \in P
        <3>1. 0 \in 0 .. 4 BY <1>n
        <3> QED BY <1>L1, <1>L9, <3>1
    <2>2. ASSUME NEW i \in 0 .. 4 - 1, i \in P PROVE i + 1 \in P
        <3>1. i + 1 \in 0 .. 4 /\ i + 1 \in Nat /\ i + 1 # 0 /\ (i + 1) - 1 = i BY <1>n
        <3>2. c[i] \in I[i] BY <2>2
        <3>3. c[i + 1] = Step(c[i], i + 1) BY <1>L9, <3>1
        <3>4. Step(c[i], i + 1) \in I[i + 1] BY <1>L2, <3>2
        <3> QED BY <3>1, <3>3, <3>4
    <2> HIDE DEF P
    <2>3. \A i \in 0 .. 4 : i \in P BY <1>n, <2>1, <2>2, UptoInduct
    <2> QED BY <2>3 DEF P

<1>5. c[4] \in I[4]
    <2>1. 4 \in 0 .. 4 OBVIOUS
    <2> QED BY <1>La, <2>1
<1>6. Good(c[4], 4)
    <2>1. 4 \in 0 .. 4 OBVIOUS
    <2> HIDE DEF Good
    <2> QED BY <1>I, <1>5, <2>1
<1>7. c[4].q \in Digit /\ Normal(c[4].t) /\ MagnitudeOf(c[4].t) = c[4].q * D
      /\ (c[4].q + 4 <= q + 2 \/ c[4].q = q) /\ q <= c[4].q
    BY <1>6 DEF V
<1> HIDE DEF Good, D, E
<1>8. c[4].q = q
    <2>1. c[4].q \in Nat BY <1>7, DigitInt
    <2> QED BY <1>3, <1>7, <2>1
<1> QED BY <1>0, <1>7, <1>8 DEF D

LEMMA SetDigitIs ==
    ASSUME NEW s \in Seq(Digit), NEW k \in Nat, k < Len(s), At(s, k + 1) = 0, NEW q \in Digit
    PROVE  LET r == [i \in DOMAIN s |-> IF i = k + 1 THEN q ELSE s[i]]
           IN  /\ r \in Seq(Digit) /\ Len(r) = Len(s)
               /\ MagnitudeOf(r) = MagnitudeOf(s) + q * Weight(k)
               /\ \A i \in 1 .. k : At(r, i) = At(s, i)
<1> DEFINE r == [i \in DOMAIN s |-> IF i = k + 1 THEN q ELSE s[i]]
           n == Len(s)
<1>1. n \in Nat /\ k + 1 \in Nat /\ k + 1 <= n /\ k + 1 \in 1 .. n OBVIOUS
<1>2. DOMAIN s = 1 .. n /\ \A i \in 1 .. n : s[i] \in Digit OBVIOUS
<1>3. r \in Seq(Digit) /\ Len(r) = n
    <2>1. r = [i \in 1 .. n |-> IF i = k + 1 THEN q ELSE s[i]] BY <1>2
    <2>2. \A i \in 1 .. n : (IF i = k + 1 THEN q ELSE s[i]) \in Digit BY <1>2
    <2> HIDE DEF r, n
    <2> QED BY <1>1, <2>1, <2>2
<1>4. \A i \in 1 .. n : r[i] = IF i = k + 1 THEN q ELSE s[i] BY <1>2
<1> HIDE DEF r
<1>5. \A i \in Int : i # k + 1 => At(r, i) = At(s, i)
    <2> SUFFICES ASSUME NEW i \in Int, i # k + 1 PROVE At(r, i) = At(s, i) OBVIOUS
    <2>1. CASE i \in 1 .. n BY <1>3, <1>4, <2>1 DEF At
    <2>2. CASE ~(i \in 1 .. n) BY <1>3, <2>2 DEF At
    <2> QED BY <2>1, <2>2
<1>6. At(r, k + 1) = q BY <1>1, <1>3, <1>4 DEF At
<1>7. Part(r, n) - Part(s, n) = Part(r, k + 1) - Part(s, k + 1)
    <2>1. \A i \in k + 2 .. n : At(r, i) = At(s, i) BY <1>5
    <2>2. \A i \in (k + 1) + 1 .. n : At(r, i) = At(s, i) BY <2>1
    <2> QED BY <1>1, <1>3, <2>2, PartDiffers
<1>8. Part(r, k) = Part(s, k)
    <2>1. \A i \in 1 .. k : At(r, i) = At(s, i) BY <1>5
    <2> QED BY <1>3, <2>1, PartSame
<1>9. Part(r, k + 1) = Part(r, k) + q * Weight(k) /\ Part(r, k) \in Nat
    BY <1>3, <1>6, PartIs
<1>10. Part(s, k + 1) = Part(s, k) + 0 * Weight(k) /\ Part(s, k) \in Nat BY PartIs
<1>11. MagnitudeOf(r) = Part(r, n) /\ MagnitudeOf(s) = Part(s, n)
       /\ MagnitudeOf(r) \in Nat /\ MagnitudeOf(s) \in Nat
    BY <1>1, <1>3, MagnitudeIs
<1>12. Weight(k) \in Nat /\ q \in Nat BY WeightIs, DigitInt
<1> DEFINE u == q * Weight(k)
<1>13. u \in Nat /\ 0 * Weight(k) = 0 BY <1>12
<1> HIDE DEF u
<1>14. MagnitudeOf(r) = MagnitudeOf(s) + u
    <2>1. Part(r, k + 1) = Part(r, k) + u BY <1>9 DEF u
    <2>2. Part(s, k + 1) = Part(s, k) BY <1>10, <1>13
    <2> QED BY <1>7, <1>8, <1>9, <1>10, <1>11, <1>13, <2>1, <2>2
<1> QED BY <1>3, <1>5, <1>14 DEF r, u, n

LEMMA UpperPart ==
    ASSUME NEW dp, Normal(dp), MagnitudeOf(dp) > 0, NEW k \in 0 .. Len(dp) - 1
    PROVE  LET t == SubSeq(dp, k + 1, Len(dp))
           IN  /\ Normal(t) /\ Len(t) = Len(dp) - k /\ t \in Seq(Digit) /\ MagnitudeOf(t) \in Nat
               /\ MagnitudeOf(t) >= Weight(Len(dp) - k - 1)
               /\ MagnitudeOf(dp) = Part(dp, k) + Weight(k) * MagnitudeOf(t)
               /\ \A i \in Nat \ {0} : At(t, i) = At(dp, k + i)
<1> DEFINE n == Len(dp)
           t == SubSeq(dp, k + 1, n)
           m == n - k
<1>1. dp \in Seq(Digit) /\ n \in Nat /\ n > 0 /\ (n = 1 \/ n > 1) BY NormalIs
<1>2. k \in 0 .. n /\ k \in Nat /\ m \in Nat /\ m > 0 /\ m - 1 \in Nat /\ k + m = n /\ m \in Nat \ {0}
    BY <1>1
<1>3. /\ t \in Seq(Digit) /\ Len(t) = m /\ \A i \in Nat \ {0} : At(t, i) = At(dp, k + i)
      /\ MagnitudeOf(dp) = Part(dp, k) + Weight(k) * MagnitudeOf(t)
    BY <1>1, <1>2, SuffixIs
<1> HIDE DEF t, n, m
<1>4. Top(dp) # 0
    <2>1. CASE n > 1 BY <2>1 DEF Normal, n
    <2>2. CASE n = 1
        <3>1. MagnitudeOf(dp) = dp[1] BY <2>2, NormalIs DEF n
        <3>2. Top(dp) = dp[1] BY <2>2 DEF Top, n
        <3> QED BY <3>1, <3>2
    <2> QED BY <1>1, <2>1, <2>2
<1>5. Top(t) = Top(dp)
    <2>1. At(t, m) = At(dp, n) BY <1>2, <1>3
    <2>2. At(t, m) = Top(t) BY <1>2, <1>3 DEF At, Top
    <2>3. At(dp, n) = Top(dp)
        <3>1. n \in 1 .. n BY <1>1
        <3> QED BY <3>1 DEF At, Top, n
    <2> QED BY <2>1, <2>2, <2>3
<1>6. t # <<>> BY <1>2, <1>3
<1>7. Normal(t) BY <1>3, <1>4, <1>5, <1>6 DEF Normal
<1>8. MagnitudeOf(t) >= Weight(m - 1) BY <1>3, <1>4, <1>5, <1>6, MagnitudeAbove
<1>9. MagnitudeOf(t) \in Nat BY <1>7, NormalIs
<1> QED BY <1>3, <1>7, <1>8, <1>9 DEF t, n, m

-----------------------------------------------------------------------------
(* The loop of s_mp_div *)

DivStates == [rem : Seq(Digit), quot : Seq(Digit), over : BOOLEAN]

(* What the loop keeps: quot times the divisor and rem make up the dividend, *)
(* and quot has no digit yet where the quotient of rem has its digits.       *)
DivGood(s, v, M, L, p) ==
    /\ s \in DivStates /\ s.over = FALSE /\ Normal(s.rem) /\ Len(s.quot) = L
    /\ MagnitudeOf(s.quot) * MagnitudeOf(v) + MagnitudeOf(s.rem) = M
    /\ L \in Nat /\ p \in 0 .. L /\ \A i \in 1 .. p : At(s.quot, i) = 0
    /\ MagnitudeOf(s.rem) < MagnitudeOf(v) * Weight(p)

LEMMA TryGuessIs ==
    ASSUME NEW v, Divisor(v), NEW M, NEW L, NEW p, NEW s, DivGood(s, v, M, L, p),
           MagnitudeOf(s.rem) > 0, NEW k \in 0 .. Len(s.rem) - 1, NEW g \in Digit, NEW q,
           QuotientOf(q, MagnitudeOf(SubSeq(s.rem, k + 1, Len(s.rem))), MagnitudeOf(v)),
           q <= g, g <= q + 2
    PROVE  /\ k \in 0 .. p - 1
           /\ DivGood(TryGuess(s, v, k, SubSeq(s.rem, k + 1, Len(s.rem)), g), v, M, L, k)
<1> DEFINE rem == s.rem
           part == SubSeq(rem, k + 1, Len(rem))
           D == MagnitudeOf(v)
           E == MagnitudeOf(part)
           W == Weight(k)
           lo == Part(rem, k)
           Q == MagnitudeOf(s.quot)
           b == BackOff(g, s_mp_mul_d(v, g), v, part)
           next == SubDigits(part, b.t)
           z == SubSeq(rem, 1, k) \o next.dp
           quot == [i \in DOMAIN s.quot |-> IF i = k + 1 THEN q ELSE s.quot[i]]
           out == TryGuess(s, v, k, part, g)
<1>1. /\ s \in DivStates /\ s.over = FALSE /\ Normal(rem) /\ Len(s.quot) = L
      /\ Q * D + MagnitudeOf(rem) = M /\ L \in Nat /\ p \in 0 .. L
      /\ MagnitudeOf(rem) < D * Weight(p) /\ \A i \in 1 .. p : At(s.quot, i) = 0
    BY DEF DivGood
<1>2. /\ s.quot \in Seq(Digit) /\ rem \in Seq(Digit) /\ Q \in Nat /\ MagnitudeOf(rem) \in Nat
      /\ Len(rem) \in Nat /\ k \in Nat /\ k \in 0 .. Len(rem) /\ p \in Nat
    <2>1. s.quot \in Seq(Digit) /\ rem \in Seq(Digit) BY <1>1 DEF DivStates
    <2>2. Q \in Nat /\ MagnitudeOf(rem) \in Nat BY <2>1, MagnitudeIs
    <2> QED BY <1>1, <2>1, <2>2
<1>3. D \in Nat /\ D > 0 BY DivisorIs
<1>4. /\ Normal(part) /\ part \in Seq(Digit) /\ E \in Nat
      /\ MagnitudeOf(rem) = lo + W * E
    BY <1>1, UpperPart
<1>5. lo \in Nat /\ lo < W /\ W \in Nat /\ W > 0 BY <1>2, PartIs, WeightIs
<1>6. q \in Nat /\ q > 0 /\ q * D <= E /\ E < (q + 1) * D BY DEF QuotientOf
<1>7. b.q = q /\ q \in Digit /\ Normal(b.t) /\ MagnitudeOf(b.t) = q * D
    <2>1. QuotientOf(q, E, D) OBVIOUS
    <2> HIDE DEF part
    <2> QED BY <1>4, <2>1, BackOffIs
<1> HIDE DEF part, b
<1>8. next.borrow = 0 /\ next.dp \in Seq(Digit) /\ MagnitudeOf(next.dp) = E - q * D
      /\ Len(next.dp) = Len(part)
    BY <1>4, <1>6, <1>7, TakenOffIs
<1>9. next.dp # <<>>
    <2>1. Len(part) > 0 BY <1>4, NormalIs
    <2> QED BY <1>8, <2>1
<1> HIDE DEF next
<1>10. z \in Seq(Digit) /\ Len(z) = k + Len(next.dp) /\ MagnitudeOf(z) = lo + W * (E - q * D)
    <2>1. z = AddedAt(rem, k, next.dp) BY DEF AddedAt
    <2> HIDE DEF rem, z
    <2>2. /\ AddedAt(rem, k, next.dp) \in Seq(Digit)
          /\ Len(AddedAt(rem, k, next.dp)) = k + Len(next.dp)
          /\ MagnitudeOf(AddedAt(rem, k, next.dp)) = Part(rem, k) + Weight(k) * MagnitudeOf(next.dp)
        BY <1>2, <1>8, AddedAtIs
    <2> QED BY <1>8, <2>1, <2>2
<1>11. z # <<>>
    <2>1. Len(next.dp) \in Nat /\ Len(next.dp) > 0 BY <1>8, <1>9
    <2> QED BY <1>2, <1>10, <2>1
<1> HIDE DEF z
<1>12. Normal(s_mp_clamp(z)) /\ MagnitudeOf(s_mp_clamp(z)) = lo + W * (E - q * D)
    BY <1>10, <1>11, ClampIs
<1>13. out = [s EXCEPT !.rem = s_mp_clamp(z), !.quot = quot]
    <2>1. g # 0 BY <1>6, DigitInt
    <2>2. out = QuotientDigit(s, k, part, b) BY <2>1 DEF TryGuess, b
    <2>3. out = TakeAway(s, k, b, next) BY <2>2 DEF QuotientDigit, next
    <2>4. ~(next.borrow # 0) BY <1>8
    <2>5. out = [s EXCEPT !.rem = s_mp_clamp(SubSeq(s.rem, 1, k) \o next.dp),
                 !.quot = [i \in DOMAIN @ |-> IF i = k + 1 THEN b.q ELSE @[i]]]
        BY <2>3, <2>4 DEF TakeAway
    <2> QED BY <1>7, <2>5 DEF z
<1> HIDE DEF D, E, W, lo, Q
<1> DEFINE e == E - q * D
<1>14. e \in Nat /\ e < D
    <2>1. (q + 1) * D = q * D + D /\ q * D \in Nat BY <1>3, <1>6
    <2> DEFINE a == q * D
    <2> HIDE DEF a
    <2>2. a \in Nat /\ a <= E /\ E < a + D BY <1>6, <2>1 DEF a
    <2>3. E - a \in Nat /\ E - a < D BY <1>3, <1>4, <2>2
    <2> QED BY <2>3 DEF a
<1>15. k \in 0 .. p - 1
    <2> SUFFICES ASSUME p <= k PROVE FALSE BY <1>2
    <2>1. Weight(p) <= W /\ Weight(p) \in Nat BY <1>2, WeightMono, WeightIs DEF W
    <2>2. D * Weight(p) <= D * W BY <1>3, <1>5, <2>1, LessTimes
    <2>3. D <= E
        <3>1. 1 * D <= q * D
            <4>1. 1 <= q /\ 1 \in Nat /\ D <= D BY <1>3, <1>6
            <4> QED BY <1>3, <1>6, <4>1, LessTimes
        <3>2. 1 * D = D /\ q * D \in Nat BY <1>3, <1>6
        <3> DEFINE a == q * D
        <3> HIDE DEF a
        <3>3. D <= a /\ a <= E /\ a \in Nat BY <1>6, <3>1, <3>2 DEF a
        <3> QED BY <1>3, <1>4, <3>3
    <2>4. W * D <= W * E BY <1>3, <1>4, <1>5, <2>3, LessTimes
    <2> DEFINE a == W * E
               c == D * W
               f == D * Weight(p)
    <2>5. a \in Nat /\ c \in Nat /\ f \in Nat /\ W * D = c BY <1>3, <1>4, <1>5, <2>1
    <2> HIDE DEF a, c, f
    <2>6. MagnitudeOf(rem) = lo + a /\ MagnitudeOf(rem) < f BY <1>1, <1>4 DEF a, f
    <2>7. f <= c BY <2>2 DEF c, f
    <2>8. c <= a BY <2>4, <2>5 DEF a
    <2> QED BY <1>5, <2>5, <2>6, <2>7, <2>8
<1>16. /\ quot \in Seq(Digit) /\ Len(quot) = L /\ MagnitudeOf(quot) = Q + q * W
       /\ \A i \in 1 .. k : At(quot, i) = 0
    <2>1. k + 1 \in 1 .. p /\ k < L /\ \A i \in 1 .. k : i \in 1 .. p BY <1>1, <1>2, <1>15
    <2>2. At(s.quot, k + 1) = 0 /\ \A i \in 1 .. k : At(s.quot, i) = 0 BY <1>1, <2>1
    <2>3. /\ quot \in Seq(Digit) /\ Len(quot) = Len(s.quot)
          /\ MagnitudeOf(quot) = MagnitudeOf(s.quot) + q * Weight(k)
          /\ \A i \in 1 .. k : At(quot, i) = At(s.quot, i)
        BY <1>1, <1>2, <1>7, <2>1, <2>2, SetDigitIs
    <2> HIDE DEF quot
    <2> QED BY <1>1, <2>2, <2>3 DEF Q, W
<1> HIDE DEF quot, e
<1>17. lo + W * e < D * W /\ W * e \in Nat
    <2>1. W * (e + 1) <= W * D
        <3>1. e + 1 <= D BY <1>3, <1>14
        <3> QED BY <1>3, <1>5, <1>14, <3>1, LessTimes
    <2>2. W * (e + 1) = W * e + W /\ W * e \in Nat /\ W * D = D * W /\ D * W \in Nat
        BY <1>3, <1>5, <1>14
    <2> DEFINE a == W * e
               c == D * W
    <2> HIDE DEF a, c
    <2>3. a + W <= c /\ a \in Nat /\ c \in Nat BY <2>1, <2>2 DEF a, c
    <2>4. lo + a < c BY <1>5, <2>3
    <2> QED BY <2>2, <2>4 DEF a, c
<1>18. (Q + q * W) * D + (lo + W * e) = M
    <2>1. (Q + q * W) * D = Q * D + W * (q * D) BY <1>2, <1>3, <1>5, <1>6
    <2>2. W * e = W * E - W * (q * D) BY <1>3, <1>4, <1>5, <1>6 DEF e
    <2> DEFINE a == Q * D
               c == W * (q * D)
               f == W * E
               h == W * e
    <2>3. a \in Nat /\ c \in Nat /\ f \in Nat /\ h \in Nat
        BY <1>2, <1>3, <1>4, <1>5, <1>6, <1>14 DEF Q
    <2> HIDE DEF a, c, f, h
    <2>4. h = f - c /\ a + (lo + f) = M BY <1>1, <1>4, <2>2 DEF a, c, f, h
    <2>5. (a + c) + (lo + h) = M BY <1>5, <2>3, <2>4
    <2> QED BY <2>1, <2>5 DEF a, c, h
<1>19. out \in DivStates /\ out.over = FALSE /\ out.rem = s_mp_clamp(z) /\ out.quot = quot
    <2>1. s_mp_clamp(z) \in Seq(Digit) BY <1>12, NormalIs
    <2> DEFINE y1 == s_mp_clamp(z)
    <2> HIDE DEF y1, out
    <2>2. y1 \in Seq(Digit) /\ out = [s EXCEPT !.rem = y1, !.quot = quot] BY <1>13, <2>1 DEF y1
    <2>3. s \in [rem : Seq(Digit), quot : Seq(Digit), over : BOOLEAN] BY <1>1 DEF DivStates
    <2>4. out \in DivStates /\ out.over = s.over /\ out.rem = y1 /\ out.quot = quot
        BY <1>16, <2>2, <2>3 DEF DivStates
    <2> QED BY <1>1, <2>4 DEF y1
<1>20. MagnitudeOf(out.rem) = lo + W * e BY <1>12, <1>19 DEF e
<1>21. MagnitudeOf(out.quot) = Q + q * W BY <1>16, <1>19
<1>22. k \in 0 .. L BY <1>1, <1>2, <1>15
<1> HIDE DEF out
<1>23. DivGood(out, v, M, L, k)
    <2>1. Normal(out.rem) BY <1>12, <1>19
    <2>2. Len(out.quot) = L /\ \A i \in 1 .. k : At(out.quot, i) = 0 BY <1>16, <1>19
    <2>3. MagnitudeOf(out.quot) * MagnitudeOf(v) + MagnitudeOf(out.rem) = M
        BY <1>18, <1>20, <1>21 DEF D
    <2>4. MagnitudeOf(out.rem) < MagnitudeOf(v) * Weight(k) BY <1>17, <1>20 DEF D, W
    <2> QED BY <1>1, <1>19, <1>22, <2>1, <2>2, <2>3, <2>4 DEF DivGood
<1> QED BY <1>15, <1>23 DEF out, part

LEMMA DivStepIs ==
    ASSUME NEW v, Divisor(v), NEW M, NEW L, NEW p, NEW s, DivGood(s, v, M, L, p),
           MagnitudeOf(s.rem) >= MagnitudeOf(v)
    PROVE  \E k \in 0 .. p - 1 : DivGood(DivStep(s, v), v, M, L, k)
<1> DEFINE rem == s.rem
           n == Len(v)
           l == Len(rem)
           al == l - n
           under == SubSeq(rem, al + 1, l)
           extended == SubSeq(rem, al, l)
           D == MagnitudeOf(v)
           R == MP_RADIX
           U == MagnitudeOf(under)
           out == DivStep(s, v)
<1>1. Normal(rem) BY DEF DivGood
<1>2. /\ v \in Seq(Digit) /\ n \in Nat /\ n > 0 /\ D \in Nat /\ D > 0
      /\ Weight(n) <= 2 * D /\ D < Weight(n) /\ Normal(v)
    BY DivisorIs DEF Divisor
<1>3. rem \in Seq(Digit) /\ l \in Nat /\ l > 0 /\ MagnitudeOf(rem) \in Nat BY <1>1, NormalIs
<1>4. MagnitudeOf(rem) > 0 BY <1>2, <1>3
<1>5. n <= l
    <2> SUFFICES ASSUME n > l PROVE FALSE BY <1>2, <1>3
    <2>1. D > MagnitudeOf(rem) BY <1>1, <1>2, LongerIsLarger
    <2> QED BY <1>2, <1>3, <2>1
<1>6. al \in Nat /\ al \in 0 .. l - 1 /\ l - al = n BY <1>2, <1>3, <1>5
<1> HIDE DEF rem, l, n
<1>7. /\ Normal(under) /\ Len(under) = n /\ under \in Seq(Digit) /\ U \in Nat
      /\ MagnitudeOf(rem) = Part(rem, al) + Weight(al) * U
      /\ U >= Weight(n - 1)
    <2> HIDE DEF al
    <2>1. /\ Normal(under) /\ Len(under) = l - al /\ under \in Seq(Digit) /\ U \in Nat
          /\ MagnitudeOf(rem) = Part(rem, al) + Weight(al) * U
          /\ U >= Weight(l - al - 1)
        BY <1>1, <1>4, <1>6, UpperPart DEF l
    <2>2. l - al - 1 = n - 1 BY <1>6
    <2> QED BY <1>6, <2>1, <2>2
<1>8. U < Weight(n) /\ Weight(n) \in Nat BY <1>2, <1>7, MagnitudeIs, WeightIs
<1>9. s_mp_cmp(under, v) = Sgn(U - D) BY <1>2, <1>7, CmpIs
<1>10. out = IF s_mp_cmp(under, v) # MP_LT THEN TryGuess(s, v, al, under, 1)
             ELSE TryGuess(s, v, al - 1, extended, QuotientGuess(extended, v))
    BY DEF DivStep, rem, n, l
<1> HIDE DEF al, under, extended, out, D, U
<1>11. CASE U >= D
    <2>1. s_mp_cmp(under, v) # MP_LT
        <3>1. ~(U - D < 0) BY <1>2, <1>7, <1>11
        <3>2. Sgn(U - D) \in {0, 1} BY <3>1 DEF Sgn
        <3>3. 0 # -1 /\ 1 # -1 OBVIOUS
        <3> QED BY <1>9, <3>2, <3>3 DEF MP_LT
    <2>2. out = TryGuess(s, v, al, under, 1) BY <1>10, <2>1
    <2>3. QuotientOf(1, U, D)
        <3>1. 1 * D = D /\ (1 + 1) * D = 2 * D BY <1>2
        <3>2. U < 2 * D BY <1>2, <1>7, <1>8
        <3> QED BY <1>11, <3>1, <3>2 DEF QuotientOf
    <2>4. 1 \in Digit /\ 1 <= 1 /\ 1 <= 1 + 2 BY RadixIs
    <2>5. al \in 0 .. p - 1 /\ DivGood(TryGuess(s, v, al, under, 1), v, M, L, al)
        BY <1>4, <1>6, <2>3, <2>4, TryGuessIs DEF under, U, D, rem, l
    <2> QED BY <2>2, <2>5 DEF out
<1>12. CASE U < D
    <2> DEFINE a1 == al - 1
               E == MagnitudeOf(extended)
               q == E \div D
               g == QuotientGuess(extended, v)
    <2>1. s_mp_cmp(under, v) = MP_LT
        <3>1. U - D < 0 BY <1>2, <1>7, <1>12
        <3>2. Sgn(U - D) = -1 BY <3>1 DEF Sgn
        <3> QED BY <1>9, <3>2 DEF MP_LT
    <2>2. al # 0
        <3> SUFFICES ASSUME al = 0 PROVE FALSE OBVIOUS
        <3>1. Part(rem, al) = 0 /\ Weight(al) = 1
            <4>1. 0 \in Nat OBVIOUS
            <4> QED BY <1>3, <4>1, PartIs, WeightIs
        <3>2. MagnitudeOf(rem) = 0 + 1 * U BY <1>7, <3>1
        <3>3. MagnitudeOf(rem) = U BY <1>7, <3>2
        <3> QED BY <1>2, <1>7, <1>12, <3>3 DEF D, rem
    <2>3. a1 \in Nat /\ a1 \in 0 .. l - 1 /\ a1 + 1 = al /\ l - a1 = n + 1 /\ l - a1 - 1 = n
          /\ a1 <= al
        BY <1>3, <1>6, <2>2
    <2> HIDE DEF a1
    <2>4. extended = SubSeq(rem, a1 + 1, l) BY <2>3 DEF extended
    <2>5. /\ Normal(extended) /\ Len(extended) = n + 1 /\ extended \in Seq(Digit) /\ E \in Nat
          /\ E >= Weight(n) /\ \A i \in Nat \ {0} : At(extended, i) = At(rem, a1 + i)
        <3> DEFINE t == SubSeq(rem, a1 + 1, l)
        <3>1. /\ Normal(t) /\ Len(t) = l - a1 /\ t \in Seq(Digit) /\ MagnitudeOf(t) \in Nat
              /\ MagnitudeOf(t) >= Weight(l - a1 - 1)
              /\ \A i \in Nat \ {0} : At(t, i) = At(rem, a1 + i)
            BY <1>1, <1>4, <2>3, UpperPart DEF l
        <3>2. extended = t BY <2>4
        <3> HIDE DEF t
        <3> QED BY <2>3, <3>1, <3>2
    <2>6. E = At(rem, al) + R * U
        <3>1. SubSeq(extended, 1 + 1, Len(extended)) \in Seq(Digit)
              /\ MagnitudeOf(extended) = Part(extended, 1)
                   + Weight(1) * MagnitudeOf(SubSeq(extended, 1 + 1, Len(extended)))
              /\ \A i \in Nat \ {0} : At(SubSeq(extended, 1 + 1, Len(extended)), i) = At(extended, 1 + i)
            <4>1. 1 \in 0 .. Len(extended) BY <1>2, <2>5
            <4> QED BY <2>5, <4>1, SuffixIs
        <3> DEFINE t == SubSeq(extended, 1 + 1, Len(extended))
        <3>2. \A i \in Nat \ {0} : At(t, i) = At(under, i)
            <4> SUFFICES ASSUME NEW i \in Nat \ {0} PROVE At(t, i) = At(under, i) OBVIOUS
            <4>1. At(t, i) = At(extended, 1 + i) BY <3>1
            <4>2. 1 + i \in Nat \ {0} /\ a1 + (1 + i) = al + i BY <2>3
            <4>3. At(extended, 1 + i) = At(rem, al + i) BY <2>5, <4>2
            <4>4. At(under, i) = At(rem, al + i) BY <1>1, <1>4, <1>6, UpperPart DEF under, l
            <4> QED BY <4>1, <4>3, <4>4
        <3>3. MagnitudeOf(t) = U BY <1>7, <3>1, <3>2, SameMagnitude DEF U
        <3>4. Weight(1) = R
            <4>1. Weight(0 + 1) = MP_RADIX * Weight(0) /\ Weight(0) = 1 BY WeightIs
            <4>2. 0 + 1 = 1 /\ MP_RADIX * 1 = MP_RADIX BY RadixIs
            <4> QED BY <4>1, <4>2
        <3>5. Part(extended, 1) = At(rem, al)
            <4>1. Part(extended, 0 + 1) = Part(extended, 0) + At(extended, 0 + 1) * Weight(0)
                  /\ Part(extended, 0) = 0
                BY <2>5, PartIs
            <4>2. Weight(0) = 1 BY WeightIs
            <4>3. 1 \in Nat \ {0} OBVIOUS
            <4>4. At(extended, 1) = At(rem, al) BY <2>3, <2>5, <4>3
            <4>5. At(rem, al) \in Int
                <5>1. al \in Int BY <1>6
                <5>2. At(rem, al) \in Digit BY <1>3, <5>1, AtIs
                <5> QED BY <5>2, DigitInt
            <4>6. Part(extended, 1) = 0 + At(rem, al) * 1 BY <4>1, <4>2, <4>4
            <4> QED BY <4>5, <4>6
        <3> HIDE DEF t
        <3> QED BY <3>1, <3>3, <3>4, <3>5 DEF t
    <2>7. E < R * D
        <3>1. At(rem, al) \in Nat /\ At(rem, al) < R
            <4>1. al \in Int BY <1>6
            <4>2. At(rem, al) \in Digit BY <1>3, <4>1, AtIs
            <4> QED BY <4>2, DigitInt
        <3>2. R \in Nat BY RadixIs
        <3>3. R * (U + 1) <= R * D
            <4>1. U + 1 <= D /\ U + 1 \in Nat BY <1>2, <1>7, <1>12
            <4> QED BY <1>2, <3>2, <4>1, LessTimes
        <3>4. R * (U + 1) = R * U + R /\ R * U \in Nat /\ R * D \in Nat BY <1>2, <1>7, <3>2
        <3> DEFINE a == R * U
                   c == R * D
                   e == At(rem, al)
        <3> HIDE DEF a, c, e, E, R
        <3>5. a \in Nat /\ c \in Nat /\ a + R <= c /\ E = e + a /\ e \in Nat /\ e < R
            BY <2>6, <3>1, <3>3, <3>4 DEF a, c, e
        <3>6. E < c BY <3>2, <3>5
        <3> QED BY <3>6 DEF c
    <2>8. q \in Nat /\ g \in Digit /\ q <= g /\ g <= q + 2
        <3> HIDE DEF extended
        <3> QED BY <2>5, <2>7, QuotientGuessIs DEF n, D
    <2>9. QuotientOf(q, E, D)
        <3> DEFINE r == E % D
        <3>1. r \in Nat /\ r < D /\ E = q * D + r BY <1>2, <2>5, DivisionIs
        <3> HIDE DEF q, r, E
        <3>2. (q + 1) * D = q * D + D /\ q * D \in Nat BY <1>2, <2>8
        <3> DEFINE a == q * D
        <3> HIDE DEF a
        <3>3. a \in Nat /\ E = a + r /\ (q + 1) * D = a + D BY <3>1, <3>2 DEF a
        <3>4. a <= E /\ E < (q + 1) * D BY <1>2, <3>1, <3>3
        <3>5. q # 0
            <4> SUFFICES ASSUME q = 0 PROVE FALSE OBVIOUS
            <4>1. E < D
                <5>1. (0 + 1) * D = D BY <1>2
                <5> QED BY <3>4, <5>1
            <4> QED BY <1>2, <1>8, <2>5, <4>1
        <3> QED BY <2>8, <3>4, <3>5 DEF QuotientOf, a
    <2> HIDE DEF q, g, E
    <2>10. a1 \in 0 .. p - 1 /\ DivGood(TryGuess(s, v, a1, extended, g), v, M, L, a1)
        <3> DEFINE t == SubSeq(s.rem, a1 + 1, Len(s.rem))
        <3>1. extended = t BY <2>4 DEF l, rem
        <3>2. QuotientOf(q, MagnitudeOf(t), MagnitudeOf(v)) BY <2>9, <3>1 DEF E, D
        <3>3. MagnitudeOf(s.rem) > 0 /\ a1 \in 0 .. Len(s.rem) - 1 BY <1>4, <2>3 DEF rem, l
        <3>4. a1 \in 0 .. p - 1 /\ DivGood(TryGuess(s, v, a1, t, g), v, M, L, a1)
            BY <2>8, <3>2, <3>3, TryGuessIs
        <3> QED BY <3>1, <3>4
    <2>11. out = TryGuess(s, v, a1, extended, g) BY <1>10, <2>1 DEF a1, g
    <2> QED BY <2>10, <2>11 DEF out
<1> QED BY <1>2, <1>7, <1>11, <1>12

(* Every round is about a lower digit of the quotient, so the loop has ended *)
(* after as many rounds as the dividend has digits.                          *)
LEMMA DivLoopIs ==
    ASSUME NEW v, Divisor(v), NEW M, NEW L, NEW s, DivGood(s, v, M, L, L), L <= Len(s.rem)
    PROVE  LET t == DivLoop(s, v)
           IN  /\ Normal(t.rem) /\ t.quot \in Seq(Digit) /\ Len(t.quot) = L
               /\ MagnitudeOf(t.quot) * MagnitudeOf(v) + MagnitudeOf(t.rem) = M
               /\ MagnitudeOf(t.rem) < MagnitudeOf(v)
<1> DEFINE N == Len(s.rem)
           D == MagnitudeOf(v)
           first == s
           Step(w, i) == IF w.over \/ ~(Len(w.rem) > Len(v) \/ s_mp_cmp(w.rem, v) >= 0)
                         THEN w ELSE DivStep(w, v)
           Body(f) == [i \in 0 .. N |-> IF i = 0 THEN first ELSE Step(f[i - 1], i)]
           c == CHOOSE f : f = Body(f)
           V == DivStates
           Good(w, j) == \E p \in 0 .. L : DivGood(w, v, M, L, p)
                                            /\ (p + j <= L \/ MagnitudeOf(w.rem) < D)
           I == [j \in Nat |-> {w \in V : Good(w, j)}]
           g == [w \in V \X Nat |-> Step(w[1], w[2])]
<1>n. N \in Nat
    <2>1. Normal(s.rem) BY DEF DivGood
    <2> QED BY <2>1, NormalIs
<1>0. DivLoop(s, v) = c[N] BY DEF DivLoop
<1>1. Normal(v) /\ D \in Nat /\ D > 0 BY DivisorIs DEF Divisor
<1>2. L \in Nat /\ L <= N BY DEF DivGood
<1>3. \A j \in Nat : \A w : w \in I[j] <=> w \in V /\ Good(w, j) OBVIOUS
<1>4. \A w, p : DivGood(w, v, M, L, p) => w \in V BY DEF DivGood
<1> HIDE DEF N, D
<1>L3. \A i \in 0 .. N : I[i] \subseteq V
    <2> SUFFICES ASSUME NEW i \in 0 .. N PROVE I[i] \subseteq V OBVIOUS
    <2>1. i \in Nat BY <1>n
    <2> QED BY <2>1
<1>L1. first \in I[0]
    <2>1. L \in 0 .. L /\ L + 0 <= L BY <1>2
    <2>2. Good(s, 0) BY <2>1
    <2> HIDE DEF Good, I, V
    <2> QED BY <1>3, <1>4, <2>2
<1>L2. ASSUME NEW j \in 0 .. N - 1, NEW w \in I[j] PROVE Step(w, j + 1) \in I[j + 1]
    <2>1. j \in Nat /\ j + 1 \in Nat BY <1>n
    <2>2. w \in V /\ Good(w, j)
        <3> HIDE DEF Good, I, V
        <3> QED BY <1>3, <2>1
    <2>3. PICK p \in 0 .. L : DivGood(w, v, M, L, p) /\ (p + j <= L \/ MagnitudeOf(w.rem) < D)
        BY <2>2
    <2>4. w.over = FALSE /\ Normal(w.rem) BY <2>3 DEF DivGood
    <2>5. MagnitudeOf(w.rem) \in Nat /\ Len(w.rem) \in Nat /\ Len(v) \in Nat BY <1>1, <2>4, NormalIs
    <2>6. s_mp_cmp(w.rem, v) = Sgn(MagnitudeOf(w.rem) - D) BY <1>1, <2>4, CmpIs DEF D
    <2> DEFINE m == MagnitudeOf(w.rem)
               go == Len(w.rem) > Len(v) \/ s_mp_cmp(w.rem, v) >= 0
    <2> HIDE DEF m
    <2>7. go <=> m >= D
        <3>1. Len(w.rem) > Len(v) => m > D BY <1>1, <2>4, LongerIsLarger DEF m, D
        <3>2. s_mp_cmp(w.rem, v) = Sgn(m - D) /\ m \in Nat BY <2>5, <2>6 DEF m
        <3>3. ASSUME m >= D PROVE Sgn(m - D) >= 0
            <4>1. ~(m - D < 0) BY <1>1, <3>2, <3>3
            <4>2. Sgn(m - D) \in {0, 1} BY <4>1 DEF Sgn
            <4> QED BY <4>2
        <3>4. ASSUME m < D PROVE ~(Sgn(m - D) >= 0)
            <4>1. m - D < 0 BY <1>1, <3>2, <3>4
            <4>2. Sgn(m - D) = -1 BY <4>1 DEF Sgn
            <4> QED BY <4>2
        <3>5. m >= D \/ m < D BY <1>1, <3>2
        <3>6. ~(m >= D /\ m < D) BY <1>1, <3>2
        <3>7. m > D => m >= D BY <1>1, <3>2
        <3> HIDE DEF m
        <3> QED BY <3>1, <3>2, <3>3, <3>4, <3>5, <3>6, <3>7
    <2> DEFINE u == Step(w, j + 1)
    <2>8. u = IF go THEN DivStep(w, v) ELSE w BY <2>4
    <2> HIDE DEF u, go, Step
    <2>9. Good(u, j + 1)
        <3>1. CASE m >= D
            <4>1. PICK k \in 0 .. p - 1 : DivGood(DivStep(w, v), v, M, L, k)
                BY <2>3, <3>1, DivStepIs DEF m, D
            <4>2. u = DivStep(w, v) BY <2>7, <2>8, <3>1
            <4>3. p + j <= L
                <5>1. ~(m < D)
                    <6>1. m \in Nat BY <2>5 DEF m
                    <6> QED BY <1>1, <3>1, <6>1
                <5> QED BY <2>3, <5>1 DEF m
            <4>4. k \in 0 .. L /\ k + (j + 1) <= L BY <1>2, <2>1, <4>3
            <4> HIDE DEF D
            <4> QED BY <4>1, <4>2, <4>4
        <3>2. CASE ~(m >= D)
            <4>1. u = w BY <2>7, <2>8, <3>2
            <4>2. m < D
                <5>1. m \in Nat BY <2>5 DEF m
                <5> QED BY <1>1, <3>2, <5>1
            <4> HIDE DEF D
            <4> QED BY <2>3, <4>1, <4>2 DEF m
        <3> QED BY <3>1, <3>2
    <2>10. u \in V
        <3> HIDE DEF V
        <3> QED BY <1>4, <2>9
    <2> HIDE DEF Good, I, V
    <2>11. u \in I[j + 1] BY <1>3, <2>1, <2>9, <2>10
    <2> QED BY <2>11 DEF u
<1>L4. \A w \in V, i \in Nat : g[<<w, i>>] = Step(w, i)
    <2> HIDE DEF Step, V, I
    <2> QED OBVIOUS
<1>L5. PICK h \in [0 .. N -> V] :
         \A i \in 0 .. N : h[i] \in I[i] /\ h[i] = IF i = 0 THEN first ELSE g[<<h[i - 1], i>>]
    <2> HIDE DEF g, I, first, V, Step
    <2>1. ASSUME NEW i \in 0 .. N - 1, NEW w \in I[i] PROVE g[<<w, i + 1>>] \in I[i + 1]
        <3>1. i \in 0 .. N /\ i + 1 \in Nat BY <1>n
        <3>2. w \in V BY <1>L3, <3>1
        <3> QED BY <1>L2, <1>L4, <3>1, <3>2
    <2>2. StaysIn(I, V, first, g, N) BY <1>L1, <1>L3, <2>1 DEF StaysIn
    <2>3. \E q \in [0 .. N -> V] : RecursesUpto(q, first, g, N) /\ \A i \in 0 .. N : q[i] \in I[i]
        BY <1>n, <2>2, UptoStates
    <2> QED BY <2>3 DEF RecursesUpto
<1>L6. ASSUME NEW i \in 0 .. N PROVE h[i] = IF i = 0 THEN first ELSE Step(h[i - 1], i)
    <2> HIDE DEF g, I, first, V, Step
    <2>1. CASE i = 0 BY <1>L5, <2>1
    <2>2. CASE i # 0
        <3>1. i - 1 \in 0 .. N /\ i \in Nat BY <1>n, <2>2
        <3>2. h[i - 1] \in V BY <1>L5, <3>1
        <3> QED BY <1>L4, <1>L5, <2>2, <3>1, <3>2
    <2> QED BY <2>1, <2>2
<1> HIDE DEF g
<1>L7. h = Body(h)
    <2> DEFINE t == Body(h)
    <2>1. \A i \in 0 .. N : t[i] = IF i = 0 THEN first ELSE Step(h[i - 1], i) OBVIOUS
    <2>2. t = [i \in 0 .. N |-> t[i]] /\ h = [i \in 0 .. N |-> h[i]] OBVIOUS
    <2> HIDE DEF t, Step, first, I, V
    <2>3. \A i \in 0 .. N : h[i] = t[i] BY <1>L6, <2>1
    <2>4. h = t BY <2>2, <2>3
    <2> QED BY <2>4 DEF t, Step, first
<1>L8. c = Body(c) BY <1>L7
<1> HIDE DEF c
<1>L9. \A i \in 0 .. N : c[i] = IF i = 0 THEN first ELSE Step(c[i - 1], i)
    <2> DEFINE t == Body(c)
    <2>1. \A i \in 0 .. N : t[i] = IF i = 0 THEN first ELSE Step(c[i - 1], i) OBVIOUS
    <2>2. c = t BY <1>L8
    <2> HIDE DEF t, Step, first
    <2> QED BY <2>1, <2>2
<1> HIDE DEF Body, I, V, first, Step
<1>La. \A i \in 0 .. N : c[i] \in I[i]
    <2> DEFINE P == {i \in Nat : c[i] \in I[i]}
    <2>1. 0 \in P
        <3>1. 0 \in 0 .. N BY <1>n
        <3> QED BY <1>L1, <1>L9, <3>1
    <2>2. ASSUME NEW i \in 0 .. N - 1, i \in P PROVE i + 1 \in P
        <3>1. i + 1 \in 0 .. N /\ i + 1 \in Nat /\ i + 1 # 0 /\ (i + 1) - 1 = i BY <1>n
        <3>2. c[i] \in I[i] BY <2>2
        <3>3. c[i + 1] = Step(c[i], i + 1) BY <1>L9, <3>1
        <3>4. Step(c[i], i + 1) \in I[i + 1] BY <1>L2, <3>2
        <3> QED BY <3>1, <3>3, <3>4
    <2> HIDE DEF P
    <2>3. \A i \in 0 .. N : i \in P BY <1>n, <2>1, <2>2, UptoInduct
    <2> QED BY <2>3 DEF P

<1>5. c[N] \in I[N]
    <2>1. N \in 0 .. N BY <1>n
    <2> QED BY <1>La, <2>1
<1>6. Good(c[N], N)
    <2> HIDE DEF Good
    <2> QED BY <1>n, <1>3, <1>5
<1>7. PICK p \in 0 .. L : DivGood(c[N], v, M, L, p) /\ (p + N <= L \/ MagnitudeOf(c[N].rem) < D)
    BY <1>6
<1>8. MagnitudeOf(c[N].rem) < D
    <2>1. ASSUME p + N <= L PROVE MagnitudeOf(c[N].rem) < D
        <3>1. p = 0 BY <1>n, <1>2, <2>1
        <3>2. MagnitudeOf(c[N].rem) < D * Weight(0) BY <1>7, <3>1 DEF DivGood, D
        <3>3. Weight(0) = 1
            <4>1. 0 \in Nat OBVIOUS
            <4> QED BY <4>1, WeightIs
        <3>4. D * 1 = D BY <1>1
        <3> QED BY <3>2, <3>3, <3>4
    <2> QED BY <1>7, <2>1
<1>9. /\ Normal(c[N].rem) /\ c[N].quot \in Seq(Digit) /\ Len(c[N].quot) = L
      /\ MagnitudeOf(c[N].quot) * MagnitudeOf(v) + MagnitudeOf(c[N].rem) = M
    <2>1. DivGood(c[N], v, M, L, p) BY <1>7
    <2>2. c[N] \in DivStates BY <2>1 DEF DivGood
    <2>3. c[N].quot \in Seq(Digit) BY <2>2 DEF DivStates
    <2> QED BY <2>1, <2>3 DEF DivGood
<1> QED BY <1>0, <1>8, <1>9 DEF D

\* s_mp_norm brings the highest bit of a divisor to the top of its digit.
LEMMA NormalisedIs ==
    ASSUME NEW b, Normal(b), MagnitudeOf(b) > 0
    PROVE  LET d == s_mp_norm(Top(b))
               v == s_mp_mul_2d(b, d)
           IN  d \in Nat /\ Divisor(v) /\ MagnitudeOf(v) = MagnitudeOf(b) * 2 ^ d
<1> DEFINE n == Len(b)
           m == n - 1
           t == Top(b)
           d == s_mp_norm(t)
           h == 2 ^ d
           g == 2 ^ (MP_DIGIT_BIT - d)
           v == s_mp_mul_2d(b, d)
           B == MagnitudeOf(b)
           D == MagnitudeOf(v)
           W == Weight(m)
           p == Part(b, m)
           l == Len(v)
           R == MP_RADIX
<1>1. b \in Seq(Digit) /\ b # <<>> /\ n \in Nat /\ n > 0 /\ B \in Nat /\ m \in Nat /\ n = m + 1
      /\ (n = 1 \/ n > 1)
    <2>1. b \in Seq(Digit) /\ n \in Nat /\ n > 0 /\ B \in Nat /\ (n = 1 \/ n > 1) BY NormalIs
    <2>2. b # <<>> BY DEF Normal
    <2> QED BY <2>1, <2>2
<1>2. t # 0
    <2>1. CASE n > 1 BY <2>1 DEF Normal
    <2>2. CASE n = 1
        <3>1. B = b[1] BY <2>2, NormalIs
        <3>2. t = b[1] BY <2>2 DEF Top
        <3> QED BY <3>1, <3>2
    <2> QED BY <1>1, <2>1, <2>2
<1>3. At(b, n) = t /\ t \in Digit
    <2>1. n \in 1 .. n /\ n \in Int BY <1>1
    <2>2. At(b, n) \in Digit BY <1>1, <2>1, AtIs
    <2> QED BY <2>1, <2>2 DEF At, Top
<1>4. d \in 0 .. MP_DIGIT_BIT - 1 /\ t * h \in Digit /\ t * h >= R \div 2 BY <1>2, <1>3, NormIs
<1>5. d \in Nat /\ d \in 0 .. MP_DIGIT_BIT
    <2>1. MP_DIGIT_BIT \in Nat BY RadixIs
    <2> QED BY <1>4, <2>1
<1>6. h \in Nat /\ h > 0 /\ g \in Nat /\ g > 0 /\ h * g = R BY <1>5, BitsOf
<1>7. Normal(v) /\ D = B * h BY <1>1, <1>5, Mul2dIs
<1>8. v \in Seq(Digit) /\ v # <<>> /\ l \in Nat /\ l > 0 /\ D \in Nat /\ (l = 1 \/ l > 1)
    BY <1>7, NormalIs DEF Normal
<1>9. B = p + t * W /\ p \in Nat /\ p < W /\ W \in Nat /\ W > 0 /\ Weight(n) = R * W
    <2>1. B = Part(b, n)
        <3>1. n >= Len(b) BY <1>1
        <3> QED BY <1>1, <3>1, MagnitudeIs
    <2>2. Part(b, m + 1) = Part(b, m) + At(b, m + 1) * Weight(m) /\ p \in Nat /\ p < W
        BY <1>1, PartIs
    <2>3. W \in Nat /\ W > 0 /\ Weight(m + 1) = R * W BY <1>1, WeightIs
    <2> QED BY <1>1, <1>3, <2>1, <2>2, <2>3
<1>10. t \in Nat /\ t < R /\ R \in Nat /\ R >= 4 BY <1>3, DigitInt, RadixIs
<1> HIDE DEF n, m, t, d, g, v, B, D, W, p, l, R
<1> HIDE DEF h
<1>11. (t + 1) * h <= R
    <2>1. t < g
        <3> SUFFICES ASSUME g <= t PROVE FALSE BY <1>6, <1>10
        <3>1. g * h <= t * h BY <1>6, <1>10, LessTimes
        <3>2. g * h = R BY <1>6
        <3>3. t * h < R BY <1>4, DigitInt DEF R
        <3>4. t * h \in Nat BY <1>6, <1>10
        <3> QED BY <1>10, <3>1, <3>2, <3>3, <3>4
    <2>2. t + 1 <= g /\ t + 1 \in Nat BY <1>6, <1>10, <2>1
    <2>3. (t + 1) * h <= g * h BY <1>6, <2>2, LessTimes
    <2>4. g * h = R BY <1>6
    <2> QED BY <2>3, <2>4
<1>12. D < R * W
    <2>1. B < (t + 1) * W /\ (t + 1) * W \in Nat
        <3>1. (t + 1) * W = t * W + W /\ t * W \in Nat BY <1>9, <1>10
        <3> DEFINE a == t * W
        <3> HIDE DEF a
        <3>2. B = p + a /\ a \in Nat /\ (t + 1) * W = a + W BY <1>9, <3>1 DEF a
        <3> QED BY <1>9, <3>2
    <2>2. (B + 1) * h <= ((t + 1) * W) * h
        <3> DEFINE a == (t + 1) * W
        <3> HIDE DEF a
        <3>1. B + 1 <= a /\ a \in Nat /\ B + 1 \in Nat BY <1>1, <2>1 DEF a
        <3>2. (B + 1) * h <= a * h BY <1>6, <3>1, LessTimes
        <3> QED BY <3>2 DEF a
    <2>3. (B + 1) * h = B * h + h /\ B * h \in Nat BY <1>1, <1>6
    <2>4. ((t + 1) * W) * h = ((t + 1) * h) * W BY <1>6, <1>9, <1>10
    <2>5. ((t + 1) * h) * W <= R * W
        <3>1. (t + 1) * h \in Nat BY <1>6, <1>10
        <3> QED BY <1>9, <1>10, <1>11, <3>1, LessTimes
    <2> DEFINE a == B * h
               c == ((t + 1) * h) * W
               f == R * W
    <2>6. a \in Nat /\ c \in Nat /\ f \in Nat BY <1>6, <1>9, <1>10, <2>3
    <2>7. a + h <= c BY <2>2, <2>3, <2>4
    <2> HIDE DEF a, c, f
    <2>8. c <= f BY <2>5 DEF c, f
    <2>9. a < f BY <1>6, <2>6, <2>7, <2>8
    <2> QED BY <1>7, <2>9 DEF a, f
<1> DEFINE k == R \div 2
<1>13. k \in Nat /\ k > 0
    <2>1. R \div 2 \in Nat /\ R \div 2 > 0 BY <1>10
    <2> QED BY <2>1
<1>k. k <= t * h BY <1>4 DEF R
<1> HIDE DEF k
<1>14. k * W <= D
    <2>1. t * h \in Nat BY <1>6, <1>10
    <2>2. k * W <= (t * h) * W BY <1>9, <1>13, <1>k, <2>1, LessTimes
    <2>3. (t * h) * W = (t * W) * h /\ (p + t * W) * h = p * h + (t * W) * h
        BY <1>6, <1>9, <1>10
    <2> DEFINE a == k * W
               c == (t * W) * h
               e == p * h
    <2>4. a \in Nat /\ c \in Nat /\ e \in Nat BY <1>6, <1>9, <1>10, <1>13
    <2> HIDE DEF a, c, e
    <2>5. a <= c BY <2>2, <2>3 DEF a, c
    <2>6. D = e + c BY <1>7, <1>9, <2>3 DEF e, c
    <2>7. a <= D BY <2>4, <2>5, <2>6
    <2> QED BY <2>7 DEF a
<1>15. l = n
    <2>1. D < Weight(l) /\ Weight(l) \in Nat BY <1>8, MagnitudeIs, WeightIs DEF l, D
    <2>2. ASSUME l <= m PROVE FALSE
        <3>1. Weight(l) <= W BY <1>1, <1>8, <2>2, WeightMono DEF W
        <3>2. 1 * W <= k * W
            <4>1. 1 <= k /\ 1 \in Nat BY <1>13
            <4> QED BY <1>9, <1>13, <4>1, LessTimes
        <3>3. 1 * W = W /\ k * W \in Nat BY <1>9, <1>13
        <3> DEFINE a == k * W
        <3> HIDE DEF a
        <3>4. W <= a /\ a <= D /\ a \in Nat BY <1>14, <3>2, <3>3 DEF a
        <3> QED BY <1>8, <1>9, <2>1, <3>1, <3>4
    <2>3. ASSUME l > n PROVE FALSE
        <3>1. l > 1 /\ l - 1 \in Nat /\ n <= l - 1 BY <1>1, <1>8, <2>3
        <3>2. Top(v) # 0 BY <1>7, <3>1 DEF Normal, l
        <3>3. D >= Weight(l - 1) BY <1>8, <3>2, MagnitudeAbove DEF l, D
        <3>4. Weight(n) <= Weight(l - 1) BY <1>1, <3>1, WeightMono
        <3>5. Weight(n) \in Nat /\ Weight(l - 1) \in Nat BY <1>1, <3>1, WeightIs
        <3>6. D < Weight(n) BY <1>9, <1>12
        <3> QED BY <1>8, <3>3, <3>4, <3>5, <3>6
    <2> QED BY <1>1, <1>8, <2>2, <2>3
<1> DEFINE w == Top(v)
           s == Part(v, m)
<1>16. At(v, n) = w /\ w \in Digit
    <2>1. n \in 1 .. l /\ n \in Int BY <1>1, <1>15
    <2>2. At(v, n) \in Digit BY <1>8, <2>1, AtIs
    <2>3. At(v, n) = w BY <1>15, <2>1 DEF At, Top, l
    <2> QED BY <2>2, <2>3
<1>17. D = s + w * W /\ s \in Nat /\ s < W
    <2>1. D = Part(v, n)
        <3>1. n >= Len(v) BY <1>1, <1>15 DEF l
        <3> QED BY <1>1, <1>8, <3>1, MagnitudeIs DEF D
    <2>2. Part(v, m + 1) = Part(v, m) + At(v, m + 1) * Weight(m) /\ s \in Nat /\ s < W
        BY <1>1, <1>8, PartIs DEF W
    <2> QED BY <1>1, <1>16, <2>1, <2>2 DEF W
<1> HIDE DEF w, s
<1>18. w \in Nat BY <1>16, DigitInt
<1>19. w >= k
    <2> SUFFICES ASSUME w + 1 <= k PROVE FALSE BY <1>13, <1>18
    <2>1. (w + 1) * W <= k * W BY <1>9, <1>13, <1>18, LessTimes
    <2>2. (w + 1) * W = w * W + W /\ w * W \in Nat /\ k * W \in Nat BY <1>9, <1>13, <1>18
    <2> DEFINE a == w * W
               c == k * W
    <2> HIDE DEF a, c
    <2>3. a + W <= c /\ c <= D /\ D = s + a /\ a \in Nat /\ c \in Nat
        BY <1>14, <1>17, <2>1, <2>2 DEF a, c
    <2> QED BY <1>9, <1>17, <2>3
<1>20. Divisor(v) BY <1>7, <1>19 DEF Divisor, w, k, R
<1> QED BY <1>5, <1>7, <1>20 DEF d, t, v, D, B, h

LEMMA DivIs ==
    ASSUME NEW a, Normal(a), NEW b, Normal(b), MagnitudeOf(b) > 0
    PROVE  /\ Normal(s_mp_div(a, b).quot) /\ Normal(s_mp_div(a, b).rem)
           /\ MagnitudeOf(s_mp_div(a, b).quot) = MagnitudeOf(a) \div MagnitudeOf(b)
           /\ MagnitudeOf(s_mp_div(a, b).rem) = (MagnitudeOf(a) % MagnitudeOf(b))
<1> DEFINE A == MagnitudeOf(a)
           B == MagnitudeOf(b)
           L == Len(a)
           pow == s_mp_ispow2(b)
           d == s_mp_norm(Top(b))
           h == 2 ^ d
           v == s_mp_mul_2d(b, d)
           rem == s_mp_mul_2d(a, d)
           first == [rem |-> rem, quot |-> Zeros(L), over |-> FALSE]
           t == DivLoop(first, v)
<1>0. s_mp_div(a, b) =
        IF pow >= 0 THEN [quot |-> s_mp_div_2d(Unsigned(a), pow).dp, rem |-> s_mp_mod_2d(a, pow)]
        ELSE Denormalised(t, d)
    BY DEF s_mp_div
<1>1. A \in Nat /\ B \in Nat /\ B > 0 /\ L \in Nat /\ L > 0 /\ a \in Seq(Digit) /\ a # <<>>
    <2>1. A \in Nat /\ B \in Nat /\ L \in Nat /\ L > 0 /\ a \in Seq(Digit) BY NormalIs
    <2>2. a # <<>> BY DEF Normal
    <2> QED BY <2>1, <2>2
<1>2. ASSUME NEW dp, Normal(dp)
      PROVE  Unsigned(dp) \in Signed /\ Unsigned(dp).dp = dp
    BY <1>2, SignedOf DEF Unsigned, ZPOS
<1>3. CASE pow >= 0
    <2>1. pow \in Nat /\ B = 2 ^ pow BY <1>3, Ispow2Is
    <2> HIDE DEF pow
    <2>2. Unsigned(a) \in Signed /\ Unsigned(a).dp = a BY <1>2
    <2> DEFINE z == s_mp_div_2d(Unsigned(a), pow)
    <2>3. z \in Signed /\ MagnitudeOf(z.dp) = MagnitudeOf(a) \div 2 ^ pow BY <2>1, <2>2, Div2dIs
    <2>4. Normal(z.dp) BY <2>3, SignedIs
    <2>5. Normal(s_mp_mod_2d(a, pow)) /\ MagnitudeOf(s_mp_mod_2d(a, pow)) = (A % 2 ^ pow)
        BY <2>1, Mod2dIs
    <2>6. s_mp_div(a, b) = [quot |-> z.dp, rem |-> s_mp_mod_2d(a, pow)] BY <1>0, <1>3
    <2> HIDE DEF z
    <2> QED BY <2>1, <2>3, <2>4, <2>5, <2>6
<1>4. CASE ~(pow >= 0)
    <2>1. d \in Nat /\ Divisor(v) /\ MagnitudeOf(v) = B * h BY NormalisedIs
    <2>2. h \in Nat /\ h > 0 BY <2>1, PowerPositive
    <2> HIDE DEF d
    <2>3. Normal(rem) /\ MagnitudeOf(rem) = A * h BY <1>1, <2>1, Mul2dIs
    <2> HIDE DEF rem, v, h
    <2>4. rem \in Seq(Digit) /\ Len(rem) \in Nat /\ MagnitudeOf(rem) \in Nat BY <2>3, NormalIs
    <2>5. L <= Len(rem)
        <3> SUFFICES ASSUME L > Len(rem) PROVE FALSE BY <1>1, <2>4
        <3>1. A > MagnitudeOf(rem) BY <2>3, LongerIsLarger
        <3>2. A * 1 <= A * h
            <4>1. 1 \in Nat /\ 1 <= h BY <2>2
            <4> QED BY <1>1, <2>2, <4>1, LessTimes
        <3>3. A * 1 = A BY <1>1
        <3> QED BY <1>1, <2>3, <2>4, <3>1, <3>2, <3>3
    <2>6. Zeros(L) \in Seq(Digit) /\ Len(Zeros(L)) = L /\ MagnitudeOf(Zeros(L)) = 0
          /\ \A i \in 1 .. L : At(Zeros(L), i) = 0
        <3>1. Zeros(L) \in Seq(Digit) /\ Len(Zeros(L)) = L /\ MagnitudeOf(Zeros(L)) = 0
              /\ \A i \in 1 .. L : Zeros(L)[i] = 0
            BY <1>1, ZerosAre
        <3> QED BY <3>1 DEF At
    <2>7. A * h < (B * h) * Weight(L)
        <3>1. A < Weight(L) /\ Weight(L) \in Nat BY <1>1, MagnitudeIs, WeightIs
        <3>2. (A + 1) * h <= Weight(L) * h
            <4>1. A + 1 <= Weight(L) /\ A + 1 \in Nat BY <1>1, <3>1
            <4> QED BY <2>2, <3>1, <4>1, LessTimes
        <3>3. (A + 1) * h = A * h + h /\ A * h \in Nat /\ Weight(L) * h \in Nat BY <1>1, <2>2, <3>1
        <3>4. 1 * (Weight(L) * h) <= B * (Weight(L) * h)
            <4>1. 1 \in Nat /\ 1 <= B BY <1>1
            <4> QED BY <1>1, <3>3, <4>1, LessTimes
        <3>5. 1 * (Weight(L) * h) = Weight(L) * h BY <3>3
        <3>6. B * (Weight(L) * h) = (B * h) * Weight(L) /\ B * (Weight(L) * h) \in Nat
            BY <1>1, <2>2, <3>1
        <3> DEFINE u == A * h
                   w == Weight(L) * h
                   z == (B * h) * Weight(L)
        <3>7. u + h <= w BY <3>2, <3>3
        <3>8. w <= z BY <3>4, <3>5, <3>6
        <3>9. u \in Nat /\ w \in Nat /\ z \in Nat BY <3>3, <3>6
        <3> HIDE DEF u, w, z
        <3>10. u < z BY <2>2, <3>7, <3>8, <3>9
        <3> QED BY <3>10 DEF u, z
    <2>8. DivGood(first, v, A * h, L, L)
        <3>1. first \in DivStates /\ first.over = FALSE /\ first.rem = rem /\ first.quot = Zeros(L)
            BY <2>4, <2>6 DEF DivStates
        <3>2. L \in 0 .. L BY <1>1
        <3>3. MagnitudeOf(Zeros(L)) * MagnitudeOf(v) + MagnitudeOf(rem) = A * h
            <4>1. B * h \in Nat /\ A * h \in Nat BY <1>1, <2>2
            <4>2. 0 * (B * h) + A * h = A * h BY <4>1
            <4> QED BY <2>1, <2>3, <2>6, <4>2
        <3>4. MagnitudeOf(rem) < MagnitudeOf(v) * Weight(L) BY <2>1, <2>3, <2>7
        <3> HIDE DEF first
        <3> QED BY <1>1, <2>3, <2>6, <3>1, <3>2, <3>3, <3>4 DEF DivGood
    <2>9. L <= Len(first.rem) BY <2>5
    <2> HIDE DEF first
    <2>10. /\ Normal(t.rem) /\ t.quot \in Seq(Digit) /\ Len(t.quot) = L
           /\ MagnitudeOf(t.quot) * MagnitudeOf(v) + MagnitudeOf(t.rem) = A * h
           /\ MagnitudeOf(t.rem) < MagnitudeOf(v)
        <3> DEFINE M == A * h
        <3> HIDE DEF M
        <3>1. DivGood(first, v, M, L, L) BY <2>8 DEF M
        <3>2. /\ Normal(t.rem) /\ t.quot \in Seq(Digit) /\ Len(t.quot) = L
              /\ MagnitudeOf(t.quot) * MagnitudeOf(v) + MagnitudeOf(t.rem) = M
              /\ MagnitudeOf(t.rem) < MagnitudeOf(v)
            BY <2>1, <2>9, <3>1, DivLoopIs
        <3> QED BY <3>2 DEF M
    <2> HIDE DEF t
    <2> DEFINE q == MagnitudeOf(t.quot)
               r == MagnitudeOf(t.rem)
    <2>11. q \in Nat /\ r \in Nat BY <2>10, MagnitudeIs, NormalIs
    <2>12. Scaled(A, B, h, q, r)
        <3>1. A * h = q * (B * h) + r /\ r < B * h BY <2>1, <2>10
        <3> HIDE DEF A, B, q, r
        <3> QED BY <1>1, <2>2, <2>11, <3>1 DEF Scaled
    <2>13. A \div B = q /\ r \div h = (A % B) BY <2>12, Denormal
    <2>14. t.quot # <<>> BY <1>1, <2>10
    <2>15. Denormalised(t, d) = [quot |-> s_mp_clamp(t.quot), rem |-> s_mp_div_2d(Unsigned(t.rem), d).dp]
        BY <2>14 DEF Denormalised
    <2>16. Normal(s_mp_clamp(t.quot)) /\ MagnitudeOf(s_mp_clamp(t.quot)) = q BY <2>10, <2>14, ClampIs
    <2> DEFINE z == s_mp_div_2d(Unsigned(t.rem), d)
    <2>17. Unsigned(t.rem) \in Signed /\ Unsigned(t.rem).dp = t.rem BY <1>2, <2>10
    <2>18. z \in Signed /\ MagnitudeOf(z.dp) = r \div h BY <2>1, <2>17, Div2dIs DEF h
    <2>19. Normal(z.dp) BY <2>18, SignedIs
    <2>20. s_mp_div(a, b) = [quot |-> s_mp_clamp(t.quot), rem |-> z.dp] BY <1>0, <1>4, <2>15
    <2> HIDE DEF z
    <2> QED BY <2>13, <2>16, <2>18, <2>19, <2>20
<1> QED BY <1>3, <1>4

-----------------------------------------------------------------------------
(* Quotients of numbers *)

LEMMA DivMagnitudesIs ==
    ASSUME NEW a, Normal(a), NEW b, Normal(b), MagnitudeOf(b) > 0
    PROVE  /\ Normal(DivMagnitudes(a, b).quot) /\ Normal(DivMagnitudes(a, b).rem)
           /\ MagnitudeOf(DivMagnitudes(a, b).quot) = MagnitudeOf(a) \div MagnitudeOf(b)
           /\ MagnitudeOf(DivMagnitudes(a, b).rem) = (MagnitudeOf(a) % MagnitudeOf(b))
<1> DEFINE A == MagnitudeOf(a)
           B == MagnitudeOf(b)
           c == s_mp_cmp(a, b)
           d == DivMagnitudes(a, b)
<1>1. c = Sgn(A - B) BY CmpIs
<1>2. A \in Nat /\ B \in Nat /\ B > 0 BY NormalIs
<1>3. d = CASE c = MP_LT -> [quot |-> <<0>>, rem |-> a]
            [] c = MP_EQ -> [quot |-> <<1>>, rem |-> <<0>>]
            [] OTHER -> s_mp_div(a, b)
    BY DEF DivMagnitudes
<1>4. MP_LT # MP_EQ BY DEF MP_LT, MP_EQ
<1>5. /\ Normal(<<0>>) /\ MagnitudeOf(<<0>>) = 0
      /\ Normal(<<1>>) /\ MagnitudeOf(<<1>>) = 1
    <2>1. 0 \in Digit /\ 1 \in Digit BY RadixIs
    <2> QED BY <2>1, OneDigit
<1> HIDE DEF c, d
<1>6. CASE c = MP_LT
    <2>1. d = [quot |-> <<0>>, rem |-> a] BY <1>3, <1>4, <1>6
    <2>2. d.quot = <<0>> /\ d.rem = a BY <2>1
    <2> HIDE DEF A, B
    <2>3. A < B BY <1>1, <1>2, <1>6 DEF Sgn, MP_LT
    <2>4. A \div B = 0 /\ (A % B) = A
        <3>1. A = 0 * B + A /\ 0 \in Nat BY <1>2
        <3> QED BY <1>2, <2>3, <3>1, DivisionUnique
    <2> QED BY <1>5, <2>2, <2>4 DEF A, B, d
<1>7. CASE c = MP_EQ
    <2>1. d = [quot |-> <<1>>, rem |-> <<0>>] BY <1>3, <1>4, <1>7
    <2>2. d.quot = <<1>> /\ d.rem = <<0>> BY <2>1
    <2> HIDE DEF A, B
    <2>3. A = B BY <1>1, <1>2, <1>7 DEF Sgn, MP_EQ
    <2>4. A \div B = 1 /\ (A % B) = 0
        <3>1. A = 1 * B + 0 /\ 0 \in Nat /\ 1 \in Nat BY <1>2, <2>3
        <3> QED BY <1>2, <3>1, DivisionUnique
    <2> QED BY <1>5, <2>2, <2>4 DEF A, B, d
<1>8. CASE c # MP_LT /\ c # MP_EQ
    <2>1. d = s_mp_div(a, b) BY <1>3, <1>8
    <2> QED BY <2>1, DivIs DEF d
<1> QED BY <1>6, <1>7, <1>8

\* What a division of A by B that rounds towards zero answers.
Divides(A, B, q, r) ==
    /\ q * B + r = A
    /\ Abs(r) < Abs(B)
    /\ Sgn(r) \in {0, Sgn(A)}

LEMMA DividesSigned ==
    ASSUME NEW m \in Nat, NEW d \in Nat, d > 0, NEW q \in Nat, NEW r \in Nat, r < d,
           m = q * d + r
    PROVE  /\ Divides(m, d, q, r) /\ Divides(-m, d, -q, -r)
           /\ Divides(m, -d, -q, r) /\ Divides(-m, -d, q, -r)
<1> DEFINE p == q * d
<1>1. p \in Nat /\ p + r = m BY DEF p
<1>2. (-q) * d = -p /\ (-q) * (-d) = p /\ q * (-d) = -p OBVIOUS
<1>3. p = q * d OBVIOUS
<1> HIDE DEF p
<1>4. /\ Abs(r) = r /\ Abs(-r) = r /\ Abs(d) = d /\ Abs(-d) = d BY DEF Abs
<1>5. /\ Sgn(r) \in {0, Sgn(m)} /\ Sgn(-r) \in {0, Sgn(-m)} BY <1>1 DEF Sgn
<1>6. Divides(m, d, q, r) BY <1>1, <1>3, <1>4, <1>5 DEF Divides
<1>7. Divides(-m, d, -q, -r) BY <1>1, <1>2, <1>4, <1>5 DEF Divides
<1>8. Divides(m, -d, -q, r) BY <1>1, <1>2, <1>4, <1>5 DEF Divides
<1>9. Divides(-m, -d, q, -r) BY <1>1, <1>2, <1>4, <1>5 DEF Divides
<1> QED BY <1>6, <1>7, <1>8, <1>9

LEMMA QuotientIs ==
    ASSUME NEW a \in Numbers, NEW b \in Numbers
    PROVE  /\ ValueOf(b) = 0 => Failed(mp_div(a, b).q) /\ Failed(mp_div(a, b).r)
           /\ ValueOf(b) # 0 =>
                /\ mp_div(a, b).q \in Numbers /\ mp_div(a, b).r \in Numbers
                /\ Divides(ValueOf(a), ValueOf(b), ValueOf(mp_div(a, b).q), ValueOf(mp_div(a, b).r))
<1> DEFINE A == MagnitudeOf(a.dp)
           B == MagnitudeOf(b.dp)
           d == DivMagnitudes(a.dp, b.dp)
           u == mp_div(a, b)
           s == IF a.sign = b.sign THEN ZPOS ELSE NEG
           qn == [sign |-> s, dp |-> d.quot]
           rn == [sign |-> a.sign, dp |-> d.rem]
           Q == MagnitudeOf(d.quot)
           R == MagnitudeOf(d.rem)
<1>1. a \in Signed /\ b \in Signed BY NumbersIs
<1>2. Normal(a.dp) /\ Normal(b.dp) /\ A \in Nat /\ B \in Nat BY <1>1, SignedIs
<1>3. ValueOf(b) \in Int /\ Abs(ValueOf(b)) = B BY <1>1, SignedIs
<1>4. mp_cmp_z(b) = MP_EQ <=> ValueOf(b) = 0
    <2>1. mp_cmp_z(b) = Sgn(ValueOf(b)) BY CompareIs
    <2> QED BY <1>3, <2>1 DEF Sgn, MP_EQ
<1>5. CASE ValueOf(b) = 0
    <2>1. u = [q |-> MP_RANGE, r |-> MP_RANGE] BY <1>4, <1>5 DEF mp_div
    <2>2. Failed(MP_RANGE) BY DEF Failed, MP_RANGE
    <2>3. u.q = MP_RANGE /\ u.r = MP_RANGE BY <2>1
    <2> QED BY <1>5, <2>2, <2>3
<1>6. CASE ValueOf(b) # 0
    <2>1. B > 0 BY <1>2, <1>3, <1>6 DEF Abs
    <2>2. /\ Normal(d.quot) /\ Normal(d.rem) /\ Q = A \div B /\ R = (A % B)
        BY <1>2, <2>1, DivMagnitudesIs
    <2>3. d.quot # << >> BY <2>2 DEF Normal
    <2>4. u = [q |-> PositiveZero(qn), r |-> PositiveZero(rn)]
        BY <1>4, <1>6, <2>3 DEF mp_div, WithSigns
    <2>5. u.q = PositiveZero(qn) /\ u.r = PositiveZero(rn) BY <2>4
    <2>6. s \in {ZPOS, NEG} /\ a.sign \in {ZPOS, NEG} /\ b.sign \in {ZPOS, NEG} BY <1>1, SignedIs
    <2>7. s = IF a.sign = b.sign THEN ZPOS ELSE NEG OBVIOUS
    <2> HIDE DEF d, u, s
    <2>8. qn \in Signed /\ ValueOf(qn) = IF s = NEG THEN -Q ELSE Q BY <2>2, <2>6, SignedOf
    <2>9. rn \in Signed /\ ValueOf(rn) = IF a.sign = NEG THEN -R ELSE R BY <2>2, <2>6, SignedOf
    <2> HIDE DEF qn, rn
    <2>10. u.q \in Numbers /\ ValueOf(u.q) = ValueOf(qn) BY <2>5, <2>8, PositiveZeroIs
    <2>11. u.r \in Numbers /\ ValueOf(u.r) = ValueOf(rn) BY <2>5, <2>9, PositiveZeroIs
    <2>12. Q \in Nat /\ R \in Nat /\ R < B /\ A = Q * B + R
        <3> HIDE DEF A, B, Q, R
        <3> QED BY <1>2, <2>1, <2>2, DivisionIs
    <2>13. (a.sign = ZPOS => ValueOf(a) = A) /\ (a.sign = NEG => ValueOf(a) = -A) BY <1>1, SignedIs
    <2>14. (b.sign = ZPOS => ValueOf(b) = B) /\ (b.sign = NEG => ValueOf(b) = -B) BY <1>1, SignedIs
    <2>15. ZPOS # NEG BY DEF ZPOS, NEG
    <2> HIDE DEF A, B, Q, R
    <2>16. /\ Divides(A, B, Q, R) /\ Divides(-A, B, -Q, -R)
           /\ Divides(A, -B, -Q, R) /\ Divides(-A, -B, Q, -R)
        BY <1>2, <2>1, <2>12, DividesSigned
    <2>17. Divides(ValueOf(a), ValueOf(b), ValueOf(u.q), ValueOf(u.r))
        <3>1. CASE a.sign = ZPOS /\ b.sign = ZPOS
            BY <2>7, <2>8, <2>9, <2>10, <2>11, <2>13, <2>14, <2>15, <2>16, <3>1
        <3>2. CASE a.sign = ZPOS /\ b.sign = NEG
            BY <2>7, <2>8, <2>9, <2>10, <2>11, <2>13, <2>14, <2>15, <2>16, <3>2
        <3>3. CASE a.sign = NEG /\ b.sign = ZPOS
            BY <2>7, <2>8, <2>9, <2>10, <2>11, <2>13, <2>14, <2>15, <2>16, <3>3
        <3>4. CASE a.sign = NEG /\ b.sign = NEG
            BY <2>7, <2>8, <2>9, <2>10, <2>11, <2>13, <2>14, <2>15, <2>16, <3>4
        <3> QED BY <2>6, <3>1, <3>2, <3>3, <3>4
    <2> QED BY <1>6, <2>10, <2>11, <2>17 DEF u
<1> QED BY <1>5, <1>6

LEMMA ModUnique ==
    ASSUME NEW n \in Int, NEW d \in Nat, d > 0, NEW q \in Int, NEW r \in Nat, r < d,
           n = q * d + r
    PROVE  (n % d) = r
<1> DEFINE u == n \div d
           v == n % d
<1>1. u \in Int /\ v \in Nat /\ v < d /\ n = u * d + v
    <2>1. u \in Int OBVIOUS
    <2>2. v \in 0 .. d - 1 OBVIOUS
    <2>3. n = u * d + v OBVIOUS
    <2> QED BY <2>1, <2>2, <2>3
<1> HIDE DEF u, v
<1> DEFINE a == u * d
           b == q * d
<1>2. a \in Int /\ b \in Int /\ a + v = b + r BY <1>1
<1>3. CASE u > q
    <2>1. u * d >= (q + 1) * d BY <1>1, <1>3
    <2>2. (q + 1) * d = q * d + d OBVIOUS
    <2>3. a >= b + d BY <2>1, <2>2
    <2> HIDE DEF a, b
    <2> QED BY <1>1, <1>2, <2>3
<1>4. CASE u < q
    <2>1. q * d >= (u + 1) * d BY <1>1, <1>4
    <2>2. (u + 1) * d = u * d + d BY <1>1
    <2>3. b >= a + d BY <2>1, <2>2
    <2> HIDE DEF a, b
    <2> QED BY <1>1, <1>2, <2>3
<1>5. CASE u = q
    <2>1. a = b BY <1>5
    <2> HIDE DEF a, b
    <2>2. v = r BY <1>1, <1>2, <2>1
    <2> QED BY <2>2 DEF v
<1> QED BY <1>1, <1>3, <1>4, <1>5

\* Raised brings a remainder that rounds towards zero into the range.
LEMMA RaisedIs ==
    ASSUME NEW c \in Numbers, NEW m \in Numbers, NEW n \in Int, NEW q \in Int,
           n = q * ValueOf(m) + ValueOf(c), Abs(ValueOf(c)) < ValueOf(m)
    PROVE  Raised(c, m) \in Numbers /\ ValueOf(Raised(c, m)) = (n % ValueOf(m))
<1> DEFINE C == ValueOf(c)
           M == ValueOf(m)
<1>1. c \in Signed /\ m \in Signed BY NumbersIs
<1>2. C \in Int /\ M \in Int /\ c.sign \in {ZPOS, NEG} /\ Normal(c.dp) BY <1>1, SignedIs
<1>3. ~Failed(c) BY <1>2 DEF Failed, Normal
<1>4. (c.sign = NEG => C < 0) /\ (c.sign = ZPOS => C >= 0) BY NumbersIs
<1>5. n = q * M + C /\ Abs(C) < M OBVIOUS
<1>6. mp_add(c, m) \in Numbers /\ ValueOf(mp_add(c, m)) = C + M BY <1>1, AddIs
<1>7. CASE c.sign = NEG
    <2>1. Raised(c, m) = mp_add(c, m) BY <1>3, <1>7 DEF Raised
    <2>2. C < 0 BY <1>4, <1>7
    <2> HIDE DEF C, M
    <2>3. C + M \in Nat /\ C + M < M /\ M \in Nat /\ M > 0 BY <1>2, <1>5, <2>2 DEF Abs
    <2>4. n = (q - 1) * M + (C + M)
        <3>1. (q - 1) * M = q * M - M BY <1>2
        <3>2. q * M \in Int BY <1>2
        <3> QED BY <1>2, <1>5, <3>1, <3>2
    <2>5. q - 1 \in Int OBVIOUS
    <2>6. (n % M) = C + M BY <2>3, <2>4, <2>5, ModUnique
    <2> QED BY <1>6, <2>1, <2>6 DEF M
<1>8. CASE c.sign # NEG
    <2>1. Raised(c, m) = c BY <1>8 DEF Raised
    <2>2. C >= 0 BY <1>2, <1>4, <1>8
    <2> HIDE DEF C, M
    <2>3. C \in Nat /\ C < M /\ M \in Nat /\ M > 0 BY <1>2, <1>5, <2>2 DEF Abs
    <2>4. (n % M) = C BY <1>5, <2>3, ModUnique
    <2> QED BY <2>1, <2>4 DEF M, C
<1> QED BY <1>7, <1>8

LEMMA ModIs ==
    ASSUME NEW a \in Numbers, NEW m \in Numbers
    PROVE  /\ Failed(mp_mod(a, m)) \/ mp_mod(a, m) \in Numbers
           /\ ValueOf(m) > 0 =>
                mp_mod(a, m) \in Numbers /\ ValueOf(mp_mod(a, m)) = (ValueOf(a) % ValueOf(m))
<1> DEFINE A == ValueOf(a)
           M == ValueOf(m)
           g == s_mp_cmp(a.dp, m.dp)
           u == mp_div(a, m)
           v == mp_mod(a, m)
<1>1. a \in Signed /\ m \in Signed BY NumbersIs
<1>2. A \in Int /\ M \in Int /\ m.sign \in {ZPOS, NEG} /\ Normal(a.dp) /\ Normal(m.dp)
      /\ Abs(A) = MagnitudeOf(a.dp) /\ Abs(M) = MagnitudeOf(m.dp)
    BY <1>1, SignedIs
<1>3. g = Sgn(Abs(A) - Abs(M)) BY <1>2, CmpIs
<1>4. (m.sign = NEG => M < 0) /\ (m.sign = ZPOS => M >= 0) BY NumbersIs
<1>5. v = CASE m.sign = NEG -> MP_RANGE
            [] m.sign # NEG /\ g = MP_EQ -> mp_zero
            [] OTHER -> Raised(IF g = MP_GT THEN u.r ELSE a, m)
    BY DEF mp_mod
<1>6. Failed(MP_RANGE) BY DEF Failed, MP_RANGE
<1> HIDE DEF g, u, v
<1>7. CASE m.sign = NEG
    <2>1. v = MP_RANGE BY <1>5, <1>7
    <2> QED BY <1>2, <1>4, <1>6, <1>7, <2>1 DEF v
<1>8. CASE m.sign # NEG /\ g = MP_EQ
    <2>1. v = mp_zero BY <1>5, <1>8
    <2>2. mp_zero \in Numbers /\ ValueOf(mp_zero) = 0 BY ZeroIs
    <2> HIDE DEF A, M
    <2>3. ASSUME M > 0 PROVE (A % M) = 0
        <3>1. A = M \/ A = -M BY <1>2, <1>3, <1>8, <2>3 DEF Sgn, MP_EQ, Abs
        <3>2. A = 1 * M + 0 \/ A = (-1) * M + 0 BY <1>2, <3>1
        <3>3. M \in Nat /\ 0 \in Nat /\ 0 < M /\ 1 \in Int /\ -1 \in Int BY <1>2, <2>3
        <3> QED BY <1>2, <2>3, <3>2, <3>3, ModUnique
    <2> QED BY <2>1, <2>2, <2>3 DEF v, A, M
<1>9. CASE m.sign # NEG /\ g = MP_GT
    <2>1. v = Raised(u.r, m)
        <3>1. MP_GT # MP_EQ BY DEF MP_GT, MP_EQ
        <3> QED BY <1>5, <1>9, <3>1
    <2>2. /\ M = 0 => Failed(u.r)
          /\ M # 0 => u.q \in Numbers /\ u.r \in Numbers /\ Divides(A, M, ValueOf(u.q), ValueOf(u.r))
        BY QuotientIs DEF u
    <2> HIDE DEF A, M
    <2>3. CASE M = 0
        <3>1. v = u.r BY <2>1, <2>2, <2>3 DEF Raised
        <3> QED BY <2>2, <2>3, <3>1 DEF v, M
    <2>4. CASE M # 0
        <3>1. M > 0 BY <1>2, <1>4, <1>9, <2>4
        <3>2. u.q \in Signed BY <2>2, <2>4, NumbersIs
        <3>3. ValueOf(u.q) \in Int BY <3>2, SignedIs
        <3>4. A = ValueOf(u.q) * M + ValueOf(u.r) /\ Abs(ValueOf(u.r)) < M
            BY <1>2, <2>2, <2>4, <3>1 DEF Divides, Abs
        <3>5. v \in Numbers /\ ValueOf(v) = (A % M)
            BY <1>2, <2>1, <2>2, <2>4, <3>3, <3>4, RaisedIs DEF M
        <3> QED BY <3>5 DEF v, A, M
    <2> QED BY <2>3, <2>4
<1>10. CASE m.sign # NEG /\ g # MP_EQ /\ g # MP_GT
    <2>1. v = Raised(a, m) BY <1>5, <1>10
    <2> HIDE DEF A, M
    <2>2. Abs(A) < Abs(M) BY <1>2, <1>3, <1>10 DEF Sgn, MP_EQ, MP_GT, Abs
    <2>3. Abs(A) < M
        <3>1. M >= 0 BY <1>2, <1>4, <1>10
        <3> QED BY <1>2, <2>2, <3>1 DEF Abs
    <2>4. A = 0 * M + A /\ 0 \in Int BY <1>2
    <2>5. v \in Numbers /\ ValueOf(v) = (A % M)
        BY <1>2, <2>1, <2>3, <2>4, RaisedIs DEF A, M
    <2> QED BY <2>5 DEF v, A, M
<1> QED BY <1>7, <1>8, <1>9, <1>10 DEF v

\* The bits below a digit's width are in the lowest digit.
LEMMA LowBits ==
    ASSUME NEW dp, Normal(dp), NEW b \in 0 .. MP_DIGIT_BIT
    PROVE  (dp[1] % 2 ^ b) = (MagnitudeOf(dp) % 2 ^ b)
<1> DEFINE h == 2 ^ b
           g == 2 ^ (MP_DIGIT_BIT - b)
           d == dp[1]
           A == MagnitudeOf(dp)
           rest == SubSeq(dp, 1 + 1, Len(dp))
           S == MagnitudeOf(rest)
           u == d \div h
           v == d % h
           w == u + g * S
<1>1. dp \in Seq(Digit) /\ A \in Nat /\ Len(dp) \in Nat /\ Len(dp) > 0 /\ d \in Digit BY NormalIs
<1>2. h \in Nat /\ h > 0 /\ g \in Nat /\ h * g = MP_RADIX BY BitsOf
<1>3. rest \in Seq(Digit) /\ A = Part(dp, 1) + Weight(1) * S
    <2>1. 1 \in 0 .. Len(dp) BY <1>1
    <2> QED BY <1>1, <2>1, SuffixIs
<1>4. S \in Nat BY <1>3, MagnitudeIs
<1>5. Part(dp, 1) = d /\ Weight(1) = MP_RADIX
    <2>1. 0 \in Nat /\ 0 + 1 = 1 /\ MP_RADIX \in Nat BY RadixIs
    <2>2. Weight(0) = 1 /\ Weight(0 + 1) = MP_RADIX * Weight(0) BY <2>1, WeightIs
    <2>3. Part(dp, 0) = 0 /\ Part(dp, 0 + 1) = Part(dp, 0) + At(dp, 0 + 1) * Weight(0)
        BY <1>1, <2>1, PartIs
    <2>4. At(dp, 1) = d
        <3>1. 1 \in Int /\ 1 \in 1 .. Len(dp) BY <1>1
        <3> QED BY <1>1, <3>1, AtIs
    <2>5. d \in Nat BY <1>1, DigitInt
    <2> HIDE DEF d
    <2> QED BY <2>1, <2>2, <2>3, <2>4, <2>5
<1>6. d \in Nat BY <1>1, DigitInt
<1> HIDE DEF h, g, d, A, S
<1>7. u \in Nat /\ v \in Nat /\ v < h /\ d = u * h + v BY <1>2, <1>6, DivisionIs
<1> HIDE DEF u, v
<1>8. w \in Nat BY <1>2, <1>4, <1>7
<1>9. A = w * h + v
    <2>1. w * h = u * h + (h * g) * S BY <1>2, <1>4, <1>7
    <2>2. A = d + MP_RADIX * S BY <1>3, <1>5 DEF A, S
    <2> DEFINE p == u * h
               q == MP_RADIX * S
    <2>3. p \in Nat /\ q \in Nat
        <3>1. MP_RADIX \in Nat BY RadixIs
        <3> QED BY <1>2, <1>4, <1>7, <3>1
    <2>4. w * h = p + q /\ A = d + q /\ d = p + v BY <1>2, <1>7, <2>1, <2>2
    <2> HIDE DEF p, q, w
    <2> QED BY <1>7, <2>3, <2>4
<1> HIDE DEF w
<1>10. A \div h = w /\ (A % h) = v BY <1>1, <1>2, <1>7, <1>8, <1>9, DivisionUnique DEF A
<1> QED BY <1>10 DEF v, A, h, d

\* Halving a number that is not negative: every bit that is shifted out is
\* the remainder's.
LEMMA Div2dOfIs ==
    ASSUME NEW a \in Numbers, a.sign = ZPOS, NEW k \in Nat
    PROVE  /\ mp_div_2d(a, k).q \in Numbers /\ mp_div_2d(a, k).q.sign = ZPOS
           /\ ValueOf(mp_div_2d(a, k).q) = ValueOf(a) \div 2 ^ k
           /\ mp_div_2d(a, k).r \in Numbers /\ mp_div_2d(a, k).r.sign = ZPOS
           /\ ValueOf(mp_div_2d(a, k).r) = (ValueOf(a) % 2 ^ k)
<1> DEFINE q == s_mp_div_2d(a, k)
           e == s_mp_mod_2d(a.dp, k)
           r == [a EXCEPT !.dp = e]
<1>1. mp_div_2d(a, k).q = q /\ mp_div_2d(a, k).r = r BY DEF mp_div_2d
<1>2. a \in Signed BY NumbersIs
<1>3. a = [sign |-> ZPOS, dp |-> a.dp] /\ Normal(a.dp) /\ ValueOf(a) = MagnitudeOf(a.dp)
    BY <1>2, SignedIs
<1>4. q \in Signed /\ q.sign = ZPOS /\ MagnitudeOf(q.dp) = MagnitudeOf(a.dp) \div 2 ^ k
    BY <1>2, Div2dIs
<1>5. Normal(e) /\ MagnitudeOf(e) = (MagnitudeOf(a.dp) % 2 ^ k) BY <1>3, Mod2dIs
<1> HIDE DEF q, e
<1>6. r = [sign |-> ZPOS, dp |-> e] BY <1>3
<1> HIDE DEF r
<1>7. ZPOS \in {ZPOS, NEG} /\ ZPOS # NEG BY DEF ZPOS, NEG
<1>8. r \in Signed /\ r.sign = ZPOS /\ r.dp = e BY <1>5, <1>6, <1>7, SignedOf
<1>9. ValueOf(q) = MagnitudeOf(q.dp) /\ ValueOf(r) = MagnitudeOf(e) BY <1>4, <1>8, SignedIs
<1>10. q \in Numbers /\ r \in Numbers BY <1>4, <1>8 DEF Numbers
<1> QED BY <1>1, <1>3, <1>4, <1>5, <1>8, <1>9, <1>10

\* Dividing a number that is not negative by a digit.
LEMMA DivDOfIs ==
    ASSUME NEW a \in Numbers, a.sign = ZPOS, NEW d \in Digit
    PROVE  /\ d = 0 => Failed(mp_div_d(a, d).q) /\ mp_div_d(a, d).r = 0
           /\ d # 0 => /\ mp_div_d(a, d).q \in Numbers /\ mp_div_d(a, d).q.sign = ZPOS
                       /\ ValueOf(mp_div_d(a, d).q) = ValueOf(a) \div d
                       /\ mp_div_d(a, d).r = (ValueOf(a) % d)
<1> DEFINE p == s_mp_ispow2d(d)
           b == s_mp_div_d(a.dp, d)
           u == mp_div_d(a, d)
<1>1. u = CASE d = 0 -> [q |-> MP_RANGE, r |-> 0]
            [] d # 0 /\ p >= 0 -> [q |-> s_mp_div_2d(a, p), r |-> a.dp[1] % 2 ^ p]
            [] OTHER -> SignedQuotient(a, b)
    BY DEF mp_div_d
<1>2. a \in Signed BY NumbersIs
<1>3. a = [sign |-> ZPOS, dp |-> a.dp] /\ Normal(a.dp) /\ ValueOf(a) = MagnitudeOf(a.dp)
    BY <1>2, SignedIs
<1>4. p >= 0 => p \in 0 .. MP_DIGIT_BIT - 1 /\ d = 2 ^ p BY Ispow2dIs
<1> HIDE DEF u, b, p
<1>5. CASE d = 0
    <2>1. u = [q |-> MP_RANGE, r |-> 0] BY <1>1, <1>5
    <2>2. Failed(MP_RANGE) BY DEF Failed, MP_RANGE
    <2>3. u.q = MP_RANGE /\ u.r = 0 BY <2>1
    <2> QED BY <1>5, <2>2, <2>3 DEF u
<1>6. CASE d # 0 /\ p >= 0
    <2>1. u = [q |-> s_mp_div_2d(a, p), r |-> a.dp[1] % 2 ^ p] BY <1>1, <1>6
    <2>2. u.q = s_mp_div_2d(a, p) /\ u.r = a.dp[1] % 2 ^ p BY <2>1
    <2>3. p \in Nat /\ p \in 0 .. MP_DIGIT_BIT
        <3>1. MP_DIGIT_BIT \in Nat BY RadixIs
        <3> QED BY <1>4, <1>6, <3>1
    <2>4. mp_div_2d(a, p).q = s_mp_div_2d(a, p) BY DEF mp_div_2d
    <2>5. u.q \in Numbers /\ u.q.sign = ZPOS /\ ValueOf(u.q) = ValueOf(a) \div 2 ^ p
        BY <2>2, <2>3, <2>4, Div2dOfIs
    <2>6. (a.dp[1] % 2 ^ p) = (MagnitudeOf(a.dp) % 2 ^ p) BY <1>3, <2>3, LowBits
    <2> QED BY <1>3, <1>4, <1>6, <2>2, <2>5, <2>6 DEF u
<1>7. CASE d # 0 /\ ~(p >= 0)
    <2>1. u = [q |-> [a EXCEPT !.dp = b.q], r |-> b.r] BY <1>1, <1>7 DEF SignedQuotient
    <2> DEFINE q == [a EXCEPT !.dp = b.q]
    <2>2. u.q = q /\ u.r = b.r BY <2>1
    <2>3. Normal(b.q) /\ MagnitudeOf(b.q) = MagnitudeOf(a.dp) \div d
          /\ b.r = (MagnitudeOf(a.dp) % d)
        BY <1>3, <1>7, DivDIs DEF b
    <2>4. q = [sign |-> ZPOS, dp |-> b.q] BY <1>3
    <2> HIDE DEF q
    <2>5. ZPOS \in {ZPOS, NEG} /\ ZPOS # NEG BY DEF ZPOS, NEG
    <2>6. q \in Signed /\ q.sign = ZPOS /\ q.dp = b.q BY <2>3, <2>4, <2>5, SignedOf
    <2>7. ValueOf(q) = MagnitudeOf(b.q) BY <2>6, SignedIs
    <2>8. q \in Numbers BY <2>6 DEF Numbers
    <2> QED BY <1>3, <1>7, <2>2, <2>3, <2>6, <2>7, <2>8 DEF u
<1> QED BY <1>5, <1>6, <1>7

\* A division by a digit does not look at the sign for its remainder.
LEMMA DivDRemainder ==
    ASSUME NEW a \in Numbers, NEW d \in Digit, d # 0
    PROVE  ~Failed(mp_div_d(a, d).q) /\ mp_div_d(a, d).r = (MagnitudeOf(a.dp) % d)
<1> DEFINE m == [sign |-> ZPOS, dp |-> a.dp]
           p == s_mp_ispow2d(d)
           u == mp_div_d(a, d)
           v == mp_div_d(m, d)
<1>1. a \in Signed BY NumbersIs
<1>2. a = [sign |-> a.sign, dp |-> a.dp] /\ Normal(a.dp) BY <1>1, SignedIs
<1>3. m \in Numbers /\ m.sign = ZPOS /\ m.dp = a.dp /\ ValueOf(m) = MagnitudeOf(a.dp)
    <2>1. m.sign = ZPOS /\ m.dp = a.dp /\ ZPOS \in {ZPOS, NEG} OBVIOUS
    <2> HIDE DEF m
    <2>2. m = [sign |-> ZPOS, dp |-> a.dp] BY DEF m
    <2>3. m \in Signed BY <1>2, <2>1, <2>2, SignedOf
    <2>4. m \in Numbers BY <2>1, <2>3 DEF Numbers
    <2> QED BY <2>1, <2>3, <2>4, SignedIs
<1>4. v.q \in Numbers /\ v.r = (MagnitudeOf(a.dp) % d)
    <2> HIDE DEF m
    <2> QED BY <1>3, DivDOfIs
<1>5. v.q.dp # << >>
    <2>1. Normal(v.q.dp) BY <1>4, NumbersIs, SignedIs
    <2> QED BY <2>1 DEF Normal
<1>6. u.r = v.r /\ u.q.dp = v.q.dp
    <2>1. CASE p >= 0
        <3>1. u = [q |-> s_mp_div_2d(a, p), r |-> a.dp[1] % 2 ^ p] BY <2>1 DEF mp_div_d
        <3>2. v = [q |-> s_mp_div_2d(m, p), r |-> a.dp[1] % 2 ^ p] BY <1>3, <2>1 DEF mp_div_d
        <3>3. s_mp_div_2d(a, p).dp = s_mp_div_2d(m, p).dp
            <4> DEFINE k == p \div MP_DIGIT_BIT
                       b == p % MP_DIGIT_BIT
                       Shift(r) == [i \in 1 .. Len(r) |->
                                      r[i] \div 2 ^ b + (At(r, i + 1) % 2 ^ b) * 2 ^ (MP_DIGIT_BIT - b)]
                       ra == s_mp_rshd(a, k)
                       rm == s_mp_rshd(m, k)
            <4>1. ra.dp = rm.dp /\ ra = [sign |-> ra.sign, dp |-> ra.dp]
                  /\ rm = [sign |-> rm.sign, dp |-> rm.dp]
                <5>1. CASE k >= Len(a.dp) /\ k > 0 BY <1>3, <5>1 DEF s_mp_rshd, mp_zero
                <5>2. CASE ~(k >= Len(a.dp) /\ k > 0)
                    <6> DEFINE t == SubSeq(a.dp, k + 1, Len(a.dp))
                    <6>1. ra = [a EXCEPT !.dp = t] BY <5>2 DEF s_mp_rshd
                    <6>2. rm = [m EXCEPT !.dp = t] BY <1>3, <5>2 DEF s_mp_rshd
                    <6>3. m = [sign |-> m.sign, dp |-> m.dp] OBVIOUS
                    <6> HIDE DEF t, ra, rm, m
                    <6>4. ra = [sign |-> a.sign, dp |-> t] BY <1>2, <6>1
                    <6>5. rm = [sign |-> m.sign, dp |-> t] BY <6>2, <6>3
                    <6> QED BY <6>4, <6>5
                <5> QED BY <5>1, <5>2
            <4>2. s_mp_div_2d(a, p)
                    = [ra EXCEPT !.dp = s_mp_clamp(IF b = 0 THEN ra.dp ELSE Shift(ra.dp))]
                BY DEF s_mp_div_2d
            <4>3. s_mp_div_2d(m, p)
                    = [rm EXCEPT !.dp = s_mp_clamp(IF b = 0 THEN rm.dp ELSE Shift(rm.dp))]
                BY DEF s_mp_div_2d
            <4> HIDE DEF ra, rm, Shift, b
            <4> QED BY <4>1, <4>2, <4>3
        <3> QED BY <3>1, <3>2, <3>3
    <2>2. CASE ~(p >= 0)
        <3>1. u = SignedQuotient(a, s_mp_div_d(a.dp, d)) BY <2>2 DEF mp_div_d
        <3>2. v = SignedQuotient(m, s_mp_div_d(a.dp, d)) BY <1>3, <2>2 DEF mp_div_d
        <3> QED BY <1>2, <3>1, <3>2 DEF SignedQuotient
    <2> QED BY <2>1, <2>2
<1> QED BY <1>4, <1>5, <1>6 DEF Failed

\* mp_mod_d answers with the digit itself for a number equal to it, and with
\* the remainder of the magnitude for a number below its negative.
LEMMA ModDOfIs ==
    ASSUME NEW a \in Numbers, NEW d \in Digit
    PROVE  /\ Failed(mp_mod_d(a, d)) \/ mp_mod_d(a, d) \in Numbers
           /\ d # 0 => ValueOf(mp_mod_d(a, d)) = DigitRemainder(ValueOf(a), d)
           /\ d = 0 /\ ValueOf(a) # 0 => Failed(mp_mod_d(a, d))
<1> DEFINE A == MagnitudeOf(a.dp)
           V == ValueOf(a)
           g == s_mp_cmp_d(a.dp, d)
           u == mp_div_d(a, d)
           rem == IF a.sign = NEG THEN d - a.dp[1] ELSE a.dp[1]
           r == mp_mod_d(a, d)
<1>1. a \in Signed BY NumbersIs
<1>2. Normal(a.dp) /\ A \in Nat /\ d \in Nat /\ V \in Int
      /\ (a.sign = ZPOS => V = A /\ V >= 0) /\ (a.sign = NEG => V = -A /\ V < 0)
      /\ a.sign \in {ZPOS, NEG} /\ ZPOS # NEG
    <2>1. d \in Nat BY DigitInt
    <2>2. ZPOS # NEG BY DEF ZPOS, NEG
    <2> QED BY <1>1, <2>1, <2>2, SignedIs, NumbersIs
<1>3. g = Sgn(A - d) BY <1>2, CmpDigitIs
<1>4. r = IF g # MP_GT THEN mp_set(rem)
          ELSE IF Failed(u.q) THEN MP_RANGE ELSE mp_set(u.r)
    BY DEF mp_mod_d
<1>5. MP_RADIX \in Nat /\ d < MP_RADIX /\ \A v \in Nat : v < MP_RADIX => v \in Digit
    <2>1. MP_RADIX \in Nat /\ d < MP_RADIX /\ Digit = 0 .. MP_RADIX - 1 BY RadixIs, DigitInt
    <2> HIDE DEF A, V, g, u, rem, r
    <2> QED BY <2>1
<1>6. Failed(MP_RANGE) BY DEF Failed, MP_RANGE
<1>7. u.q = MP_RANGE \/ d # 0 BY DEF mp_div_d
<1>8. d # 0 => ~Failed(u.q) /\ u.r = (A % d) BY DivDRemainder
<1>9. CASE g = MP_GT
    <2>1. A > d BY <1>2, <1>3, <1>9 DEF Sgn, MP_GT
    <2>2. CASE d = 0 BY <1>4, <1>6, <1>7, <1>9, <2>2
    <2>3. CASE d # 0
        <3> DEFINE w == A % d
        <3>1. w \in Nat /\ w < d BY <1>2, <2>3, DivisionIs
        <3>2. r = mp_set(w) BY <1>4, <1>8, <1>9, <2>3
        <3>3. DigitRemainder(V, d) = w
            <4>1. CASE a.sign = ZPOS
                <5>1. V = A BY <1>2, <4>1
                <5>2. V # d /\ ~(V < -d) BY <1>2, <2>1, <5>1
                <5> QED BY <5>1, <5>2 DEF DigitRemainder
            <4>2. CASE a.sign = NEG
                <5>1. V # d /\ V < -d /\ Abs(V) = A
                    <6> HIDE DEF A, V
                    <6>1. V = -A BY <1>2, <4>2
                    <6> QED BY <1>2, <2>1, <6>1 DEF Abs
                <5> QED BY <5>1 DEF DigitRemainder
            <4> QED BY <1>2, <4>1, <4>2
        <3> HIDE DEF w
        <3>4. w \in Digit BY <1>2, <1>5, <3>1
        <3>5. r \in Numbers /\ ValueOf(r) = w BY <3>2, <3>4, SetIs
        <3> QED BY <2>3, <3>3, <3>5
    <2> QED BY <2>2, <2>3
<1>10. CASE g # MP_GT
    <2>1. A <= d BY <1>2, <1>3, <1>10 DEF Sgn, MP_GT
    <2>2. A = a.dp[1]
        <3>1. A < MP_RADIX BY <1>2, <1>5, <2>1
        <3>2. Len(a.dp) = 1 \/ Len(a.dp) > 1 BY <1>2, NormalIs
        <3>3. ~(Len(a.dp) > 1) BY <1>2, <1>5, <3>1, NormalIs
        <3> QED BY <1>2, <3>2, <3>3, NormalIs
    <2>3. r = mp_set(rem) BY <1>4, <1>10
    <2>4. rem = IF a.sign = NEG THEN d - A ELSE A BY <2>2
    <2> HIDE DEF A, V, g, u, rem, r
    <2>5. rem \in Nat /\ rem <= d BY <1>2, <2>1, <2>4
    <2>6. rem \in Digit BY <1>2, <1>5, <2>5
    <2>7. r \in Numbers /\ ValueOf(r) = rem BY <2>3, <2>6, SetIs
    <2>8. ASSUME d # 0 PROVE DigitRemainder(V, d) = rem
        <3>1. CASE V = d
            <4>1. a.sign # NEG BY <1>2, <3>1
            <4>2. rem = d BY <1>2, <2>4, <3>1, <4>1
            <4> QED BY <3>1, <4>2 DEF DigitRemainder
        <3>2. CASE V # d
            <4>1. ~(V < -d) BY <1>2, <2>1
            <4>2. CASE a.sign = NEG
                <5>1. V = (-1) * d + rem /\ rem < d
                    <6>1. rem = d - A /\ V = -A /\ V < 0 BY <1>2, <2>4, <4>2
                    <6> QED BY <1>2, <6>1
                <5>2. -1 \in Int /\ d > 0 BY <1>2, <2>8
                <5>3. (V % d) = rem BY <1>2, <2>5, <5>1, <5>2, ModUnique
                <5> QED BY <3>2, <4>1, <5>3 DEF DigitRemainder
            <4>3. CASE a.sign # NEG
                <5>1. V = 0 * d + rem /\ rem < d
                    <6>1. rem = A /\ V = A BY <1>2, <2>4, <4>3
                    <6> QED BY <1>2, <2>1, <3>2, <6>1
                <5>2. 0 \in Int /\ d > 0 BY <1>2, <2>8
                <5>3. (V % d) = rem BY <1>2, <2>5, <5>1, <5>2, ModUnique
                <5> QED BY <3>2, <4>1, <5>3 DEF DigitRemainder
            <4> QED BY <4>2, <4>3
        <3> QED BY <3>1, <3>2
    <2>9. d = 0 => V = 0 BY <1>2, <2>1
    <2> QED BY <2>7, <2>8, <2>9 DEF V, r
<1> QED BY <1>9, <1>10

(* Every quotient and every remainder of two numbers is the integers'. *)
LEMMA NumbersQuotients ==
    ASSUME x \in Numbers, y \in Numbers
    PROVE  QuotientsExact
<1>1. x \in Signed /\ y \in Signed /\ X \in Int /\ Y \in Int BY NumbersIs, SignedIs DEF X, Y
<1>2. Y = 0 => Failed(mp_div(x, y).q) BY QuotientIs DEF Y
<1>3. Y # 0 => Divides(X, Y, ValueOf(mp_div(x, y).q), ValueOf(mp_div(x, y).r))
    BY QuotientIs DEF X, Y
<1>4. Y > 0 => ValueOf(mp_mod(x, y)) = (X % Y) BY ModIs DEF X, Y
<1>5. X >= 0 => x.sign = ZPOS
    <2>1. x.sign \in {ZPOS, NEG} BY <1>1, SignedIs
    <2>2. x.sign = NEG => X < 0 BY NumbersIs DEF X
    <2> QED BY <1>1, <2>1, <2>2
<1>6. ASSUME X >= 0, NEW d \in Digit \ {0}
      PROVE  ValueOf(mp_div_d(x, d).q) = X \div d /\ mp_div_d(x, d).r = (X % d)
    <2>1. d \in Digit /\ d # 0 OBVIOUS
    <2> QED BY <1>5, <1>6, <2>1, DivDOfIs DEF X
<1>7. ASSUME X >= 0, NEW k \in 0 .. MaxExponent
      PROVE  /\ ValueOf(mp_div_2d(x, k).q) = X \div 2 ^ k
             /\ ValueOf(mp_div_2d(x, k).r) = (X % 2 ^ k)
    <2>1. k \in Nat BY MpiArithAssumption
    <2> QED BY <1>5, <1>7, <2>1, Div2dOfIs DEF X
<1>8. X # 0 => Failed(mp_mod_d(x, 0))
    <2>1. 0 \in Digit BY RadixIs
    <2> QED BY <2>1, ModDOfIs DEF X
<1>9. \A d \in Digit \ {0} : ValueOf(mp_mod_d(x, d)) = DigitRemainder(X, d) BY ModDOfIs DEF X
<1> QED BY <1>2, <1>3, <1>4, <1>6, <1>7, <1>8, <1>9 DEF QuotientsExact, Divides

(* Long division answers with the quotient and the remainder of the integers *)
(* for numbers of any length and digits of any width: the digits that        *)
(* s_mp_div guesses and takes back, the shortcuts for a power of two, and    *)
(* the remainder that mp_mod brings above zero.                              *)
THEOREM QuotientsExactHolds == LongSpec => []QuotientsExact
<1>1. LongInv => QuotientsExact
    <2> SUFFICES ASSUME LongInv PROVE QuotientsExact OBVIOUS
    <2>1. x \in Numbers /\ y \in Numbers BY DEF LongInv
    <2> QED BY <2>1, NumbersQuotients
<1> QED BY <1>1, LongInvHolds, PTL

-----------------------------------------------------------------------------
(* Powers modulo a number *)

LEMMA ModOf ==
    ASSUME NEW n \in Int, NEW d \in Nat, d > 0
    PROVE  /\ n \div d \in Int /\ (n % d) \in Nat /\ (n % d) < d
           /\ n = (n \div d) * d + (n % d)
<1>1. n \div d \in Int OBVIOUS
<1>2. (n % d) \in 0 .. d - 1 OBVIOUS
<1>3. n = (n \div d) * d + (n % d) OBVIOUS
<1> QED BY <1>1, <1>2, <1>3

LEMMA ModTimes ==
    ASSUME NEW a \in Int, NEW b \in Int, NEW m \in Nat, m > 0
    PROVE  ((a * b) % m) = (((a % m) * (b % m)) % m)
<1> DEFINE p == a \div m
           r == a % m
           q == b \div m
           s == b % m
           u == (r * s) \div m
           t == (r * s) % m
           w == p * b + r * q + u
<1>1. p \in Int /\ r \in Nat /\ a = p * m + r BY ModOf
<1>2. q \in Int /\ s \in Nat /\ b = q * m + s BY ModOf
<1> HIDE DEF p, q, r, s
<1>3. r * s \in Int BY <1>1, <1>2
<1>4. u \in Int /\ t \in Nat /\ t < m /\ r * s = u * m + t BY <1>3, ModOf
<1> HIDE DEF u, t
<1>5. w \in Int
    <2>1. p * b \in Int /\ r * q \in Int BY <1>1, <1>2
    <2> QED BY <1>4, <2>1
<1>6. a * b = w * m + t
    <2>1. a * b = (p * b) * m + r * b BY <1>1
    <2>2. r * b = (r * q) * m + r * s BY <1>1, <1>2
    <2>3. w * m = (p * b) * m + (r * q) * m + u * m BY <1>1, <1>2, <1>4
    <2> DEFINE e == (p * b) * m
               f == (r * q) * m
               g == u * m
    <2>4. e \in Int /\ f \in Int /\ g \in Int BY <1>1, <1>2, <1>4
    <2>5. a * b = e + (f + (g + t)) BY <1>4, <2>1, <2>2
    <2>6. w * m = (e + f) + g BY <2>3
    <2>7. t \in Int BY <1>4
    <2> HIDE DEF e, f, g, w
    <2>8. e + (f + (g + t)) = ((e + f) + g) + t BY <2>4, <2>7
    <2> QED BY <2>5, <2>6, <2>8
<1> HIDE DEF w
<1>7. a * b \in Int OBVIOUS
<1>8. ((a * b) % m) = t BY <1>4, <1>5, <1>6, <1>7, ModUnique
<1> QED BY <1>8 DEF t, r, s

LEMMA ModAgain ==
    ASSUME NEW n \in Int, NEW d \in Nat, d > 0
    PROVE  ((n % d) % d) = (n % d)
<1> DEFINE r == n % d
<1>1. r \in Nat /\ r < d BY ModOf
<1> HIDE DEF r
<1>2. r = 0 * d + r /\ 0 \in Int BY <1>1
<1>3. (r % d) = r BY <1>1, <1>2, ModUnique
<1> QED BY <1>3 DEF r

\* After j turns of a loop over the bits of d, s is the power of A to what
\* these bits stand for, b is the power to 2^j, and s is reduced unless no
\* bit was set.
PowerState(s, b, A, M, d, j) ==
    /\ (s % M) = (Pow(A, d % 2 ^ j) % M)
    /\ (b % M) = (Pow(A, 2 ^ j) % M)
    /\ s \in 0 .. M - 1 \/ (s = 1 /\ (d % 2 ^ j) = 0)

LEMMA PowerStateStarts ==
    ASSUME NEW A \in Int, NEW M \in Nat, M > 0, NEW d \in Nat, NEW b \in Int, (b % M) = (A % M)
    PROVE  PowerState(1, b, A, M, d, 0)
<1>1. 2 ^ 0 = 1 /\ (d % 1) = 0 OBVIOUS
<1>2. Pow(A, 0) = 1 /\ Pow(A, 0 + 1) = Pow(A, 0) * A BY PowIs
<1>3. Pow(A, 1) = A
    <2>1. 0 + 1 = 1 /\ 1 * A = A OBVIOUS
    <2> QED BY <1>2, <2>1
<1>4. Pow(A, d % 2 ^ 0) = 1 /\ Pow(A, 2 ^ 0) = A BY <1>1, <1>2, <1>3
<1> QED BY <1>1, <1>4 DEF PowerState

LEMMA PowerStateTurns ==
    ASSUME NEW A \in Int, NEW M \in Nat, M > 0, NEW d \in Nat, NEW j \in Nat,
           NEW s \in Int, NEW b \in Int, PowerState(s, b, A, M, d, j),
           NEW t \in Int, t = IF OddAfter(d, j) THEN (s * b) % M ELSE s,
           NEW c \in Int, c = (b * b) % M
    PROVE  PowerState(t, c, A, M, d, j + 1)
<1> DEFINE e == d % 2 ^ j
           f == d % 2 ^ (j + 1)
           h == 2 ^ j
           P == Pow(A, e)
           Q == Pow(A, h)
<1>1. h \in Nat /\ 2 ^ (j + 1) = h + h
    <2>1. h \in Nat /\ 2 ^ (j + 1) = 2 * h BY PowerPositive, PowerStep
    <2> HIDE DEF h
    <2> QED BY <2>1
<1>2. e \in Nat /\ f = IF OddAfter(d, j) THEN e + h ELSE e BY BitSplit
<1> HIDE DEF e, f, h
<1>3. P \in Int /\ Q \in Int BY <1>1, <1>2, PowIs
<1>4. Pow(A, h + h) = Q * Q /\ Pow(A, e + h) = P * Q BY <1>1, <1>2, PowSum
<1>5. (s % M) = (P % M) /\ (b % M) = (Q % M) /\ (s \in 0 .. M - 1 \/ (s = 1 /\ e = 0))
    BY DEF PowerState, e, h
<1> HIDE DEF P, Q
<1>6. ((b * b) % M) = ((Q * Q) % M) /\ ((s * b) % M) = ((P * Q) % M)
    <2>1. ((b * b) % M) = (((b % M) * (b % M)) % M) BY ModTimes
    <2>2. ((Q * Q) % M) = (((Q % M) * (Q % M)) % M) BY <1>3, ModTimes
    <2>3. ((s * b) % M) = (((s % M) * (b % M)) % M) BY ModTimes
    <2>4. ((P * Q) % M) = (((P % M) * (Q % M)) % M) BY <1>3, ModTimes
    <2> QED BY <1>5, <2>1, <2>2, <2>3, <2>4
<1>7. (c % M) = (Pow(A, 2 ^ (j + 1)) % M)
    <2>1. b * b \in Int OBVIOUS
    <2>2. (c % M) = ((b * b) % M) BY <2>1, ModAgain
    <2> QED BY <1>1, <1>4, <1>6, <2>2
<1>8. CASE OddAfter(d, j)
    <2>1. s * b \in Int OBVIOUS
    <2>2. (t % M) = ((s * b) % M) BY <1>8, <2>1, ModAgain
    <2>3. (t % M) = (Pow(A, f) % M) BY <1>2, <1>4, <1>6, <1>8, <2>2
    <2>4. t \in Nat /\ t < M BY <1>8, <2>1, ModOf
    <2>5. t \in 0 .. M - 1 BY <2>4
    <2> QED BY <1>7, <2>3, <2>5 DEF PowerState, f
<1>9. CASE ~OddAfter(d, j)
    <2>1. t = s /\ f = e BY <1>2, <1>9
    <2>2. (t % M) = (Pow(A, f) % M) BY <1>5, <2>1 DEF P
    <2>3. t \in 0 .. M - 1 \/ (t = 1 /\ f = 0) BY <1>5, <2>1
    <2> QED BY <1>7, <2>2, <2>3 DEF PowerState, f
<1> QED BY <1>8, <1>9

LEMMA PowerStateEnds ==
    ASSUME NEW A \in Int, NEW M \in Nat, M > 0, NEW d \in Nat, d > 0 \/ M > 1,
           NEW s \in Int, NEW b \in Int, PowerState(s, b, A, M, d, BitCount(d))
    PROVE  s = (Pow(A, d) % M)
<1> DEFINE N == BitCount(d)
           m == 2 ^ N
<1>1. N \in Nat /\ d < m BY BitCountIs
<1>2. m \in Nat /\ m > 0 BY <1>1, PowerPositive
<1> HIDE DEF m
<1>3. (d % m) = d BY <1>1, <1>2
<1>4. (d % 2 ^ N) = d BY <1>3 DEF m
<1>5. (s % M) = (Pow(A, d) % M) /\ (s \in 0 .. M - 1 \/ (s = 1 /\ d = 0))
    BY <1>4 DEF PowerState
<1>6. s \in 0 .. M - 1 BY <1>5
<1>7. (s % M) = s
    <2>1. s \in Nat /\ s < M /\ s = 0 * M + s /\ 0 \in Int BY <1>6
    <2> QED BY <2>1, ModUnique
<1> QED BY <1>5, <1>7

(* The loop of mp_exptmod_d. *)
LEMMA ModLoopIs ==
    ASSUME NEW a \in Numbers, NEW d \in Nat, NEW m \in Numbers, ValueOf(m) > 0
    PROVE  /\ ModLoop(mp_set(1), a, d, m) \in Numbers
           /\ d > 0 \/ ValueOf(m) > 1 =>
                ValueOf(ModLoop(mp_set(1), a, d, m)) = (Pow(ValueOf(a), d) % ValueOf(m))
<1> DEFINE N == BitCount(d)
           A == ValueOf(a)
           M == ValueOf(m)
           first == [s |-> mp_set(1), b |-> a]
           Step(v, i) == [v EXCEPT
                            !.s = IF OddAfter(d, i - 1) THEN mp_mod(s_mp_mul(@, v.b), m) ELSE @,
                            !.b = mp_mod(s_mp_sqr(@), m)]
           Body(h) == [i \in 0 .. N |-> IF i = 0 THEN first ELSE Step(h[i - 1], i)]
           c == CHOOSE h : h = Body(h)
           V == [s : Numbers, b : Numbers]
           I == [j \in Nat |-> {v \in V : PowerState(ValueOf(v.s), ValueOf(v.b), A, M, d, j)}]
           g == [v \in V \X Nat |-> Step(v[1], v[2])]
<1>n. N \in Nat BY BitCountIs
<1>0. ModLoop(mp_set(1), a, d, m) = c[N].s BY DEF ModLoop
<1>1. A \in Int /\ M \in Nat /\ M > 0
    <2>1. a \in Signed /\ m \in Signed BY NumbersIs
    <2>2. A \in Int /\ M \in Int BY <2>1, SignedIs
    <2> QED BY <2>2
<1>2. \A j \in Nat : I[j] = {v \in V : PowerState(ValueOf(v.s), ValueOf(v.b), A, M, d, j)}
    OBVIOUS
<1> HIDE DEF N, A, M
<1>L1. first \in I[0]
    <2>1. 1 \in Digit BY RadixIs
    <2>2. mp_set(1) \in Numbers /\ ValueOf(mp_set(1)) = 1 BY <2>1, SetIs
    <2>3. first \in V /\ first.s = mp_set(1) /\ first.b = a BY <2>2
    <2>4. PowerState(1, A, A, M, d, 0) BY <1>1, PowerStateStarts
    <2>5. ValueOf(a) = A BY DEF A
    <2> HIDE DEF first, V, I
    <2>6. 0 \in Nat OBVIOUS
    <2> QED BY <1>2, <2>2, <2>3, <2>4, <2>5, <2>6
<1>L2. ASSUME NEW j \in 0 .. N - 1, NEW v \in I[j] PROVE Step(v, j + 1) \in I[j + 1]
    <2> DEFINE i == j + 1
               w == Step(v, i)
               p == mp_mul(v.s, v.b)
               q == mp_sqr(v.b)
    <2>1. j \in Nat /\ i \in Nat /\ i - 1 = j BY <1>n
    <2>2. v \in V /\ PowerState(ValueOf(v.s), ValueOf(v.b), A, M, d, j)
        <3> HIDE DEF I, V
        <3> QED BY <1>2, <2>1
    <2>3. v.s \in Numbers /\ v.b \in Numbers BY <2>2
    <2>4. v.s \in Signed /\ v.b \in Signed BY <2>3, NumbersIs
    <2>5. ValueOf(v.s) \in Int /\ ValueOf(v.b) \in Int BY <2>4, SignedIs
    <2>6. w.s = (IF OddAfter(d, j) THEN mp_mod(p, m) ELSE v.s) /\ w.b = mp_mod(q, m)
        BY <2>1, <2>2 DEF s_mp_mul, s_mp_sqr
    <2>7. w \in [s : {w.s}, b : {w.b}]
        <3> DEFINE e == IF OddAfter(d, i - 1) THEN mp_mod(s_mp_mul(v.s, v.b), m) ELSE v.s
                   f == mp_mod(s_mp_sqr(v.b), m)
        <3>1. w = [v EXCEPT !.s = e, !.b = f] OBVIOUS
        <3>2. v \in [s : Numbers, b : Numbers] BY <2>2
        <3> HIDE DEF w, e, f
        <3> QED BY <3>1, <3>2
    <2> HIDE DEF w, i, p, q, I, V
    <2>8. p \in Numbers /\ ValueOf(p) = ValueOf(v.s) * ValueOf(v.b) BY <2>4, MulIs DEF p
    <2>9. q \in Numbers /\ ValueOf(q) = ValueOf(v.b) * ValueOf(v.b) BY <2>4, SqrIs DEF q
    <2>10. M = ValueOf(m) BY DEF M
    <2>11. mp_mod(p, m) \in Numbers /\ ValueOf(mp_mod(p, m)) = (ValueOf(p) % M)
        BY <1>1, <2>8, <2>10, ModIs
    <2>12. mp_mod(q, m) \in Numbers /\ ValueOf(mp_mod(q, m)) = (ValueOf(q) % M)
        BY <1>1, <2>9, <2>10, ModIs
    <2>13. w.s \in Numbers /\ w.b \in Numbers BY <2>3, <2>6, <2>11, <2>12
    <2>14. ValueOf(w.s) \in Int /\ ValueOf(w.b) \in Int BY <2>13, NumbersIs, SignedIs
    <2>15. /\ ValueOf(w.s) = IF OddAfter(d, j) THEN (ValueOf(v.s) * ValueOf(v.b)) % M
                             ELSE ValueOf(v.s)
           /\ ValueOf(w.b) = (ValueOf(v.b) * ValueOf(v.b)) % M
        BY <2>6, <2>8, <2>9, <2>11, <2>12
    <2>16. PowerState(ValueOf(w.s), ValueOf(w.b), A, M, d, j + 1)
        BY <1>1, <2>1, <2>2, <2>5, <2>14, <2>15, PowerStateTurns
    <2>17. w \in V BY <2>7, <2>13 DEF V
    <2>18. w \in I[i] BY <1>2, <2>1, <2>16, <2>17 DEF i
    <2> QED BY <2>18 DEF w, i
<1>L3. \A i \in 0 .. N : I[i] \subseteq V
    <2>1. \A i \in 0 .. N : i \in Nat BY <1>n
    <2> HIDE DEF I, V
    <2> QED BY <1>2, <2>1
<1>L4. \A v \in V, i \in Nat : g[<<v, i>>] = Step(v, i)
    <2> HIDE DEF Step, V, I
    <2> QED OBVIOUS
<1>L5. PICK h \in [0 .. N -> V] :
         \A i \in 0 .. N : h[i] \in I[i] /\ h[i] = IF i = 0 THEN first ELSE g[<<h[i - 1], i>>]
    <2> HIDE DEF g, I, first, V, Step, N
    <2>1. ASSUME NEW i \in 0 .. N - 1, NEW v \in I[i] PROVE g[<<v, i + 1>>] \in I[i + 1]
        <3>1. i \in 0 .. N /\ i + 1 \in Nat BY <1>n
        <3>2. v \in V BY <1>L3, <3>1
        <3> QED BY <1>L2, <1>L4, <3>1, <3>2
    <2>2. StaysIn(I, V, first, g, N) BY <1>L1, <1>L3, <2>1 DEF StaysIn
    <2>3. \E q \in [0 .. N -> V] : RecursesUpto(q, first, g, N) /\ \A i \in 0 .. N : q[i] \in I[i]
        BY <1>n, <2>2, UptoStates
    <2> QED BY <2>3 DEF RecursesUpto
<1>L6. ASSUME NEW i \in 0 .. N PROVE h[i] = IF i = 0 THEN first ELSE Step(h[i - 1], i)
    <2> HIDE DEF g, I, first, V, Step, N
    <2>1. CASE i = 0 BY <1>L5, <2>1
    <2>2. CASE i # 0
        <3>1. i - 1 \in 0 .. N /\ i \in Nat BY <1>n, <2>2
        <3>2. h[i - 1] \in V BY <1>L5, <3>1
        <3> QED BY <1>L4, <1>L5, <2>2, <3>1, <3>2
    <2> QED BY <2>1, <2>2
<1> HIDE DEF g
<1>L7. h = Body(h)
    <2> DEFINE t == Body(h)
    <2>1. \A i \in 0 .. N : t[i] = IF i = 0 THEN first ELSE Step(h[i - 1], i) OBVIOUS
    <2>2. t = [i \in 0 .. N |-> t[i]] /\ h = [i \in 0 .. N |-> h[i]] OBVIOUS
    <2> HIDE DEF t, Step, first, I, V, N
    <2>3. \A i \in 0 .. N : h[i] = t[i] BY <1>L6, <2>1
    <2>4. h = t BY <2>2, <2>3
    <2> QED BY <2>4 DEF t, Step, first, N
<1>L8. c = Body(c) BY <1>L7
<1> HIDE DEF c
<1>L9. \A i \in 0 .. N : c[i] = IF i = 0 THEN first ELSE Step(c[i - 1], i)
    <2> DEFINE t == Body(c)
    <2>1. \A i \in 0 .. N : t[i] = IF i = 0 THEN first ELSE Step(c[i - 1], i) OBVIOUS
    <2>2. c = t BY <1>L8
    <2> HIDE DEF t, Step, first, N
    <2> QED BY <2>1, <2>2
<1> HIDE DEF Body, I, V, first, Step, N
<1>La. \A i \in 0 .. N : c[i] \in I[i]
    <2> DEFINE P == {i \in Nat : c[i] \in I[i]}
    <2>1. 0 \in P
        <3>1. 0 \in 0 .. N BY <1>n
        <3> QED BY <1>L1, <1>L9, <3>1
    <2>2. ASSUME NEW i \in 0 .. N - 1, i \in P PROVE i + 1 \in P
        <3>1. i + 1 \in 0 .. N /\ i + 1 \in Nat /\ i + 1 # 0 /\ (i + 1) - 1 = i BY <1>n
        <3>2. c[i] \in I[i] BY <2>2
        <3>3. c[i + 1] = Step(c[i], i + 1) BY <1>L9, <3>1
        <3>4. Step(c[i], i + 1) \in I[i + 1] BY <1>L2, <3>2
        <3> QED BY <3>1, <3>3, <3>4
    <2> HIDE DEF P
    <2>3. \A i \in 0 .. N : i \in P BY <1>n, <2>1, <2>2, UptoInduct
    <2> QED BY <2>3 DEF P
<1>3. c[N] \in I[N]
    <2>1. N \in 0 .. N BY <1>n
    <2> QED BY <1>La, <2>1
<1>4. c[N] \in V /\ PowerState(ValueOf(c[N].s), ValueOf(c[N].b), A, M, d, N)
    BY <1>2, <1>3, <1>n
<1>5. c[N].s \in Numbers /\ c[N].b \in Numbers BY <1>4 DEF V
<1>6. ValueOf(c[N].s) \in Int /\ ValueOf(c[N].b) \in Int BY <1>5, NumbersIs, SignedIs
<1>7. d > 0 \/ M > 1 => ValueOf(c[N].s) = (Pow(A, d) % M)
    BY <1>1, <1>4, <1>6, PowerStateEnds DEF N
<1> QED BY <1>0, <1>5, <1>7 DEF A, M

\* s_mp_reduce's last loop ends with the remainder.
LEMMA BackOffModulusIs ==
    ASSUME NEW a \in Numbers, a.sign = ZPOS, NEW m \in Numbers, ValueOf(m) > 0
    PROVE  /\ BackOffModulus(a, m) \in Numbers /\ BackOffModulus(a, m).sign = ZPOS
           /\ ValueOf(BackOffModulus(a, m)) = (ValueOf(a) % ValueOf(m))
<1> DEFINE N == MagnitudeOf(a.dp)
           M == ValueOf(m)
           first == a
           Step(v, i) == IF mp_cmp(v, m) = MP_LT THEN v ELSE s_mp_sub(v, m)
           Body(h) == [i \in 0 .. N |-> IF i = 0 THEN first ELSE Step(h[i - 1], i)]
           c == CHOOSE h : h = Body(h)
           V == {v \in Numbers : v.sign = ZPOS}
           I == [j \in Nat |-> {v \in V : /\ (ValueOf(v) % M) = (N % M)
                                          /\ ValueOf(v) < M \/ ValueOf(v) <= N - j}]
           g == [v \in V \X Nat |-> Step(v[1], v[2])]
<1>0. BackOffModulus(a, m) = c[CHOOSE n \in 0 .. N : mp_cmp(c[n], m) = MP_LT]
    BY DEF BackOffModulus
<1>1. a \in Signed /\ m \in Signed /\ ZPOS # NEG
    <2>1. ZPOS # NEG BY DEF ZPOS, NEG
    <2> QED BY <2>1, NumbersIs
<1>n. N \in Nat /\ ValueOf(a) = N BY <1>1, SignedIs
<1>2. M \in Nat /\ M > 0 /\ m.sign = ZPOS /\ M = MagnitudeOf(m.dp)
    <2>1. M \in Int /\ m.sign \in {ZPOS, NEG} BY <1>1, SignedIs
    <2>2. m.sign = NEG => M < 0 BY NumbersIs
    <2>3. m.sign = ZPOS BY <2>1, <2>2
    <2> QED BY <1>1, <2>1, <2>3, SignedIs
<1>3. \A j \in Nat : I[j] = {v \in V : /\ (ValueOf(v) % M) = (N % M)
                                       /\ ValueOf(v) < M \/ ValueOf(v) <= N - j}
    OBVIOUS
<1>4. M = ValueOf(m) OBVIOUS
<1> HIDE DEF N, M
<1>5. ASSUME NEW v \in V
      PROVE  /\ ValueOf(v) \in Nat /\ ValueOf(v) = MagnitudeOf(v.dp)
             /\ mp_cmp(v, m) = MP_LT <=> ValueOf(v) < M
    <2>1. v \in Numbers /\ v \in Signed /\ v.sign = ZPOS BY NumbersIs
    <2>2. ValueOf(v) = MagnitudeOf(v.dp) /\ MagnitudeOf(v.dp) \in Nat BY <2>1, SignedIs
    <2>3. mp_cmp(v, m) = Sgn(ValueOf(v) - M) BY <1>4, <2>1, CompareIs
    <2>4. mp_cmp(v, m) = MP_LT <=> ValueOf(v) < M
        <3> DEFINE n == ValueOf(v)
        <3>1. n \in Nat /\ mp_cmp(v, m) = Sgn(n - M) BY <2>2, <2>3
        <3> HIDE DEF n
        <3>2. Sgn(n - M) = MP_LT <=> n < M BY <1>2, <3>1 DEF Sgn, MP_LT
        <3> QED BY <3>1, <3>2 DEF n
    <2> QED BY <2>2, <2>4
<1>L1. first \in I[0]
    <2>1. first \in V /\ ValueOf(first) = N BY <1>n
    <2>2. ValueOf(first) <= N - 0 BY <1>n, <2>1
    <2> HIDE DEF first, V, I
    <2>3. 0 \in Nat OBVIOUS
    <2> QED BY <1>3, <2>1, <2>2, <2>3
<1>L2. ASSUME NEW j \in 0 .. N - 1, NEW v \in I[j] PROVE Step(v, j + 1) \in I[j + 1]
    <2> DEFINE i == j + 1
               w == s_mp_sub(v, m)
               n == ValueOf(v)
    <2>1. j \in Nat /\ i \in Nat /\ i = j + 1 BY <1>n
    <2>2. v \in V /\ (n % M) = (N % M) /\ (n < M \/ n <= N - j)
        <3> HIDE DEF I, V
        <3> QED BY <1>3, <2>1
    <2>3. n \in Nat /\ n = MagnitudeOf(v.dp) /\ (mp_cmp(v, m) = MP_LT <=> n < M)
        BY <1>5, <2>2
    <2> HIDE DEF I, i, n
    <2>4. CASE n < M
        <3>1. Step(v, j + 1) = v BY <2>3, <2>4
        <3>2. v \in I[i]
            <4> HIDE DEF V
            <4> QED BY <1>3, <2>1, <2>2, <2>4 DEF n
        <3> HIDE DEF Step
        <3> QED BY <2>1, <3>1, <3>2
    <2>5. CASE ~(n < M)
        <3>1. Step(v, j + 1) = w BY <2>3, <2>5
        <3>2. v \in Signed /\ v.sign = ZPOS BY <2>2, NumbersIs
        <3>3. w = s_mp_sub_3arg(v, m) BY DEF s_mp_sub, s_mp_sub_3arg
        <3>4. w \in Signed /\ w.sign = ZPOS /\ ValueOf(w) = n - M
            <4>1. MagnitudeOf(v.dp) >= MagnitudeOf(m.dp) BY <1>2, <2>3, <2>5
            <4> HIDE DEF w
            <4> QED BY <1>1, <1>2, <2>3, <3>2, <3>3, <4>1, SubSame
        <3> HIDE DEF w
        <3>5. w \in V BY <3>4 DEF Numbers
        <3>6. ((n - M) % M) = (n % M)
            <4> DEFINE q == n \div M
                       r == n % M
            <4>1. q \in Int /\ r \in Nat /\ r < M /\ n = q * M + r BY <1>2, <2>3, ModOf
            <4> HIDE DEF q, r
            <4>2. n - M = (q - 1) * M + r
                <5>1. (q - 1) * M = q * M - M BY <1>2, <4>1
                <5> DEFINE u == q * M
                <5>2. u \in Int /\ n = u + r /\ (q - 1) * M = u - M BY <1>2, <4>1, <5>1
                <5> HIDE DEF u
                <5> QED BY <1>2, <2>3, <4>1, <5>2
            <4>3. n - M \in Int /\ q - 1 \in Int BY <1>2, <2>3, <4>1
            <4>4. ((n - M) % M) = r BY <1>2, <4>1, <4>2, <4>3, ModUnique
            <4> QED BY <4>4 DEF r
        <3>7. n - M <= N - i BY <1>n, <1>2, <2>1, <2>2, <2>3, <2>5
        <3>8. w \in I[i]
            <4> HIDE DEF V
            <4> QED BY <1>3, <2>1, <2>2, <3>4, <3>5, <3>6, <3>7
        <3> HIDE DEF Step
        <3> QED BY <2>1, <3>1, <3>8
    <2> QED BY <2>4, <2>5
<1>L3. \A i \in 0 .. N : I[i] \subseteq V
    <2>1. \A i \in 0 .. N : i \in Nat BY <1>n
    <2> HIDE DEF I, V
    <2> QED BY <1>3, <2>1
<1>L4. \A v \in V, i \in Nat : g[<<v, i>>] = Step(v, i)
    <2> HIDE DEF Step, V, I
    <2> QED OBVIOUS
<1>L5. PICK h \in [0 .. N -> V] :
         \A i \in 0 .. N : h[i] \in I[i] /\ h[i] = IF i = 0 THEN first ELSE g[<<h[i - 1], i>>]
    <2> HIDE DEF g, I, first, V, Step, N
    <2>1. ASSUME NEW i \in 0 .. N - 1, NEW v \in I[i] PROVE g[<<v, i + 1>>] \in I[i + 1]
        <3>1. i \in 0 .. N /\ i + 1 \in Nat BY <1>n
        <3>2. v \in V BY <1>L3, <3>1
        <3> QED BY <1>L2, <1>L4, <3>1, <3>2
    <2>2. StaysIn(I, V, first, g, N) BY <1>L1, <1>L3, <2>1 DEF StaysIn
    <2>3. \E q \in [0 .. N -> V] : RecursesUpto(q, first, g, N) /\ \A i \in 0 .. N : q[i] \in I[i]
        BY <1>n, <2>2, UptoStates
    <2> QED BY <2>3 DEF RecursesUpto
<1>L6. ASSUME NEW i \in 0 .. N PROVE h[i] = IF i = 0 THEN first ELSE Step(h[i - 1], i)
    <2> HIDE DEF g, I, first, V, Step, N
    <2>1. CASE i = 0 BY <1>L5, <2>1
    <2>2. CASE i # 0
        <3>1. i - 1 \in 0 .. N /\ i \in Nat BY <1>n, <2>2
        <3>2. h[i - 1] \in V BY <1>L5, <3>1
        <3> QED BY <1>L4, <1>L5, <2>2, <3>1, <3>2
    <2> QED BY <2>1, <2>2
<1> HIDE DEF g
<1>L7. h = Body(h)
    <2> DEFINE t == Body(h)
    <2>1. \A i \in 0 .. N : t[i] = IF i = 0 THEN first ELSE Step(h[i - 1], i) OBVIOUS
    <2>2. t = [i \in 0 .. N |-> t[i]] /\ h = [i \in 0 .. N |-> h[i]] OBVIOUS
    <2> HIDE DEF t, Step, first, I, V, N
    <2>3. \A i \in 0 .. N : h[i] = t[i] BY <1>L6, <2>1
    <2>4. h = t BY <2>2, <2>3
    <2> QED BY <2>4 DEF t, Step, first, N
<1>L8. c = Body(c) BY <1>L7
<1> HIDE DEF c
<1>L9. \A i \in 0 .. N : c[i] = IF i = 0 THEN first ELSE Step(c[i - 1], i)
    <2> DEFINE t == Body(c)
    <2>1. \A i \in 0 .. N : t[i] = IF i = 0 THEN first ELSE Step(c[i - 1], i) OBVIOUS
    <2>2. c = t BY <1>L8
    <2> HIDE DEF t, Step, first, N
    <2> QED BY <2>1, <2>2
<1> HIDE DEF Body, I, V, first, Step, N
<1>La. \A i \in 0 .. N : c[i] \in I[i]
    <2> DEFINE P == {i \in Nat : c[i] \in I[i]}
    <2>1. 0 \in P
        <3>1. 0 \in 0 .. N BY <1>n
        <3> QED BY <1>L1, <1>L9, <3>1
    <2>2. ASSUME NEW i \in 0 .. N - 1, i \in P PROVE i + 1 \in P
        <3>1. i + 1 \in 0 .. N /\ i + 1 \in Nat /\ i + 1 # 0 /\ (i + 1) - 1 = i BY <1>n
        <3>2. c[i] \in I[i] BY <2>2
        <3>3. c[i + 1] = Step(c[i], i + 1) BY <1>L9, <3>1
        <3>4. Step(c[i], i + 1) \in I[i + 1] BY <1>L2, <3>2
        <3> QED BY <3>1, <3>3, <3>4
    <2> HIDE DEF P
    <2>3. \A i \in 0 .. N : i \in P BY <1>n, <2>1, <2>2, UptoInduct
    <2> QED BY <2>3 DEF P
<1> DEFINE e == CHOOSE n \in 0 .. N : mp_cmp(c[n], m) = MP_LT
<1>6. \A n \in 0 .. N : c[n] \in V /\ (ValueOf(c[n]) % M) = (N % M)
                        /\ (ValueOf(c[n]) < M \/ ValueOf(c[n]) <= N - n)
    <2> SUFFICES ASSUME NEW n \in 0 .. N
                 PROVE  c[n] \in V /\ (ValueOf(c[n]) % M) = (N % M)
                        /\ (ValueOf(c[n]) < M \/ ValueOf(c[n]) <= N - n)
        OBVIOUS
    <2>1. n \in Nat /\ c[n] \in I[n] BY <1>n, <1>La
    <2> QED BY <1>3, <2>1
<1>7. e \in 0 .. N /\ mp_cmp(c[e], m) = MP_LT
    <2>1. N \in 0 .. N BY <1>n
    <2>2. c[N] \in V /\ (ValueOf(c[N]) < M \/ ValueOf(c[N]) <= N - N) BY <1>6, <2>1
    <2>3. ValueOf(c[N]) \in Nat BY <1>5, <2>2
    <2>4. ValueOf(c[N]) < M BY <1>n, <1>2, <2>2, <2>3
    <2>5. mp_cmp(c[N], m) = MP_LT BY <1>5, <2>2, <2>4
    <2> QED BY <2>1, <2>5
<1>8. BackOffModulus(a, m) = c[e] BY <1>0
<1> HIDE DEF e
<1>9. c[e] \in V /\ (ValueOf(c[e]) % M) = (N % M) BY <1>6, <1>7
<1>10. ValueOf(c[e]) \in Nat /\ ValueOf(c[e]) < M BY <1>5, <1>7, <1>9
<1>11. (ValueOf(c[e]) % M) = ValueOf(c[e])
    <2> DEFINE n == ValueOf(c[e])
    <2>1. n \in Nat /\ n < M BY <1>10
    <2> HIDE DEF n
    <2>2. n = 0 * M + n /\ 0 \in Int BY <1>2, <2>1
    <2>3. (n % M) = n BY <1>2, <2>1, <2>2, ModUnique
    <2> QED BY <2>3 DEF n
<1>12. c[e] \in Numbers /\ c[e].sign = ZPOS BY <1>9 DEF V
<1> QED BY <1>n, <1>4, <1>8, <1>9, <1>11, <1>12

\* What s_mp_reduce divides by and with: W and V are the weights of the digits
\* it leaves out, mu the quotient of W * V by the modulus, and q3 the estimate.
Estimate(a, M, W, V, mu, q1, q3) ==
    /\ a \in Nat /\ M \in Nat /\ W \in Nat /\ V \in Nat
    /\ M >= W /\ W > 0 /\ V > 0 /\ a < W * V
    /\ mu = (W * V) \div M
    /\ q1 = a \div W
    /\ q3 = (q1 * mu) \div V

LEMMA EstimateParts ==
    ASSUME NEW a, NEW M, NEW W, NEW V, NEW mu, NEW q1, NEW q3,
           Estimate(a, M, W, V, mu, q1, q3)
    PROVE  /\ mu \in Nat /\ mu * M <= W * V /\ W * V < (mu + 1) * M
           /\ q1 \in Nat /\ q1 * W <= a /\ a < (q1 + 1) * W
           /\ q3 \in Nat /\ q3 * V <= q1 * mu /\ q1 * mu < (q3 + 1) * V
<1> DEFINE U == W * V
<1>1. a \in Nat /\ M \in Nat /\ W \in Nat /\ V \in Nat /\ M > 0 /\ W > 0 /\ V > 0
    BY DEF Estimate
<1>2. U \in Nat BY <1>1
<1>3. mu = U \div M /\ q1 = a \div W /\ q3 = (q1 * mu) \div V BY DEF Estimate
<1> HIDE DEF U
<1>4. mu \in Nat /\ mu * M <= U /\ U < (mu + 1) * M
    <2> DEFINE r == U % M
    <2>1. mu \in Nat /\ r \in Nat /\ r < M /\ U = mu * M + r BY <1>1, <1>2, <1>3, DivisionIs
    <2> HIDE DEF r
    <2>2. (mu + 1) * M = mu * M + M /\ mu * M \in Nat BY <1>1, <2>1
    <2> DEFINE p == mu * M
    <2>3. p \in Nat /\ U = p + r /\ (mu + 1) * M = p + M BY <2>1, <2>2
    <2> HIDE DEF p
    <2>4. p <= U /\ U < p + M BY <1>1, <1>2, <2>1, <2>3
    <2> QED BY <2>1, <2>3, <2>4 DEF p
<1>5. q1 \in Nat /\ q1 * W <= a /\ a < (q1 + 1) * W
    <2> DEFINE r == a % W
    <2>1. q1 \in Nat /\ r \in Nat /\ r < W /\ a = q1 * W + r BY <1>1, <1>3, DivisionIs
    <2> HIDE DEF r
    <2>2. (q1 + 1) * W = q1 * W + W /\ q1 * W \in Nat BY <1>1, <2>1
    <2> DEFINE p == q1 * W
    <2>3. p \in Nat /\ a = p + r /\ (q1 + 1) * W = p + W BY <2>1, <2>2
    <2> HIDE DEF p
    <2>4. p <= a /\ a < p + W BY <1>1, <2>1, <2>3
    <2> QED BY <2>1, <2>3, <2>4 DEF p
<1> DEFINE Z == q1 * mu
<1>6. Z \in Nat BY <1>4, <1>5
<1>7. q3 = Z \div V BY <1>3
<1> HIDE DEF Z
<1>8. q3 \in Nat /\ q3 * V <= Z /\ Z < (q3 + 1) * V
    <2> DEFINE r == Z % V
    <2>1. q3 \in Nat /\ r \in Nat /\ r < V /\ Z = q3 * V + r BY <1>1, <1>6, <1>7, DivisionIs
    <2> HIDE DEF r
    <2>2. (q3 + 1) * V = q3 * V + V /\ q3 * V \in Nat BY <1>1, <2>1
    <2> DEFINE p == q3 * V
    <2>3. p \in Nat /\ Z = p + r /\ (q3 + 1) * V = p + V BY <2>1, <2>2
    <2> HIDE DEF p
    <2>4. p <= Z /\ Z < p + V BY <1>1, <1>6, <2>1, <2>3
    <2> QED BY <2>1, <2>3, <2>4 DEF p
<1> QED BY <1>4, <1>5, <1>8 DEF U, Z

LEMMA LeTimes ==
    ASSUME NEW a \in Nat, NEW b \in Nat, NEW c \in Nat, c > 0
    PROVE  /\ a * c <= b * c => a <= b
           /\ a * c < b * c => a < b
<1>1. ASSUME a > b PROVE a * c > b * c
    <2>1. a * c >= (b + 1) * c BY <1>1
    <2>2. (b + 1) * c = b * c + c OBVIOUS
    <2> DEFINE p == a * c
               q == b * c
    <2>3. p \in Nat /\ q \in Nat /\ p >= q + c BY <2>1, <2>2
    <2> HIDE DEF p, q
    <2>4. p > q BY <2>3
    <2> QED BY <2>4 DEF p, q
<1>2. ASSUME a = b PROVE a * c = b * c BY <1>2
<1> DEFINE p == a * c
           q == b * c
<1>3. p \in Nat /\ q \in Nat OBVIOUS
<1>4. (a > b => p > q) /\ (a = b => p = q) BY <1>1, <1>2
<1> HIDE DEF p, q
<1>5. (p <= q => a <= b) /\ (p < q => a < b) BY <1>3, <1>4
<1> QED BY <1>5 DEF p, q

\* Barrett's estimate is never above the quotient, and at most two below it.
LEMMA EstimateIs ==
    ASSUME NEW a, NEW M, NEW W, NEW V, NEW mu, NEW q1, NEW q3,
           Estimate(a, M, W, V, mu, q1, q3)
    PROVE  q3 \in Nat /\ q3 * M <= a /\ a < (q3 + 3) * M
<1> DEFINE U == W * V
           Z == q1 * mu
<1>1. a \in Nat /\ M \in Nat /\ W \in Nat /\ V \in Nat /\ M > 0 /\ W > 0 /\ V > 0
      /\ M >= W /\ a < U
    BY DEF Estimate
<1>2. /\ mu \in Nat /\ mu * M <= U /\ U < (mu + 1) * M
      /\ q1 \in Nat /\ q1 * W <= a /\ a < (q1 + 1) * W
      /\ q3 \in Nat /\ q3 * V <= Z /\ Z < (q3 + 1) * V
    BY EstimateParts
<1>3. U \in Nat /\ Z \in Nat /\ U > 0 BY <1>1, <1>2
<1>4. q3 * M <= a
    <2>1. (q3 * V) * (M * W) <= Z * (M * W)
        <3>1. q3 * V \in Nat /\ M * W \in Nat /\ M * W <= M * W BY <1>1, <1>2
        <3> HIDE DEF Z
        <3> QED BY <1>2, <1>3, <3>1, LessTimes
    <2>2. Z * (M * W) = (q1 * W) * (mu * M) BY <1>1, <1>2
    <2>3. (q1 * W) * (mu * M) <= a * U
        <3>1. q1 * W \in Nat /\ mu * M \in Nat BY <1>1, <1>2
        <3> HIDE DEF U
        <3> QED BY <1>1, <1>2, <1>3, <3>1, LessTimes
    <2>4. (q3 * V) * (M * W) = (q3 * M) * U BY <1>1, <1>2
    <2> DEFINE p == q3 * M
    <2>5. p \in Nat BY <1>1, <1>2
    <2>6. p * U <= a * U
        <3> DEFINE e == p * U
                   f == Z * (M * W)
                   h == a * U
        <3>1. e \in Nat /\ f \in Nat /\ h \in Nat /\ e <= f /\ f <= h
            <4>1. M * W \in Nat BY <1>1
            <4>2. e \in Nat /\ f \in Nat /\ h \in Nat BY <1>1, <1>3, <2>5, <4>1
            <4> QED BY <2>1, <2>2, <2>3, <2>4, <4>2
        <3> HIDE DEF e, f, h
        <3>2. e <= h BY <3>1
        <3> QED BY <3>2 DEF e, h
    <2> HIDE DEF p, U
    <2>7. p <= a BY <1>1, <1>3, <2>5, <2>6, LeTimes
    <2> QED BY <2>7 DEF p
<1>5. q1 <= V - 1
    <2>1. q1 * W < V * W
        <3> DEFINE e == q1 * W
        <3>1. e \in Nat /\ e <= a /\ U = V * W BY <1>1, <1>2
        <3> HIDE DEF e, U
        <3>2. e < U BY <1>1, <1>3, <3>1
        <3> QED BY <3>1, <3>2 DEF e
    <2>2. q1 < V BY <1>1, <1>2, <2>1, LeTimes
    <2> QED BY <1>1, <1>2, <2>2
<1>6. mu <= V
    <2>1. mu * W <= mu * M BY <1>1, <1>2, LessTimes
    <2>2. mu * W <= V * W
        <3> DEFINE e == mu * W
                   f == mu * M
        <3>1. e \in Nat /\ f \in Nat /\ e <= f /\ f <= U /\ U = V * W BY <1>1, <1>2, <2>1
        <3> HIDE DEF e, f, U
        <3>2. e <= U BY <1>3, <3>1
        <3> QED BY <3>1, <3>2 DEF e
    <2> QED BY <1>1, <1>2, <2>2, LeTimes
<1>7. (q1 + 1) * (mu + 1) < (q3 + 3) * V
    <2>1. (q1 + 1) * (mu + 1) = Z + q1 + mu + 1 BY <1>1, <1>2
    <2> DEFINE e == q3 * V
    <2>2. e \in Nat /\ (q3 + 1) * V = e + V /\ (q3 + 3) * V = e + 3 * V BY <1>1, <1>2
    <2>3. Z < e + V BY <1>2, <2>2
    <2> HIDE DEF Z, e
    <2>4. Z + q1 + mu + 1 < e + 3 * V BY <1>1, <1>2, <1>3, <1>5, <1>6, <2>2, <2>3
    <2> QED BY <2>1, <2>2, <2>4
<1>8. a * U < ((q1 + 1) * W) * ((mu + 1) * M)
    <2>1. (q1 + 1) * W \in Nat /\ (mu + 1) * M \in Nat BY <1>1, <1>2
    <2> HIDE DEF U
    <2> QED BY <1>1, <1>2, <1>3, <2>1, LessTimes
<1>9. ((q1 + 1) * W) * ((mu + 1) * M) = ((q1 + 1) * (mu + 1)) * (W * M) BY <1>1, <1>2
<1>10. ((q1 + 1) * (mu + 1)) * (W * M) <= ((q3 + 3) * V) * (W * M)
    <2> DEFINE e == (q1 + 1) * (mu + 1)
               f == (q3 + 3) * V
               h == W * M
    <2>1. e \in Nat /\ f \in Nat /\ h \in Nat /\ e <= f
        <3>1. e \in Nat /\ f \in Nat BY <1>1, <1>2
        <3>2. h \in Nat BY <1>1
        <3> QED BY <1>7, <3>1, <3>2
    <2> HIDE DEF e, f, h
    <2>2. e * h <= f * h
        <3>1. h <= h BY <2>1
        <3> QED BY <2>1, <3>1, LessTimes
    <2> QED BY <2>2 DEF e, f, h
<1>11. ((q3 + 3) * V) * (W * M) = ((q3 + 3) * M) * U BY <1>1, <1>2
<1>12. a < (q3 + 3) * M
    <2> DEFINE p == (q3 + 3) * M
               e == a * U
               f == ((q1 + 1) * W) * ((mu + 1) * M)
               h == p * U
    <2>1. p \in Nat BY <1>1, <1>2
    <2>2. e \in Nat /\ h \in Nat BY <1>1, <1>3, <2>1
    <2>3. f \in Nat
        <3>1. (q1 + 1) * W \in Nat /\ (mu + 1) * M \in Nat BY <1>1, <1>2
        <3> QED BY <3>1
    <2>4. e < f /\ f <= h BY <1>8, <1>9, <1>10, <1>11
    <2> HIDE DEF e, f, h
    <2>5. e < h BY <2>2, <2>3, <2>4
    <2> HIDE DEF p, U
    <2>6. a * U < p * U BY <2>5 DEF e, h
    <2>7. a < p BY <1>1, <1>3, <2>1, <2>6, LeTimes
    <2> QED BY <2>7 DEF p
<1> QED BY <1>2, <1>4, <1>12

LEMMA PositiveIs ==
    ASSUME NEW n \in Numbers
    PROVE  /\ ValueOf(n) \in Int
           /\ n.sign = ZPOS <=> ValueOf(n) >= 0
           /\ n.sign = ZPOS => ValueOf(n) \in Nat /\ ValueOf(n) = MagnitudeOf(n.dp)
<1>1. n \in Signed /\ ZPOS # NEG
    <2>1. ZPOS # NEG BY DEF ZPOS, NEG
    <2> QED BY <2>1, NumbersIs
<1>2. ValueOf(n) \in Int /\ n.sign \in {ZPOS, NEG} /\ MagnitudeOf(n.dp) \in Nat
      /\ (n.sign = ZPOS => ValueOf(n) = MagnitudeOf(n.dp))
    BY <1>1, SignedIs
<1>3. (n.sign = NEG => ValueOf(n) < 0) /\ (n.sign = ZPOS => ValueOf(n) >= 0) BY NumbersIs
<1> QED BY <1>1, <1>2, <1>3

\* The number whose only digit above n zeros is one.
LEMMA OneAboveIs ==
    ASSUME NEW n \in Nat
    PROVE  /\ Unsigned(Zeros(n) \o <<1>>) \in Numbers
           /\ Unsigned(Zeros(n) \o <<1>>).sign = ZPOS
           /\ ValueOf(Unsigned(Zeros(n) \o <<1>>)) = Weight(n)
<1> DEFINE z == Zeros(n)
           t == <<1>>
           s == z \o t
<1>1. z \in Seq(Digit) /\ Len(z) = n /\ MagnitudeOf(z) = 0 BY ZerosAre
<1>2. t \in Seq(Digit) /\ MagnitudeOf(t) = 1 /\ Len(t) = 1 /\ Top(t) = 1
    <2>1. 1 \in Digit BY RadixIs
    <2>2. Normal(t) /\ MagnitudeOf(t) = 1 BY <2>1, OneDigit
    <2>3. Len(t) = 1 /\ t[1] = 1 OBVIOUS
    <2> QED BY <2>2, <2>3 DEF Normal, Top
<1>3. Unsigned(s) = [sign |-> ZPOS, dp |-> s] BY DEF Unsigned
<1> HIDE DEF z, t
<1>4. s \in Seq(Digit) /\ Len(s) = n + 1 /\ MagnitudeOf(s) = 0 + Weight(n) * 1
    BY <1>1, <1>2, ConcatIs
<1>5. Top(s) = 1 BY <1>1, <1>2, ConcatTop
<1> HIDE DEF s
<1>6. s # <<>> BY <1>4
<1>7. Normal(s) BY <1>4, <1>5, <1>6 DEF Normal
<1>8. MagnitudeOf(s) = Weight(n)
    <2>1. Weight(n) \in Nat BY WeightIs
    <2> QED BY <1>4, <2>1
<1>9. ZPOS \in {ZPOS, NEG} /\ ZPOS # NEG BY DEF ZPOS, NEG
<1> DEFINE u == [sign |-> ZPOS, dp |-> s]
<1>10. u \in Signed /\ ValueOf(u) = MagnitudeOf(s) /\ u.sign = ZPOS
    <2>1. u.sign = ZPOS OBVIOUS
    <2> HIDE DEF u
    <2>2. u \in Signed /\ ValueOf(u) = MagnitudeOf(s) BY <1>7, <1>9, SignedOf DEF u
    <2> QED BY <2>1, <2>2
<1> HIDE DEF u
<1>11. u \in Numbers BY <1>10 DEF Numbers
<1>12. Unsigned(s) \in Numbers /\ Unsigned(s).sign = ZPOS /\ ValueOf(Unsigned(s)) = Weight(n)
    BY <1>3, <1>8, <1>10, <1>11 DEF u
<1> QED BY <1>12 DEF s, z, t

\* Weights around the modulus.
LEMMA ModulusWeights ==
    ASSUME NEW m \in Numbers, ValueOf(m) > 0
    PROVE  LET k == Len(m.dp)
               M == ValueOf(m)
               W == Weight(k - 1)
               V == Weight(k + 1)
           IN  /\ k \in Nat /\ k >= 1 /\ M \in Nat
               /\ W \in Nat /\ W > 0 /\ V \in Nat /\ V > 0
               /\ W <= M /\ 3 * M < V /\ W * V = Weight(2 * k) /\ M * M < W * V
<1> DEFINE k == Len(m.dp)
           M == ValueOf(m)
           W == Weight(k - 1)
           H == Weight(k)
           V == Weight(k + 1)
<1>1. m.sign = ZPOS /\ M \in Nat /\ M = MagnitudeOf(m.dp) /\ Normal(m.dp)
    <2>1. m \in Signed BY NumbersIs
    <2>2. Normal(m.dp) BY <2>1, SignedIs
    <2>3. m.sign = ZPOS
        <3>1. M \in Int BY PositiveIs
        <3>2. M >= 0 BY <3>1
        <3> QED BY <3>2, PositiveIs
    <2> QED BY <2>2, <2>3, PositiveIs
<1>2. k \in Nat /\ k >= 1 /\ m.dp \in Seq(Digit) /\ m.dp # <<>> /\ (k > 1 => Top(m.dp) # 0)
    <2>1. k \in Nat /\ k > 0 BY <1>1, NormalIs
    <2> QED BY <1>1, <2>1 DEF Normal
<1>3. MP_RADIX \in Nat /\ MP_RADIX >= 4 BY RadixIs
<1>4. W \in Nat /\ W > 0 /\ H \in Nat /\ H > 0 /\ V \in Nat /\ V > 0
      /\ H = MP_RADIX * W /\ V = MP_RADIX * H
    <2>1. k - 1 \in Nat /\ (k - 1) + 1 = k BY <1>2
    <2>2. Weight(k - 1) \in Nat /\ Weight(k - 1) > 0
          /\ Weight((k - 1) + 1) = MP_RADIX * Weight(k - 1)
        BY <2>1, WeightIs
    <2>3. H \in Nat /\ H > 0 /\ V = MP_RADIX * H BY <1>2, WeightIs
    <2>4. k + 1 \in Nat BY <1>2
    <2>5. V \in Nat /\ V > 0 BY <2>4, WeightIs
    <2> QED BY <2>1, <2>2, <2>3, <2>5
<1>5. W * V = Weight(2 * k)
    <2>1. k - 1 \in Nat /\ k + 1 \in Nat /\ (k - 1) + (k + 1) = 2 * k BY <1>2
    <2>2. Weight((k - 1) + (k + 1)) = W * V BY <2>1, WeightSum
    <2> QED BY <2>1, <2>2
<1>6. W <= M
    <2>1. CASE k > 1
        <3>1. MagnitudeOf(m.dp) >= Weight(k - 1) BY <1>2, <2>1, MagnitudeAbove
        <3> QED BY <1>1, <3>1
    <2>2. CASE k = 1
        <3>1. k - 1 = 0 /\ 0 \in Nat BY <2>2
        <3>2. W = 1 BY <3>1, WeightIs
        <3> QED BY <1>1, <3>2
    <2> HIDE DEF k, W, M
    <2>3. k = 1 \/ k > 1 BY <1>2
    <2> QED BY <2>1, <2>2, <2>3
<1>7. M < H BY <1>1, <1>2, MagnitudeIs
<1> HIDE DEF k, M, W, H, V
<1>8. 3 * M < V
    <2>1. V >= 4 * H BY <1>3, <1>4
    <2> QED BY <1>1, <1>4, <1>7, <2>1
<1>9. M * M < W * V
    <2>1. M * M < H * H BY <1>1, <1>4, <1>7, LessTimes
    <2>2. H * H = W * V BY <1>3, <1>4
    <2> QED BY <2>1, <2>2
<1> QED BY <1>1, <1>2, <1>4, <1>5, <1>6, <1>8, <1>9 DEF k, M, W, V

LEMMA LowPartIs ==
    ASSUME NEW b \in Numbers, b.sign = ZPOS, NEW n \in Nat
    PROVE  /\ [b EXCEPT !.dp = s_mp_mod_2d(b.dp, MP_DIGIT_BIT * n)] \in Numbers
           /\ ValueOf([b EXCEPT !.dp = s_mp_mod_2d(b.dp, MP_DIGIT_BIT * n)])
                = (ValueOf(b) % Weight(n))
<1> DEFINE k == MP_DIGIT_BIT * n
           r == [b EXCEPT !.dp = s_mp_mod_2d(b.dp, k)]
<1>1. k \in Nat
    <2>1. MP_DIGIT_BIT \in Nat BY RadixIs
    <2> QED BY <2>1
<1>2. mp_div_2d(b, k).r = r BY DEF mp_div_2d
<1>3. 2 ^ k = Weight(n) BY DEF Weight
<1> HIDE DEF k, r
<1>4. mp_div_2d(b, k).r \in Numbers /\ ValueOf(mp_div_2d(b, k).r) = (ValueOf(b) % 2 ^ k)
    BY <1>1, Div2dOfIs
<1>5. r \in Numbers /\ ValueOf(r) = (ValueOf(b) % Weight(n)) BY <1>2, <1>3, <1>4
<1> QED BY <1>5 DEF r, k

\* Digits shifted out of a positive number.
LEMMA ShiftedPartIs ==
    ASSUME NEW b \in Numbers, b.sign = ZPOS, NEW n \in Nat
    PROVE  /\ s_mp_rshd(b, n) \in Numbers /\ s_mp_rshd(b, n).sign = ZPOS
           /\ ValueOf(s_mp_rshd(b, n)) = ValueOf(b) \div Weight(n)
<1> DEFINE r == s_mp_rshd(b, n)
<1>1. b \in Signed BY NumbersIs
<1>2. r \in Signed /\ r.sign = ZPOS /\ MagnitudeOf(r.dp) = MagnitudeOf(b.dp) \div Weight(n)
    BY <1>1, RshdIs
<1> HIDE DEF r
<1>3. ValueOf(r) = MagnitudeOf(r.dp) BY <1>2, SignedIs
<1>4. ValueOf(b) = MagnitudeOf(b.dp) BY PositiveIs
<1>5. r \in Numbers BY <1>2 DEF Numbers
<1> QED BY <1>2, <1>3, <1>4, <1>5 DEF r

\* The difference of the low digits, brought above zero, is the difference.
LEMMA LowDifference ==
    ASSUME NEW a \in Nat, NEW b \in Nat, NEW V \in Nat, V > 0, b <= a, a - b < V
    PROVE  LET c == (a % V) - (b % V)
           IN  /\ c \in Int /\ Abs(c) < V
               /\ \E q \in Int : a - b = q * V + c
               /\ ((a - b) % V) = a - b
<1> DEFINE p == a \div V
           r == a % V
           q == b \div V
           s == b % V
           c == r - s
<1>1. p \in Nat /\ r \in Nat /\ r < V /\ a = p * V + r BY DivisionIs
<1>2. q \in Nat /\ s \in Nat /\ s < V /\ b = q * V + s BY DivisionIs
<1> HIDE DEF p, q, r, s
<1>3. c \in Int /\ Abs(c) < V BY <1>1, <1>2 DEF Abs
<1>4. p - q \in Int BY <1>1, <1>2
<1>5. a - b = (p - q) * V + c
    <2>1. (p - q) * V = p * V - q * V BY <1>1, <1>2
    <2> DEFINE e == p * V
               f == q * V
    <2>2. e \in Nat /\ f \in Nat /\ a = e + r /\ b = f + s /\ (p - q) * V = e - f
        BY <1>1, <1>2, <2>1
    <2> HIDE DEF e, f
    <2> QED BY <1>1, <1>2, <2>2
<1> HIDE DEF c
<1>6. \E u \in Int : a - b = u * V + c BY <1>4, <1>5
<1> DEFINE n == a - b
<1>7. n \in Nat /\ n < V OBVIOUS
<1> HIDE DEF n
<1>8. n = 0 * V + n /\ 0 \in Int BY <1>7
<1>9. (n % V) = n BY <1>7, <1>8, ModUnique
<1> QED BY <1>3, <1>6, <1>9 DEF c, r, s, n

\* s_mp_reduce finds the remainder of any number below the square of the
\* modulus's weight.
LEMMA ReduceIs ==
    ASSUME NEW a \in Numbers, a.sign = ZPOS, NEW m \in Numbers, ValueOf(m) > 0,
           NEW mu \in Numbers, mu.sign = ZPOS,
           ValueOf(mu) = Weight(2 * Len(m.dp)) \div ValueOf(m),
           ValueOf(a) < Weight(2 * Len(m.dp))
    PROVE  /\ s_mp_reduce(a, m, mu) \in Numbers /\ s_mp_reduce(a, m, mu).sign = ZPOS
           /\ ValueOf(s_mp_reduce(a, m, mu)) = (ValueOf(a) % ValueOf(m))
<1> DEFINE k == Len(m.dp)
           A == ValueOf(a)
           M == ValueOf(m)
           U == ValueOf(mu)
           W == Weight(k - 1)
           V == Weight(k + 1)
           q1 == s_mp_rshd(a, k - 1)
           p1 == mp_mul(q1, mu)
           q3 == s_mp_rshd(p1, k + 1)
           p3 == mp_mul(q3, m)
           low(b) == [b EXCEPT !.dp = s_mp_mod_2d(b.dp, MP_DIGIT_BIT * (k + 1))]
           d == mp_sub(low(a), low(p3))
           above == Unsigned(Zeros(k + 1) \o <<1>>)
           e == Raised(d, above)
           Q1 == ValueOf(q1)
           Q3 == ValueOf(q3)
<1>1. s_mp_reduce(a, m, mu) = BackOffModulus(e, m) BY DEF s_mp_reduce, s_mp_mul
<1>2. /\ k \in Nat /\ k >= 1 /\ M \in Nat
      /\ W \in Nat /\ W > 0 /\ V \in Nat /\ V > 0
      /\ W <= M /\ 3 * M < V /\ W * V = Weight(2 * k) /\ M * M < W * V
    BY ModulusWeights
<1>3. k - 1 \in Nat /\ k + 1 \in Nat /\ M > 0 /\ m.sign = ZPOS
    <2>1. m.sign = ZPOS
        <3>1. M >= 0 BY <1>2
        <3> QED BY <3>1, PositiveIs
    <2> HIDE DEF k
    <2> QED BY <1>2, <2>1
<1>4. A \in Nat /\ U \in Nat /\ U = (W * V) \div M /\ A < W * V
    <2>1. A \in Nat /\ U \in Nat BY PositiveIs
    <2> QED BY <1>2, <2>1
<1>5. M = ValueOf(m) /\ A = ValueOf(a) /\ U = ValueOf(mu) OBVIOUS
<1> HIDE DEF k, A, M, U, W, V
<1>6. q1 \in Numbers /\ q1.sign = ZPOS /\ Q1 = A \div W
    BY <1>3, ShiftedPartIs DEF A, W
<1>7. Q1 \in Nat BY <1>6, PositiveIs
<1> HIDE DEF q1, Q1
<1>8. p1 \in Numbers /\ ValueOf(p1) = Q1 * U
    <2>1. q1 \in Signed /\ mu \in Signed BY <1>6, NumbersIs
    <2>2. p1 \in Numbers /\ ValueOf(p1) = ValueOf(q1) * ValueOf(mu) BY <2>1, MulIs
    <2> QED BY <2>2 DEF Q1, U
<1> HIDE DEF p1
<1>9. p1.sign = ZPOS
    <2>1. Q1 * U \in Nat BY <1>4, <1>7
    <2> DEFINE z == Q1 * U
    <2>2. z >= 0 /\ ValueOf(p1) = z BY <1>8, <2>1
    <2> HIDE DEF z
    <2> QED BY <1>8, <2>2, PositiveIs
<1>10. q3 \in Numbers /\ q3.sign = ZPOS /\ Q3 = (Q1 * U) \div V
    BY <1>3, <1>8, <1>9, ShiftedPartIs DEF V
<1>11. Q3 \in Nat BY <1>10, PositiveIs
<1> HIDE DEF q3, Q3
<1>12. p3 \in Numbers /\ ValueOf(p3) = Q3 * M
    <2>1. q3 \in Signed /\ m \in Signed BY <1>10, NumbersIs
    <2>2. p3 \in Numbers /\ ValueOf(p3) = ValueOf(q3) * ValueOf(m) BY <2>1, MulIs
    <2> QED BY <2>2 DEF Q3, M
<1> HIDE DEF p3
<1> DEFINE B == Q3 * M
           n == A - B
           C == (A % V) - (B % V)
<1>13. B \in Nat BY <1>2, <1>11
<1>14. p3.sign = ZPOS
    <2>1. B >= 0 BY <1>13
    <2> QED BY <1>12, <2>1, PositiveIs
<1>15. B <= A /\ A < (Q3 + 3) * M
    <2>1. Estimate(A, M, W, V, U, Q1, Q3) BY <1>2, <1>4, <1>6, <1>10 DEF Estimate
    <2> QED BY <2>1, EstimateIs
<1>16. n < V /\ n \in Nat
    <2>1. (Q3 + 3) * M = B + 3 * M BY <1>2, <1>11
    <2> HIDE DEF B
    <2> QED BY <1>2, <1>4, <1>13, <1>15, <2>1
<1>17. C \in Int /\ Abs(C) < V /\ (\E q \in Int : n = q * V + C) /\ (n % V) = n
    <2> HIDE DEF B
    <2>1. B <= A /\ A - B < V BY <1>15, <1>16
    <2>2. A \in Nat /\ B \in Nat /\ V \in Nat /\ V > 0 BY <1>2, <1>4, <1>13
    <2> QED BY <2>1, <2>2, LowDifference, Zenon
<1>18. low(a) \in Numbers /\ ValueOf(low(a)) = (A % V)
    BY <1>3, LowPartIs DEF A, V
<1>19. low(p3) \in Numbers /\ ValueOf(low(p3)) = (B % V)
    BY <1>3, <1>12, <1>14, LowPartIs DEF V
<1> HIDE DEF low
<1>20. d \in Numbers /\ ValueOf(d) = C
    <2>1. low(a) \in Signed /\ low(p3) \in Signed BY <1>18, <1>19, NumbersIs
    <2>2. d \in Numbers /\ ValueOf(d) = ValueOf(low(a)) - ValueOf(low(p3)) BY <2>1, SubIs
    <2> QED BY <1>18, <1>19, <2>2
<1>21. above \in Numbers /\ ValueOf(above) = V BY <1>3, OneAboveIs DEF V
<1> HIDE DEF d, above, B
<1>22. e \in Numbers /\ ValueOf(e) = n
    <2>1. PICK q \in Int : n = q * V + C BY <1>17
    <2>2. n \in Int BY <1>16
    <2> HIDE DEF n, C
    <2>3. e \in Numbers /\ ValueOf(e) = (n % ValueOf(above))
        BY <1>17, <1>20, <1>21, <2>1, <2>2, RaisedIs
    <2> QED BY <1>17, <1>21, <2>3
<1>23. e.sign = ZPOS
    <2>1. ValueOf(e) >= 0 BY <1>16, <1>22
    <2> QED BY <1>22, <2>1, PositiveIs
<1> HIDE DEF e
<1>24. /\ BackOffModulus(e, m) \in Numbers /\ BackOffModulus(e, m).sign = ZPOS
       /\ ValueOf(BackOffModulus(e, m)) = (n % M)
    <2> HIDE DEF n
    <2> QED BY <1>3, <1>5, <1>22, <1>23, BackOffModulusIs
<1>25. (n % M) = (A % M)
    <2> DEFINE q == A \div M
               r == A % M
    <2>1. q \in Int /\ r \in Nat /\ r < M /\ A = q * M + r BY <1>2, <1>3, <1>4, ModOf
    <2> HIDE DEF q, r
    <2>2. n = (q - Q3) * M + r
        <3>1. (q - Q3) * M = q * M - Q3 * M BY <1>2, <1>11, <2>1
        <3> DEFINE f == q * M
        <3>2. f \in Int /\ A = f + r /\ (q - Q3) * M = f - B BY <1>2, <2>1, <3>1 DEF B
        <3> HIDE DEF f
        <3> QED BY <1>4, <1>13, <2>1, <3>2
    <2>3. q - Q3 \in Int /\ n \in Int BY <1>11, <1>16, <2>1
    <2> HIDE DEF n
    <2>4. (n % M) = r BY <1>2, <1>3, <2>1, <2>2, <2>3, ModUnique
    <2> QED BY <2>4 DEF r
<1> QED BY <1>1, <1>24, <1>25 DEF A, M

\* mu is the constant of Barrett's reduction for m.
Barrett(mu, m) ==
    /\ mu \in Numbers /\ mu.sign = ZPOS
    /\ ValueOf(mu) = Weight(2 * Len(m.dp)) \div ValueOf(m)

LEMMA ReduceProduct ==
    ASSUME NEW m \in Numbers, ValueOf(m) > 0, NEW mu, Barrett(mu, m),
           NEW a \in Numbers, NEW b \in Numbers,
           ValueOf(a) \in 0 .. ValueOf(m) - 1 \/ ValueOf(a) = 1,
           ValueOf(b) \in 0 .. ValueOf(m) - 1
    PROVE  /\ s_mp_reduce(mp_mul(a, b), m, mu) \in Numbers
           /\ ValueOf(s_mp_reduce(mp_mul(a, b), m, mu)) = ((ValueOf(a) * ValueOf(b)) % ValueOf(m))
<1> DEFINE A == ValueOf(a)
           B == ValueOf(b)
           M == ValueOf(m)
           p == mp_mul(a, b)
<1>1. p \in Numbers /\ ValueOf(p) = A * B
    <2>1. a \in Signed /\ b \in Signed BY NumbersIs
    <2> QED BY <2>1, MulIs
<1>2. M \in Nat /\ M * M < Weight(2 * Len(m.dp)) BY ModulusWeights
<1>3. A \in Nat /\ B \in Nat /\ B < M /\ M > 0 /\ (A < M \/ A = 1)
    <2>1. M > 0 /\ (A \in 0 .. M - 1 \/ A = 1) /\ B \in 0 .. M - 1 OBVIOUS
    <2> HIDE DEF A, B, M
    <2> QED BY <1>2, <2>1
<1> HIDE DEF A, B, p
<1>4. A * B \in Nat /\ A * B < M * M
    <2> HIDE DEF M
    <2>1. A * B \in Nat BY <1>3
    <2>2. CASE A < M BY <1>2, <1>3, <2>1, <2>2, LessTimes
    <2>3. CASE A = 1
        <3>1. A * B = B BY <1>3, <2>3
        <3>2. M <= M * M BY <1>2, <1>3
        <3>3. M * M \in Nat BY <1>2
        <3> QED BY <1>2, <1>3, <2>1, <3>1, <3>2, <3>3
    <2> QED BY <1>3, <2>2, <2>3
<1>5. p.sign = ZPOS
    <2> DEFINE z == A * B
    <2>1. z >= 0 /\ ValueOf(p) = z BY <1>1, <1>4
    <2> HIDE DEF z
    <2> QED BY <1>1, <2>1, PositiveIs
<1>6. ValueOf(p) < Weight(2 * Len(m.dp))
    <2> DEFINE z == A * B
               u == M * M
               w == Weight(2 * Len(m.dp))
    <2>1. z \in Nat /\ z < u /\ u < w /\ u \in Nat /\ ValueOf(p) = z
        <3>1. u \in Nat
            <4> HIDE DEF M
            <4> QED BY <1>2
        <3> QED BY <1>1, <1>2, <1>4, <3>1
    <2>2. w \in Nat
        <3>1. m.dp \in Seq(Digit)
            <4>1. m \in Signed BY NumbersIs
            <4> QED BY <4>1, SignedIs DEF Normal
        <3>2. 2 * Len(m.dp) \in Nat BY <3>1
        <3> QED BY <3>2, WeightIs
    <2> HIDE DEF z, u, w
    <2>3. z < w BY <2>1, <2>2
    <2> QED BY <2>1, <2>3 DEF w
<1>7. /\ s_mp_reduce(p, m, mu) \in Numbers
      /\ ValueOf(s_mp_reduce(p, m, mu)) = (ValueOf(p) % ValueOf(m))
    BY <1>1, <1>5, <1>6, ReduceIs DEF Barrett
<1> QED BY <1>1, <1>7 DEF p, A, B

(* The loop of s_mp_exptmod. *)
LEMMA ReduceLoopIs ==
    ASSUME NEW A \in Int, NEW a \in Numbers, NEW d \in Nat, NEW m \in Numbers, ValueOf(m) > 0,
           ValueOf(a) = (A % ValueOf(m)), NEW mu, Barrett(mu, m)
    PROVE  /\ ReduceLoop(mp_set(1), a, d, m, mu) \in Numbers
           /\ d > 0 \/ ValueOf(m) > 1 =>
                ValueOf(ReduceLoop(mp_set(1), a, d, m, mu)) = (Pow(A, d) % ValueOf(m))
<1> DEFINE N == BitCount(d)
           M == ValueOf(m)
           first == [s |-> mp_set(1), b |-> a]
           Step(v, i) == [v EXCEPT
                            !.s = IF OddAfter(d, i - 1) THEN s_mp_reduce(s_mp_mul(@, v.b), m, mu)
                                  ELSE @,
                            !.b = s_mp_reduce(s_mp_sqr(@), m, mu)]
           Body(h) == [i \in 0 .. N |-> IF i = 0 THEN first ELSE Step(h[i - 1], i)]
           c == CHOOSE h : h = Body(h)
           V == [s : Numbers, b : Numbers]
           I == [j \in Nat |-> {v \in V : /\ PowerState(ValueOf(v.s), ValueOf(v.b), A, M, d, j)
                                          /\ ValueOf(v.b) \in 0 .. M - 1}]
           g == [v \in V \X Nat |-> Step(v[1], v[2])]
<1>n. N \in Nat BY BitCountIs
<1>0. ReduceLoop(mp_set(1), a, d, m, mu) = c[N].s BY DEF ReduceLoop
<1>1. M \in Nat /\ M > 0
    <2>1. M \in Int BY PositiveIs
    <2> QED BY <2>1
<1>2. \A j \in Nat : I[j] = {v \in V : /\ PowerState(ValueOf(v.s), ValueOf(v.b), A, M, d, j)
                                       /\ ValueOf(v.b) \in 0 .. M - 1}
    OBVIOUS
<1>3. ValueOf(a) = (A % M) /\ M = ValueOf(m) OBVIOUS
<1> HIDE DEF N, M
<1>L1. first \in I[0]
    <2>1. 1 \in Digit BY RadixIs
    <2>2. mp_set(1) \in Numbers /\ ValueOf(mp_set(1)) = 1 BY <2>1, SetIs
    <2>3. first \in V /\ first.s = mp_set(1) /\ first.b = a BY <2>2
    <2> DEFINE b == A % M
    <2>4. b \in Nat /\ b < M /\ (b % M) = (A % M) BY <1>1, ModOf, ModAgain
    <2>5. b \in Int /\ b \in 0 .. M - 1
        <3> HIDE DEF b
        <3> QED BY <1>1, <2>4
    <2>6. PowerState(1, b, A, M, d, 0) BY <1>1, <2>4, <2>5, PowerStateStarts
    <2>7. ValueOf(a) = b BY <1>3
    <2> HIDE DEF first, V, I, b
    <2>8. 0 \in Nat OBVIOUS
    <2> QED BY <1>2, <2>2, <2>3, <2>5, <2>6, <2>7, <2>8
<1>L2. ASSUME NEW j \in 0 .. N - 1, NEW v \in I[j] PROVE Step(v, j + 1) \in I[j + 1]
    <2> DEFINE i == j + 1
               w == Step(v, i)
               p == mp_mul(v.s, v.b)
               q == mp_sqr(v.b)
    <2>1. j \in Nat /\ i \in Nat /\ i - 1 = j BY <1>n
    <2>2. v \in V /\ PowerState(ValueOf(v.s), ValueOf(v.b), A, M, d, j)
          /\ ValueOf(v.b) \in 0 .. M - 1
        <3> HIDE DEF I, V
        <3> QED BY <1>2, <2>1
    <2>3. v.s \in Numbers /\ v.b \in Numbers BY <2>2
    <2>4. v.s \in Signed /\ v.b \in Signed BY <2>3, NumbersIs
    <2>5. ValueOf(v.s) \in Int /\ ValueOf(v.b) \in Int BY <2>4, SignedIs
    <2>6. w.s = (IF OddAfter(d, j) THEN s_mp_reduce(p, m, mu) ELSE v.s)
          /\ w.b = s_mp_reduce(q, m, mu)
        BY <2>1, <2>2 DEF s_mp_mul, s_mp_sqr
    <2>7. w \in [s : {w.s}, b : {w.b}]
        <3> DEFINE e == IF OddAfter(d, i - 1) THEN s_mp_reduce(s_mp_mul(v.s, v.b), m, mu) ELSE v.s
                   f == s_mp_reduce(s_mp_sqr(v.b), m, mu)
        <3>1. w = [v EXCEPT !.s = e, !.b = f] OBVIOUS
        <3>2. v \in [s : Numbers, b : Numbers] BY <2>2
        <3> HIDE DEF w, e, f
        <3> QED BY <3>1, <3>2
    <2> HIDE DEF w, i, p, q, I, V
    <2>8. ValueOf(v.s) \in 0 .. M - 1 \/ ValueOf(v.s) = 1 BY <2>2 DEF PowerState
    <2>9. s_mp_reduce(p, m, mu) \in Numbers
          /\ ValueOf(s_mp_reduce(p, m, mu)) = ((ValueOf(v.s) * ValueOf(v.b)) % M)
        BY <1>1, <1>3, <2>2, <2>3, <2>8, ReduceProduct DEF p
    <2>10. s_mp_reduce(q, m, mu) \in Numbers
           /\ ValueOf(s_mp_reduce(q, m, mu)) = ((ValueOf(v.b) * ValueOf(v.b)) % M)
        <3>1. q \in Numbers /\ ValueOf(q) = ValueOf(v.b) * ValueOf(v.b) BY <2>4, SqrIs DEF q
        <3> DEFINE B == ValueOf(v.b)
                   z == B * B
        <3>2. B \in Nat /\ B < M BY <1>1, <2>2
        <3> HIDE DEF B
        <3>3. z \in Nat /\ z < M * M BY <1>1, <3>2, LessTimes
        <3>4. ValueOf(q) = z BY <3>1 DEF B
        <3>5. M * M < Weight(2 * Len(m.dp)) BY <1>1, <1>3, ModulusWeights
        <3>6. M * M \in Nat /\ Weight(2 * Len(m.dp)) \in Nat
            <4>1. m.dp \in Seq(Digit)
                <5>1. m \in Signed BY NumbersIs
                <5> QED BY <5>1, SignedIs DEF Normal
            <4>2. 2 * Len(m.dp) \in Nat BY <4>1
            <4>3. Weight(2 * Len(m.dp)) \in Nat BY <4>2, WeightIs
            <4>4. M * M \in Nat BY <1>1
            <4> QED BY <4>3, <4>4
        <3> HIDE DEF z
        <3>7. ValueOf(q) < Weight(2 * Len(m.dp)) BY <3>3, <3>4, <3>5, <3>6
        <3>8. q.sign = ZPOS
            <4>1. ValueOf(q) >= 0 BY <3>3, <3>4
            <4> QED BY <3>1, <4>1, PositiveIs
        <3>9. s_mp_reduce(q, m, mu) \in Numbers
              /\ ValueOf(s_mp_reduce(q, m, mu)) = (ValueOf(q) % M)
            BY <1>1, <1>3, <3>1, <3>7, <3>8, ReduceIs DEF Barrett
        <3> QED BY <3>1, <3>9
    <2>11. w.s \in Numbers /\ w.b \in Numbers BY <2>3, <2>6, <2>9, <2>10
    <2>12. ValueOf(w.s) \in Int /\ ValueOf(w.b) \in Int BY <2>11, NumbersIs, SignedIs
    <2>13. /\ ValueOf(w.s) = IF OddAfter(d, j) THEN (ValueOf(v.s) * ValueOf(v.b)) % M
                             ELSE ValueOf(v.s)
           /\ ValueOf(w.b) = (ValueOf(v.b) * ValueOf(v.b)) % M
        BY <2>6, <2>9, <2>10
    <2>14. PowerState(ValueOf(w.s), ValueOf(w.b), A, M, d, j + 1)
        BY <1>1, <2>1, <2>2, <2>5, <2>12, <2>13, PowerStateTurns
    <2>15. ValueOf(w.b) \in 0 .. M - 1
        <3> DEFINE z == ValueOf(v.b) * ValueOf(v.b)
        <3>1. z \in Int BY <2>5
        <3> HIDE DEF z
        <3>2. (z % M) \in Nat /\ (z % M) < M BY <1>1, <3>1, ModOf
        <3> DEFINE r == z % M
        <3>3. ValueOf(w.b) = r BY <2>13 DEF z
        <3> HIDE DEF r
        <3>4. r \in Nat /\ r < M BY <3>2 DEF r
        <3> QED BY <1>1, <3>3, <3>4
    <2>16. w \in V BY <2>7, <2>11 DEF V
    <2>17. w \in I[i] BY <1>2, <2>1, <2>14, <2>15, <2>16 DEF i
    <2> QED BY <2>17 DEF w, i
<1>L3. \A i \in 0 .. N : I[i] \subseteq V
    <2>1. \A i \in 0 .. N : i \in Nat BY <1>n
    <2> HIDE DEF I, V
    <2> QED BY <1>2, <2>1
<1>L4. \A v \in V, i \in Nat : g[<<v, i>>] = Step(v, i)
    <2> HIDE DEF Step, V, I
    <2> QED OBVIOUS
<1>L5. PICK h \in [0 .. N -> V] :
         \A i \in 0 .. N : h[i] \in I[i] /\ h[i] = IF i = 0 THEN first ELSE g[<<h[i - 1], i>>]
    <2> HIDE DEF g, I, first, V, Step, N
    <2>1. ASSUME NEW i \in 0 .. N - 1, NEW v \in I[i] PROVE g[<<v, i + 1>>] \in I[i + 1]
        <3>1. i \in 0 .. N /\ i + 1 \in Nat BY <1>n
        <3>2. v \in V BY <1>L3, <3>1
        <3> QED BY <1>L2, <1>L4, <3>1, <3>2
    <2>2. StaysIn(I, V, first, g, N) BY <1>L1, <1>L3, <2>1 DEF StaysIn
    <2>3. \E q \in [0 .. N -> V] : RecursesUpto(q, first, g, N) /\ \A i \in 0 .. N : q[i] \in I[i]
        BY <1>n, <2>2, UptoStates
    <2> QED BY <2>3 DEF RecursesUpto
<1>L6. ASSUME NEW i \in 0 .. N PROVE h[i] = IF i = 0 THEN first ELSE Step(h[i - 1], i)
    <2> HIDE DEF g, I, first, V, Step, N
    <2>1. CASE i = 0 BY <1>L5, <2>1
    <2>2. CASE i # 0
        <3>1. i - 1 \in 0 .. N /\ i \in Nat BY <1>n, <2>2
        <3>2. h[i - 1] \in V BY <1>L5, <3>1
        <3> QED BY <1>L4, <1>L5, <2>2, <3>1, <3>2
    <2> QED BY <2>1, <2>2
<1> HIDE DEF g
<1>L7. h = Body(h)
    <2> DEFINE t == Body(h)
    <2>1. \A i \in 0 .. N : t[i] = IF i = 0 THEN first ELSE Step(h[i - 1], i) OBVIOUS
    <2>2. t = [i \in 0 .. N |-> t[i]] /\ h = [i \in 0 .. N |-> h[i]] OBVIOUS
    <2> HIDE DEF t, Step, first, I, V, N
    <2>3. \A i \in 0 .. N : h[i] = t[i] BY <1>L6, <2>1
    <2>4. h = t BY <2>2, <2>3
    <2> QED BY <2>4 DEF t, Step, first, N
<1>L8. c = Body(c) BY <1>L7
<1> HIDE DEF c
<1>L9. \A i \in 0 .. N : c[i] = IF i = 0 THEN first ELSE Step(c[i - 1], i)
    <2> DEFINE t == Body(c)
    <2>1. \A i \in 0 .. N : t[i] = IF i = 0 THEN first ELSE Step(c[i - 1], i) OBVIOUS
    <2>2. c = t BY <1>L8
    <2> HIDE DEF t, Step, first, N
    <2> QED BY <2>1, <2>2
<1> HIDE DEF Body, I, V, first, Step, N
<1>La. \A i \in 0 .. N : c[i] \in I[i]
    <2> DEFINE P == {i \in Nat : c[i] \in I[i]}
    <2>1. 0 \in P
        <3>1. 0 \in 0 .. N BY <1>n
        <3> QED BY <1>L1, <1>L9, <3>1
    <2>2. ASSUME NEW i \in 0 .. N - 1, i \in P PROVE i + 1 \in P
        <3>1. i + 1 \in 0 .. N /\ i + 1 \in Nat /\ i + 1 # 0 /\ (i + 1) - 1 = i BY <1>n
        <3>2. c[i] \in I[i] BY <2>2
        <3>3. c[i + 1] = Step(c[i], i + 1) BY <1>L9, <3>1
        <3>4. Step(c[i], i + 1) \in I[i + 1] BY <1>L2, <3>2
        <3> QED BY <3>1, <3>3, <3>4
    <2> HIDE DEF P
    <2>3. \A i \in 0 .. N : i \in P BY <1>n, <2>1, <2>2, UptoInduct
    <2> QED BY <2>3 DEF P
<1>4. c[N] \in I[N]
    <2>1. N \in 0 .. N BY <1>n
    <2> QED BY <1>La, <2>1
<1>5. c[N] \in V /\ PowerState(ValueOf(c[N].s), ValueOf(c[N].b), A, M, d, N)
    BY <1>2, <1>4, <1>n
<1>6. c[N].s \in Numbers /\ c[N].b \in Numbers BY <1>5 DEF V
<1>7. ValueOf(c[N].s) \in Int /\ ValueOf(c[N].b) \in Int BY <1>6, NumbersIs, SignedIs
<1>8. d > 0 \/ M > 1 => ValueOf(c[N].s) = (Pow(A, d) % M)
    BY <1>1, <1>5, <1>7, PowerStateEnds DEF N
<1> QED BY <1>0, <1>6, <1>8 DEF M

\* s_mp_exptmod reduces with the quotient of the weight and the modulus.
LEMMA BarrettIs ==
    ASSUME NEW m \in Numbers, ValueOf(m) > 0
    PROVE  Barrett(mp_div([sign |-> ZPOS, dp |-> s_mp_lshd(<<1>>, 2 * Len(m.dp))], m).q, m)
<1> DEFINE k == 2 * Len(m.dp)
           w == [sign |-> ZPOS, dp |-> s_mp_lshd(<<1>>, k)]
           u == mp_div(w, m)
           M == ValueOf(m)
           W == Weight(k)
<1>1. m \in Signed /\ M \in Int BY NumbersIs, PositiveIs
<1>2. k \in Nat
    <2>1. m.dp \in Seq(Digit) BY <1>1, SignedIs DEF Normal
    <2> QED BY <2>1
<1>3. w = Unsigned(Zeros(k) \o <<1>>)
    <2>1. <<1>> # << 0 >>
        <3>1. <<1>>[1] = 1 /\ << 0 >>[1] = 0 OBVIOUS
        <3> QED BY <3>1
    <2> QED BY <2>1 DEF s_mp_lshd, Unsigned
<1> HIDE DEF k, w
<1>4. w \in Numbers /\ ValueOf(w) = W BY <1>2, <1>3, OneAboveIs
<1>5. W \in Nat /\ M \in Nat /\ M > 0
    <2>1. W \in Nat BY <1>2, WeightIs
    <2> QED BY <1>1, <2>1
<1>6. u.q \in Numbers /\ u.r \in Numbers /\ Divides(W, M, ValueOf(u.q), ValueOf(u.r))
    BY <1>4, <1>5, QuotientIs
<1> DEFINE q == ValueOf(u.q)
           r == ValueOf(u.r)
<1>7. q \in Int /\ r \in Int BY <1>6, PositiveIs
<1>8. q * M + r = W /\ Abs(r) < Abs(M) /\ Sgn(r) \in {0, Sgn(W)} BY <1>6 DEF Divides
<1> HIDE DEF u, M, W, q, r
<1>9. r \in Nat /\ r < M
    <2>1. r >= 0 BY <1>5, <1>7, <1>8 DEF Sgn
    <2> QED BY <1>5, <1>7, <1>8, <2>1 DEF Abs
<1>10. q >= 0
    <2> SUFFICES ASSUME q < 0 PROVE FALSE BY <1>7
    <2>1. (-1) * M >= q * M
        <3>1. 1 * M <= (-q) * M
            <4>1. 1 \in Nat /\ -q \in Nat /\ 1 <= -q /\ M <= M BY <1>5, <1>7
            <4> QED BY <1>5, <4>1, LessTimes
        <3>2. (-q) * M = -(q * M) /\ (-1) * M = -(1 * M) /\ q * M \in Int /\ 1 * M = M
            BY <1>5, <1>7
        <3> DEFINE p == q * M
        <3>3. p \in Int /\ M <= -p /\ (-1) * M = -M BY <3>1, <3>2
        <3> HIDE DEF p
        <3>4. -M >= p BY <1>5, <3>3
        <3> QED BY <3>3, <3>4 DEF p
    <2> DEFINE p == q * M
    <2>2. p \in Int /\ p <= -M /\ p + r = W
        <3>1. (-1) * M = -M BY <1>5
        <3>2. p \in Int BY <1>5, <1>7
        <3> QED BY <1>8, <2>1, <3>1, <3>2
    <2> HIDE DEF p
    <2> QED BY <1>5, <1>9, <2>2
<1>11. q = W \div M
    <2>1. q \in Nat BY <1>7, <1>10
    <2>2. W = q * M + r BY <1>8
    <2> QED BY <1>5, <1>9, <2>1, <2>2, DivisionUnique
<1>12. u.q.sign = ZPOS
    <2>1. ValueOf(u.q) >= 0 BY <1>10 DEF q
    <2> QED BY <1>6, <2>1, PositiveIs
<1>13. Barrett(u.q, m) BY <1>6, <1>11, <1>12 DEF Barrett, q, W, k, M
<1> QED BY <1>13 DEF u, w, k

LEMMA ExptModIs ==
    ASSUME NEW a \in Numbers, NEW b \in Numbers, NEW m \in Numbers
    PROVE  /\ Failed(s_mp_exptmod(a, b, m)) \/ s_mp_exptmod(a, b, m) \in Numbers
           /\ ValueOf(m) > 0 /\ ValueOf(b) >= 0 /\ (ValueOf(b) > 0 \/ ValueOf(m) > 1) =>
                ValueOf(s_mp_exptmod(a, b, m)) = (Pow(ValueOf(a), ValueOf(b)) % ValueOf(m))
<1> DEFINE A == ValueOf(a)
           B == ValueOf(b)
           M == ValueOf(m)
           d == MagnitudeOf(b.dp)
           mu == mp_div([sign |-> ZPOS, dp |-> s_mp_lshd(<<1>>, 2 * Len(m.dp))], m).q
           r == ReduceLoop(mp_set(1), mp_mod(a, m), d, m, mu)
<1>1. s_mp_exptmod(a, b, m) = IF mp_cmp_z(b) = MP_LT \/ mp_cmp_z(m) # MP_GT THEN MP_RANGE ELSE r
    BY DEF s_mp_exptmod
<1>2. A \in Int /\ B \in Int /\ M \in Int BY PositiveIs
<1>3. mp_cmp_z(b) = Sgn(B) /\ mp_cmp_z(m) = Sgn(M) BY CompareIs
<1>4. Failed(MP_RANGE) BY DEF Failed, MP_RANGE
<1> HIDE DEF r
<1>5. mp_cmp_z(b) = MP_LT \/ mp_cmp_z(m) # MP_GT <=> B < 0 \/ M <= 0
    <2> HIDE DEF B, M
    <2> QED BY <1>2, <1>3 DEF Sgn, MP_LT, MP_GT
<1>6. CASE B < 0 \/ M <= 0
    <2>1. s_mp_exptmod(a, b, m) = MP_RANGE BY <1>1, <1>5, <1>6
    <2>2. ~(M > 0 /\ B >= 0)
        <3> HIDE DEF B, M
        <3> QED BY <1>2, <1>6
    <2> QED BY <1>4, <2>1, <2>2
<1>7. CASE ~(B < 0 \/ M <= 0)
    <2>1. M > 0 /\ B >= 0
        <3> HIDE DEF B, M
        <3> QED BY <1>2, <1>7
    <2>2. s_mp_exptmod(a, b, m) = r BY <1>1, <1>5, <1>7
    <2>3. d = B /\ d \in Nat
        <3>1. b.sign = ZPOS BY <2>1, PositiveIs
        <3> QED BY <3>1, PositiveIs
    <2>4. Barrett(mu, m) BY <2>1, BarrettIs
    <2>5. mp_mod(a, m) \in Numbers /\ ValueOf(mp_mod(a, m)) = (A % M) BY <2>1, ModIs
    <2> HIDE DEF mu, d
    <2>6. r \in Numbers /\ (d > 0 \/ M > 1 => ValueOf(r) = (Pow(A, d) % M))
        BY <1>2, <2>1, <2>3, <2>4, <2>5, ReduceLoopIs DEF r
    <2> QED BY <2>2, <2>3, <2>6
<1> QED BY <1>6, <1>7

(* An even power is a square. *)
LEMMA PowEven ==
    ASSUME NEW n \in Int, NEW d \in Nat, (d % 2) = 0
    PROVE  Pow(n, d) >= 0
<1> DEFINE P == {i \in Nat : Pow(n, 2 * i) >= 0}
           q == d \div 2
<1>1. q \in Nat /\ 2 * q = d
    <2>1. d \div 2 \in Nat /\ d = (d \div 2) * 2 + (d % 2) BY DivisionIs
    <2> HIDE DEF q
    <2>2. q \in Nat /\ d = q * 2 BY <2>1 DEF q
    <2> QED BY <2>2
<1>2. 0 \in P
    <2>1. 2 * 0 = 0 /\ Pow(n, 0) = 1 BY PowIs
    <2> QED BY <2>1
<1>3. ASSUME NEW i \in 0 .. q - 1, i \in P PROVE i + 1 \in P
    <2>1. i \in Nat /\ 2 * i \in Nat /\ 2 * i + 1 \in Nat /\ 2 * (i + 1) = (2 * i + 1) + 1 BY <1>1
    <2>2. Pow(n, 2 * i) \in Int /\ Pow(n, 2 * i + 1) = Pow(n, 2 * i) * n BY <2>1, PowIs
    <2>3. Pow(n, (2 * i + 1) + 1) = Pow(n, 2 * i + 1) * n BY <2>1, PowIs
    <2>4. Pow(n, 2 * i) >= 0 BY <1>3
    <2> DEFINE u == Pow(n, 2 * i)
               s == n * n
    <2>5. s \in Int /\ s >= 0 /\ u \in Int /\ u >= 0 BY <2>2, <2>4
    <2>6. Pow(n, 2 * (i + 1)) = u * s
        <3>1. Pow(n, 2 * (i + 1)) = (u * n) * n BY <2>1, <2>2, <2>3
        <3> HIDE DEF u
        <3>2. (u * n) * n = u * (n * n) BY <2>5
        <3> QED BY <3>1, <3>2
    <2> HIDE DEF u, s
    <2>7. u * s >= 0 BY <2>5
    <2>8. i + 1 \in Nat BY <2>1
    <2> QED BY <2>6, <2>7, <2>8
<1> HIDE DEF P, q
<1>4. \A i \in 0 .. q : i \in P BY <1>1, <1>2, <1>3, UptoInduct
<1>5. q \in 0 .. q BY <1>1
<1>6. q \in P BY <1>4, <1>5
<1> QED BY <1>1, <1>6 DEF P

(* mp_expt gives an even power the sign of the base, and any other power is  *)
(* the integers'.  A negative exponent is refused.                           *)
LEMMA ExptIs ==
    ASSUME NEW a \in Numbers, NEW b \in Numbers
    PROVE  /\ Failed(mp_expt(a, b)) \/ mp_expt(a, b) \in Numbers
           /\ b.sign = NEG => Failed(mp_expt(a, b))
           /\ b.sign = ZPOS =>
                ValueOf(mp_expt(a, b))
                  = IF ValueOf(a) < 0 /\ (ValueOf(b) % 2) = 0 THEN -Pow(ValueOf(a), ValueOf(b))
                    ELSE Pow(ValueOf(a), ValueOf(b))
<1> DEFINE d == MagnitudeOf(b.dp)
           s == PowerLoop(mp_set(1), a, d)
           A == ValueOf(a)
           r == [s EXCEPT !.sign = a.sign]
           S == MagnitudeOf(s.dp)
<1>1. a \in Signed /\ b \in Signed BY NumbersIs
<1>2. d \in Nat /\ A \in Int BY <1>1, SignedIs
<1>3. s \in Numbers /\ ValueOf(s) = Pow(A, d)
    <2> HIDE DEF s, A, d
    <2> QED BY <1>1, <1>2, PowerLoopIs DEF s, A
<1>4. b.sign = ZPOS => ValueOf(b) = d BY <1>1, SignedIs
<1>5. /\ b.sign = ZPOS => mp_cmp_z(b) # MP_LT
      /\ b.sign = NEG => mp_cmp_z(b) = MP_LT
      /\ ZPOS # NEG
    <2>1. ZPOS # NEG /\ MP_EQ # MP_LT /\ MP_GT # MP_LT BY DEF ZPOS, NEG, MP_EQ, MP_LT, MP_GT
    <2> QED BY <2>1 DEF mp_cmp_z
<1>6. mp_expt(a, b) = IF mp_cmp_z(b) = MP_LT THEN MP_RANGE
                      ELSE IF mp_iseven(b) THEN r ELSE s
    BY DEF mp_expt
<1>e. mp_iseven(b) <=> (d % 2) = 0
    <2>1. Normal(b.dp) BY <1>1, SignedIs
    <2>2. 1 \in 0 .. MP_DIGIT_BIT /\ 2 ^ 1 = 2
        <3>1. MP_DIGIT_BIT \in Nat /\ MP_DIGIT_BIT > 0 BY RadixIs
        <3>2. 1 \in 0 .. MP_DIGIT_BIT BY <3>1
        <3>3. 2 ^ 1 = 2 OBVIOUS
        <3> QED BY <3>2, <3>3
    <2>3. (b.dp[1] % 2) = (d % 2)
        <3>1. (b.dp[1] % 2 ^ 1) = (d % 2 ^ 1) BY <2>1, <2>2, LowBits
        <3> QED BY <2>2, <3>1
    <2>4. mp_iseven(b) <=> (b.dp[1] % 2) # 1 BY DEF mp_iseven, mp_isodd
    <2>5. (d % 2) \in Nat /\ (d % 2) < 2 BY <1>2, DivisionIs
    <2> DEFINE e == d % 2
    <2>6. mp_iseven(b) <=> e # 1 BY <2>3, <2>4
    <2> HIDE DEF e
    <2>7. e # 1 <=> e = 0
        <3>1. e \in Nat /\ e < 2 BY <2>5 DEF e
        <3> QED BY <3>1
    <2> QED BY <2>6, <2>7 DEF e
<1> HIDE DEF s, d
<1>7. s \in Signed /\ s = [sign |-> s.sign, dp |-> s.dp] /\ Normal(s.dp) /\ a.sign \in {ZPOS, NEG}
    <2>1. s \in Signed BY <1>3, NumbersIs
    <2> QED BY <1>1, <2>1, SignedIs
<1>8. r = [sign |-> a.sign, dp |-> s.dp] BY <1>7
<1> HIDE DEF r
<1>9. r \in Signed BY <1>7, <1>8, SignedOf
<1>10. Abs(ValueOf(s)) = S /\ r.sign = a.sign /\ r.dp = s.dp /\ S \in Nat /\ ValueOf(s) \in Int
       /\ (a.sign = ZPOS => ValueOf(r) = S) /\ (a.sign = NEG => ValueOf(r) = -S)
    <2>1. r.sign = a.sign /\ r.dp = s.dp BY <1>8
    <2> QED BY <1>7, <1>9, <2>1, SignedIs
<1>11. r \in Numbers
    <2>1. SUFFICES ASSUME r.dp = << 0 >> PROVE r.sign = ZPOS BY <1>9 DEF Numbers
    <2>2. S = 0
        <3>1. s.dp = <<0>> BY <1>10, <2>1
        <3> QED BY <1>7, <3>1, NormalIs
    <2>3. Pow(A, d) = 0
        <3>1. ValueOf(s) \in Int /\ Abs(ValueOf(s)) = 0 BY <1>7, <1>10, <2>2, SignedIs
        <3>2. ValueOf(s) = 0 BY <3>1 DEF Abs
        <3> QED BY <1>3, <3>2
    <2>4. A = 0 BY <1>2, <2>3, PowNotZero
    <2>5. a.sign # NEG BY <2>4, NumbersIs
    <2> QED BY <1>7, <1>10, <2>5
<1>12. Failed(MP_RANGE) BY DEF Failed, MP_RANGE
<1>13. ASSUME (d % 2) = 0 PROVE ValueOf(r) = IF A < 0 THEN -Pow(A, d) ELSE Pow(A, d)
    <2>1. Pow(A, d) >= 0 /\ Pow(A, d) \in Int BY <1>2, <1>13, PowEven, PowIs
    <2>2. S = Pow(A, d)
        <3> HIDE DEF S, A
        <3> QED BY <1>3, <1>10, <2>1 DEF Abs
    <2>3. (a.sign = NEG => A < 0) /\ (a.sign = ZPOS => A >= 0) BY NumbersIs
    <2> HIDE DEF S, A
    <2> QED BY <1>2, <1>7, <1>10, <2>2, <2>3
<1>14. b.sign = ZPOS =>
         ValueOf(mp_expt(a, b)) = IF A < 0 /\ (d % 2) = 0 THEN -Pow(A, d) ELSE Pow(A, d)
    <2> HIDE DEF A
    <2> QED BY <1>3, <1>5, <1>6, <1>e, <1>13
<1>15. Failed(mp_expt(a, b)) \/ mp_expt(a, b) \in Numbers BY <1>3, <1>6, <1>11, <1>12
<1>16. b.sign = NEG => Failed(mp_expt(a, b)) BY <1>5, <1>6, <1>12
<1> QED BY <1>4, <1>14, <1>15, <1>16 DEF A

(* Powers answer with the integers' power, but for the sign of an even power *)
(* of a negative number.                                                     *)
LEMMA NumbersPowers ==
    ASSUME x \in Numbers, y \in Numbers
    PROVE  PowersExact
<1>a. X \in Int /\ Y \in Int /\ (y.sign = ZPOS <=> Y >= 0) /\ y.sign \in {ZPOS, NEG}
    <2>1. x \in Signed /\ y \in Signed BY NumbersIs
    <2> QED BY <2>1, SignedIs, PositiveIs DEF X, Y
<1>b. Y < 0 => Failed(mp_expt(x, y))
    <2>1. Y < 0 => y.sign = NEG BY <1>a
    <2> QED BY <2>1, ExptIs
<1>c. ASSUME Y \in 0 .. MaxExponent
      PROVE  ValueOf(mp_expt(x, y))
               = IF X < 0 /\ (Y % 2) = 0 THEN -Pow(X, Y) ELSE Pow(X, Y)
    <2>1. y.sign = ZPOS
        <3>1. Y >= 0 BY <1>c, MpiArithAssumption
        <3> QED BY <1>a, <3>1
    <2> QED BY <2>1, ExptIs DEF X, Y
<1> SUFFICES ASSUME Y > 0, NEW d \in Digit, d > 0 \/ Y > 1
             PROVE  /\ ValueOf(s_mp_exptmod(x, mp_set(d), y)) = (Pow(X, d) % Y)
                    /\ ValueOf(mp_exptmod_d(x, d, y)) = (Pow(X, d) % Y)
    BY <1>b, <1>c DEF PowersExact
<1>1. mp_set(d) \in Numbers /\ ValueOf(mp_set(d)) = d /\ d \in Nat /\ d >= 0 BY SetIs, DigitInt
<1>2. ValueOf(s_mp_exptmod(x, mp_set(d), y)) = (Pow(X, d) % Y)
    BY <1>1, ExptModIs DEF X, Y
<1>3. ValueOf(mp_exptmod_d(x, d, y)) = (Pow(X, d) % Y)
    BY <1>1, ModLoopIs DEF X, Y, mp_exptmod_d
<1> QED BY <1>2, <1>3

-----------------------------------------------------------------------------
(* A number has no other digits than the integer's *)

LEMMA LowestDigit ==
    ASSUME NEW dp \in Seq(Digit), Len(dp) > 0
    PROVE  (MagnitudeOf(dp) % MP_RADIX) = At(dp, 1)
<1> DEFINE d == At(dp, 1)
           A == MagnitudeOf(dp)
           S == MagnitudeOf(SubSeq(dp, 1 + 1, Len(dp)))
<1>1. Len(dp) \in Nat /\ d \in Digit
    <2>1. 1 \in Int OBVIOUS
    <2> QED BY <2>1, AtIs
<1>2. SubSeq(dp, 1 + 1, Len(dp)) \in Seq(Digit) /\ A = Part(dp, 1) + Weight(1) * S
    <2>1. 1 \in 0 .. Len(dp) BY <1>1
    <2> QED BY <2>1, SuffixIs
<1>3. S \in Nat /\ A \in Nat BY <1>2, MagnitudeIs
<1>4. d \in Nat /\ d < MP_RADIX /\ MP_RADIX \in Nat /\ MP_RADIX > 0
    <2>1. d \in Nat /\ d < MP_RADIX BY <1>1, DigitInt
    <2> QED BY <2>1, RadixIs
<1>5. Part(dp, 1) = d /\ Weight(1) = MP_RADIX
    <2>1. 0 \in Nat /\ 0 + 1 = 1 OBVIOUS
    <2>2. Weight(0) = 1 /\ Weight(0 + 1) = MP_RADIX * Weight(0) BY <2>1, WeightIs
    <2>3. Part(dp, 0) = 0 /\ Part(dp, 0 + 1) = Part(dp, 0) + At(dp, 0 + 1) * Weight(0)
        BY <2>1, PartIs
    <2> HIDE DEF d
    <2>4. At(dp, 1) = d BY DEF d
    <2> QED BY <1>4, <2>1, <2>2, <2>3, <2>4
<1> HIDE DEF d, A, S
<1>6. A = S * MP_RADIX + d
    <2>1. MP_RADIX * S = S * MP_RADIX BY <1>3, <1>4
    <2> DEFINE p == S * MP_RADIX
    <2>2. p \in Nat /\ A = d + p BY <1>2, <1>3, <1>4, <1>5, <2>1
    <2> HIDE DEF p
    <2>3. A = p + d BY <1>4, <2>2
    <2> QED BY <2>3 DEF p
<1>7. (A % MP_RADIX) = d BY <1>3, <1>4, <1>6, DivisionUnique
<1> QED BY <1>7 DEF A, d

LEMMA DigitAt ==
    ASSUME NEW dp \in Seq(Digit), NEW i \in 1 .. Len(dp)
    PROVE  ((MagnitudeOf(dp) \div Weight(i - 1)) % MP_RADIX) = dp[i]
<1> DEFINE k == i - 1
           W == Weight(k)
           s == SubSeq(dp, k + 1, Len(dp))
           S == MagnitudeOf(s)
           A == MagnitudeOf(dp)
           p == Part(dp, k)
<1>1. k \in Nat /\ k \in 0 .. Len(dp) /\ k + 1 = i /\ Len(dp) \in Nat OBVIOUS
<1>2. s \in Seq(Digit) /\ Len(s) = Len(dp) - k /\ A = p + W * S
      /\ \A j \in Nat \ {0} : At(s, j) = At(dp, k + j)
    BY <1>1, SuffixIs
<1>3. S \in Nat /\ A \in Nat BY <1>2, MagnitudeIs
<1>4. W \in Nat /\ W > 0 BY <1>1, WeightIs
<1>5. p \in Nat /\ p < W BY <1>1, PartIs
<1>6. Len(s) > 0 BY <1>1, <1>2
<1>7. At(s, 1) = dp[i]
    <2>1. 1 \in Nat \ {0} OBVIOUS
    <2>2. At(s, 1) = At(dp, i) BY <1>1, <1>2, <2>1
    <2>3. i \in Int OBVIOUS
    <2>4. At(dp, i) = dp[i] BY <2>3, AtIs
    <2> QED BY <2>2, <2>4
<1>8. (S % MP_RADIX) = At(s, 1) BY <1>2, <1>6, LowestDigit
<1> HIDE DEF S, W, A, p
<1>9. A \div W = S
    <2>1. W * S = S * W BY <1>3, <1>4
    <2> DEFINE e == S * W
    <2>2. e \in Nat /\ A = p + e BY <1>2, <1>3, <1>4, <2>1
    <2> HIDE DEF e
    <2>3. A = e + p BY <1>5, <2>2
    <2>4. A = S * W + p BY <2>3 DEF e
    <2> QED BY <1>3, <1>4, <1>5, <2>4, DivisionUnique
<1> QED BY <1>7, <1>8, <1>9 DEF A, W

LEMMA DigitsOfIs ==
    ASSUME NEW dp, Normal(dp)
    PROVE  DigitsOf(MagnitudeOf(dp)) = dp
<1> DEFINE n == MagnitudeOf(dp)
           l == Len(dp)
           Fits(k) == n < Weight(k) /\ (k > 1 => n >= Weight(k - 1))
           used == CHOOSE k \in 1 .. (n + 1) : Fits(k)
           D(k) == [i \in 1 .. k |-> (n \div Weight(i - 1)) % MP_RADIX]
<1>1. dp \in Seq(Digit) /\ n \in Nat /\ l \in Nat /\ l > 0 /\ dp # <<>> /\ (l > 1 => Top(dp) # 0)
    <2>1. n \in Nat /\ l \in Nat /\ l > 0 BY NormalIs
    <2> QED BY <2>1 DEF Normal
<1>2. DigitsOf(n) = D(used) BY DEF DigitsOf
<1>3. n < Weight(l) BY <1>1, MagnitudeIs
<1>4. l > 1 => n >= Weight(l - 1) BY <1>1, MagnitudeAbove
<1>5. l \in 1 .. (n + 1)
    <2>1. CASE l > 1
        <3>1. l - 1 \in Nat /\ MP_DIGIT_BIT \in Nat /\ MP_DIGIT_BIT > 0
            <4>1. l - 1 \in Nat BY <1>1
            <4> QED BY <4>1, RadixIs
        <3> DEFINE e == MP_DIGIT_BIT * (l - 1)
        <3>2. e \in Nat /\ e >= l - 1
            <4> DEFINE u == l - 1
            <4>1. u \in Nat BY <3>1
            <4> HIDE DEF u
            <4>2. MP_DIGIT_BIT * u >= 1 * u BY <3>1, <4>1
            <4>3. MP_DIGIT_BIT * u \in Nat BY <3>1, <4>1
            <4>4. MP_DIGIT_BIT * u >= u BY <4>1, <4>2, <4>3
            <4> QED BY <4>3, <4>4 DEF u
        <3>3. Weight(l - 1) = 2 ^ e BY DEF Weight
        <3> HIDE DEF e
        <3>4. 2 ^ e \in Nat /\ 2 ^ e > e BY <3>2, PowerPositive
        <3>5. n >= l - 1 BY <1>1, <1>4, <2>1, <3>2, <3>3, <3>4
        <3> QED BY <1>1, <3>5
    <2>2. CASE ~(l > 1) BY <1>1, <2>2
    <2> QED BY <2>1, <2>2
<1> HIDE DEF n, l
<1>6. Fits(l) BY <1>3, <1>4
<1>7. used \in 1 .. (n + 1) /\ Fits(used) BY <1>5, <1>6
<1> HIDE DEF used
<1>8. used = l
    <2>1. used \in Nat /\ used >= 1 BY <1>1, <1>7
    <2>2. ASSUME NEW j \in Nat, NEW k \in Nat, Fits(j), Fits(k), j >= 1, j < k PROVE FALSE
        <3>1. k - 1 \in Nat /\ j <= k - 1 /\ k > 1 BY <2>2
        <3>2. Weight(j) <= Weight(k - 1) BY <3>1, WeightMono
        <3>3. n < Weight(j) /\ n >= Weight(k - 1) BY <2>2, <3>1
        <3>4. Weight(j) \in Nat /\ Weight(k - 1) \in Nat BY <3>1, WeightIs
        <3> QED BY <1>1, <3>2, <3>3, <3>4
    <2> HIDE DEF Fits
    <2>3. ~(used < l) /\ ~(l < used) BY <1>1, <1>6, <1>7, <2>1, <2>2
    <2> QED BY <1>1, <2>1, <2>3
<1>9. \A i \in 1 .. l : D(l)[i] = dp[i]
    <2> SUFFICES ASSUME NEW i \in 1 .. l PROVE D(l)[i] = dp[i] OBVIOUS
    <2>1. D(l)[i] = (n \div Weight(i - 1)) % MP_RADIX OBVIOUS
    <2>2. i \in 1 .. Len(dp) BY DEF l
    <2> QED BY <1>1, <2>1, <2>2, DigitAt DEF n
<1>10. dp = [i \in 1 .. l |-> dp[i]] BY <1>1 DEF l
<1>11. D(l) = dp
    <2> DEFINE t == D(l)
    <2>1. t = [i \in 1 .. l |-> t[i]] OBVIOUS
    <2>2. \A i \in 1 .. l : t[i] = dp[i] BY <1>9
    <2> HIDE DEF t, D
    <2>3. t = dp BY <1>10, <2>1, <2>2
    <2> QED BY <2>3 DEF t
<1> QED BY <1>2, <1>8, <1>11 DEF n

LEMMA CanonicalIs ==
    ASSUME NEW n \in Numbers
    PROVE  n = Number(ValueOf(n))
<1> DEFINE N == ValueOf(n)
           d == MagnitudeOf(n.dp)
<1>1. n \in Signed BY NumbersIs
<1>2. n = [sign |-> n.sign, dp |-> n.dp] /\ n.sign \in {ZPOS, NEG} /\ Normal(n.dp)
      /\ N \in Int /\ Abs(N) = d
    BY <1>1, SignedIs
<1>3. (n.sign = NEG => N < 0) /\ (n.sign = ZPOS => N >= 0) BY NumbersIs
<1>4. DigitsOf(Abs(N)) = n.dp BY <1>2, DigitsOfIs
<1>5. (IF N < 0 THEN NEG ELSE ZPOS) = n.sign
    <2> HIDE DEF N
    <2> QED BY <1>2, <1>3
<1> HIDE DEF N
<1>6. Number(N) = [sign |-> n.sign, dp |-> n.dp] BY <1>4, <1>5 DEF Number
<1> QED BY <1>2, <1>6 DEF N

-----------------------------------------------------------------------------
(* Every call answers with a number or fails *)

CallInv == x \in Numbers /\ y \in Numbers

LEMMA StoredIs ==
    ASSUME CallInv, NEW r, Failed(r) \/ r \in Numbers, Store(r)
    PROVE  CallInv'
<1>1. r \in Numbers /\ x' = r /\ y' = y BY DEF Store
<1> QED BY <1>1 DEF CallInv

LEMMA SignsAre ==
    ASSUME NEW a \in Numbers
    PROVE  mp_abs(a) \in Numbers /\ mp_neg(a) \in Numbers
<1>1. a \in Signed BY NumbersIs
<1>2. a = [sign |-> a.sign, dp |-> a.dp] /\ Normal(a.dp) BY <1>1, SignedIs
<1> DEFINE r == [a EXCEPT !.sign = ZPOS]
<1>3. r = [sign |-> ZPOS, dp |-> a.dp] BY <1>2
<1>4. ZPOS \in {ZPOS, NEG} OBVIOUS
<1> HIDE DEF r
<1>5. r \in Signed BY <1>2, <1>3, <1>4, SignedOf
<1>6. r.sign = ZPOS BY <1>3
<1>7. r \in Numbers BY <1>5, <1>6 DEF Numbers
<1>8. mp_abs(a) = r BY DEF mp_abs, r
<1> QED BY <1>1, <1>7, <1>8, NegIs

LEMMA SetIntIs ==
    ASSUME NEW z \in -MP_DIGIT_MAX .. MP_DIGIT_MAX
    PROVE  mp_set_int(z) \in Numbers
<1> DEFINE s == IF z < 0 THEN NEG ELSE ZPOS
           d == Abs(z)
           r == [sign |-> s, dp |-> <<d>>]
<1>1. MP_DIGIT_MAX \in Nat /\ Digit = 0 .. MP_DIGIT_MAX
    <2>1. MP_RADIX \in Nat /\ MP_RADIX >= 4 BY RadixIs
    <2> QED BY <2>1 DEF MP_DIGIT_MAX, Digit
<1>2. z \in Int BY <1>1
<1>3. d \in Digit /\ (z < 0 => d # 0) BY <1>1, <1>2 DEF Abs
<1>4. s \in {ZPOS, NEG} OBVIOUS
<1>5. mp_set_int(z) = r BY DEF mp_set_int
<1>6. z < 0 \/ s = ZPOS OBVIOUS
<1> HIDE DEF d, s
<1>7. Normal(<<d>>) BY <1>3, OneDigit
<1>8. r \in Signed BY <1>4, <1>7, SignedOf
<1>9. r.dp = << 0 >> => r.sign = ZPOS
    <2> SUFFICES ASSUME r.dp = << 0 >> PROVE r.sign = ZPOS OBVIOUS
    <2>1. <<d>>[1] = << 0 >>[1] OBVIOUS
    <2>2. d = 0 BY <2>1
    <2> QED BY <1>3, <1>6, <2>2
<1> HIDE DEF r
<1>10. r \in Numbers BY <1>8, <1>9 DEF Numbers
<1> QED BY <1>5, <1>10

LEMMA TwoPowerIs ==
    ASSUME NEW k \in Nat
    PROVE  mp_2expt(k) \in Numbers
<1> DEFINE n == k \div MP_DIGIT_BIT
           b == k % MP_DIGIT_BIT
           d == 2 ^ b
           z == Zeros(n)
           t == <<d>>
           s == z \o t
           r == [sign |-> ZPOS, dp |-> s]
<1>1. MP_DIGIT_BIT \in Nat /\ MP_DIGIT_BIT > 0 BY RadixIs
<1>2. n \in Nat /\ b \in Nat /\ b < MP_DIGIT_BIT BY <1>1, DivisionIs
<1> HIDE DEF n, b
<1>3. d \in Digit /\ d # 0
    <2>1. d \in Nat /\ d > b BY <1>2, PowerPositive
    <2>2. b + 1 \in Nat /\ b + 1 <= MP_DIGIT_BIT BY <1>1, <1>2
    <2>3. 2 ^ (b + 1) <= 2 ^ MP_DIGIT_BIT BY <1>1, <2>2, PowerMono
    <2>4. 2 ^ (b + 1) = 2 * d BY <1>2, PowerStep
    <2>5. Digit = 0 .. MP_RADIX - 1 /\ MP_RADIX \in Nat /\ MP_RADIX = 2 ^ MP_DIGIT_BIT
        BY RadixIs DEF MP_RADIX
    <2> HIDE DEF d
    <2> QED BY <1>2, <2>1, <2>3, <2>4, <2>5
<1> HIDE DEF d
<1>4. z \in Seq(Digit) /\ Len(z) = n BY <1>2, ZerosAre
<1>5. t \in Seq(Digit) /\ Len(t) = 1 /\ Top(t) = d BY <1>3 DEF Top
<1> HIDE DEF z, t
<1>6. s \in Seq(Digit) /\ Len(s) = n + 1 BY <1>4, <1>5, ConcatIs
<1>7. Top(s) = d
    <2>1. Len(t) > 0 BY <1>5
    <2>2. Top(z \o t) = Top(t) BY <1>4, <1>5, <2>1, ConcatTop
    <2> QED BY <1>5, <2>2
<1> HIDE DEF s
<1>8. s # <<>> BY <1>2, <1>6
<1>9. Normal(s) BY <1>3, <1>6, <1>7, <1>8 DEF Normal
<1>10. ZPOS \in {ZPOS, NEG} OBVIOUS
<1>11. r \in Signed /\ r.sign = ZPOS BY <1>9, <1>10, SignedOf
<1>12. mp_2expt(k) = r BY DEF mp_2expt, s_mp_2expt, s, z, t, d, b, n
<1> HIDE DEF r
<1>13. r \in Numbers BY <1>11 DEF Numbers
<1> QED BY <1>12, <1>13

\* Halving in place is the quotient of mp_div_2d.
LEMMA HalfIs ==
    ASSUME NEW a \in Numbers, a.sign = ZPOS
    PROVE  mp_div_2(a) \in Numbers
<1>1. mp_div_2(a) = mp_div_2d(a, 1).q BY DEF mp_div_2, s_mp_div_2, mp_div_2d
<1>2. 1 \in Nat OBVIOUS
<1> QED BY <1>1, <1>2, Div2dOfIs

LEMMA DivFails ==
    ASSUME NEW a \in Numbers, NEW b \in Numbers
    PROVE  /\ Failed(mp_div(a, b).q) \/ mp_div(a, b).q \in Numbers
           /\ Failed(mp_div(a, b).r) \/ mp_div(a, b).r \in Numbers
<1>1. CASE ValueOf(b) = 0 BY <1>1, QuotientIs
<1>2. CASE ValueOf(b) # 0 BY <1>2, QuotientIs
<1> QED BY <1>1, <1>2

LEMMA DigitCalls ==
    ASSUME CallInv, ~NegativeHalves, NEW d \in Digit,
           \/ Store(mp_set_ulong(d))
           \/ Store(mp_add_d(x, d))
           \/ Store(mp_sub_d(x, d))
           \/ Store(mp_mul_d(x, d))
           \/ MayHalve /\ Store(mp_div_d(x, d).q)
           \/ Store(mp_mod_d(x, d))
           \/ mp_cmp_z(y) = MP_GT /\ Store(mp_exptmod_d(x, d, y))
           \/ Store(s_mp_exptmod(x, mp_set(d), y))
    PROVE  CallInv'
<1>0. x \in Numbers /\ y \in Numbers /\ x \in Signed /\ d \in Nat BY NumbersIs, DigitInt DEF CallInv
<1>1. CASE Store(mp_set_ulong(d))
    <2>1. mp_set_ulong(d) \in Numbers BY SetIs DEF mp_set_ulong
    <2> QED BY <1>1, <2>1, StoredIs
<1>2. CASE Store(mp_add_d(x, d))
    <2>1. mp_add_d(x, d) \in Numbers BY <1>0, AddDigitOps
    <2> QED BY <1>2, <2>1, StoredIs
<1>3. CASE Store(mp_sub_d(x, d))
    <2>1. mp_sub_d(x, d) \in Numbers BY <1>0, AddDigitOps
    <2> QED BY <1>3, <2>1, StoredIs
<1>4. CASE Store(mp_mul_d(x, d))
    <2>1. mp_mul_d(x, d) \in Numbers BY <1>0, MulInPlace
    <2> QED BY <1>4, <2>1, StoredIs
<1>5. CASE MayHalve /\ Store(mp_div_d(x, d).q)
    <2>1. x.sign = ZPOS BY <1>5 DEF MayHalve
    <2>2. Failed(mp_div_d(x, d).q) \/ mp_div_d(x, d).q \in Numbers BY <1>0, <2>1, DivDOfIs
    <2> QED BY <1>5, <2>2, StoredIs
<1>6. CASE Store(mp_mod_d(x, d)) BY <1>0, <1>6, ModDOfIs, StoredIs
<1>7. CASE mp_cmp_z(y) = MP_GT /\ Store(mp_exptmod_d(x, d, y))
    <2>1. mp_cmp_z(y) = Sgn(ValueOf(y)) /\ ValueOf(y) \in Int BY <1>0, CompareIs, PositiveIs
    <2>2. ValueOf(y) > 0 BY <1>7, <2>1 DEF Sgn, MP_GT
    <2>3. mp_exptmod_d(x, d, y) \in Numbers BY <1>0, <2>2, ModLoopIs DEF mp_exptmod_d
    <2> QED BY <1>7, <2>3, StoredIs
<1>8. CASE Store(s_mp_exptmod(x, mp_set(d), y))
    <2>1. mp_set(d) \in Numbers BY SetIs
    <2>2. Failed(s_mp_exptmod(x, mp_set(d), y)) \/ s_mp_exptmod(x, mp_set(d), y) \in Numbers
        BY <1>0, <2>1, ExptModIs
    <2> QED BY <1>8, <2>2, StoredIs
<1> QED BY <1>1, <1>2, <1>3, <1>4, <1>5, <1>6, <1>7, <1>8

LEMMA ShiftCalls ==
    ASSUME CallInv, ~NegativeHalves, NEW k \in 0 .. MaxExponent,
           \/ Store(mp_2expt(k))
           \/ Store(mp_expt_d(x, k))
           \/ MayHalve /\ Store(mp_div_2d(x, k).q)
           \/ MayHalve /\ Store(mp_div_2d(x, k).r)
    PROVE  CallInv'
<1>0. x \in Numbers /\ x \in Signed /\ k \in Nat BY NumbersIs, MpiArithAssumption DEF CallInv
<1>1. CASE Store(mp_2expt(k))
    <2>1. mp_2expt(k) \in Numbers BY <1>0, TwoPowerIs
    <2> QED BY <1>1, <2>1, StoredIs
<1>2. CASE Store(mp_expt_d(x, k))
    <2>1. mp_expt_d(x, k) \in Numbers BY <1>0, ExptDIs
    <2> QED BY <1>2, <2>1, StoredIs
<1>3. CASE MayHalve /\ Store(mp_div_2d(x, k).q)
    <2>1. x.sign = ZPOS BY <1>3 DEF MayHalve
    <2>2. mp_div_2d(x, k).q \in Numbers BY <1>0, <2>1, Div2dOfIs
    <2> QED BY <1>3, <2>2, StoredIs
<1>4. CASE MayHalve /\ Store(mp_div_2d(x, k).r)
    <2>1. x.sign = ZPOS BY <1>4 DEF MayHalve
    <2>2. mp_div_2d(x, k).r \in Numbers BY <1>0, <2>1, Div2dOfIs
    <2> QED BY <1>4, <2>2, StoredIs
<1> QED BY <1>1, <1>2, <1>3, <1>4

LEMMA CallInvKept ==
    ASSUME ~NegativeHalves, CallInv, [Next]_vars
    PROVE  CallInv'
<1>0. x \in Numbers /\ y \in Numbers /\ x \in Signed /\ y \in Signed BY NumbersIs DEF CallInv
<1>1. CASE mp_exch BY <1>0, <1>1 DEF mp_exch, CallInv
<1>2. CASE Store(y) BY <1>0, <1>2, StoredIs
<1>3. CASE Store(mp_abs(x)) BY <1>0, <1>3, SignsAre, StoredIs
<1>4. CASE Store(mp_neg(x)) BY <1>0, <1>4, SignsAre, StoredIs
<1>5. CASE Store(mp_add(x, y)) BY <1>0, <1>5, AddIs, StoredIs
<1>6. CASE Store(mp_sub(x, y)) BY <1>0, <1>6, SubIs, StoredIs
<1>7. CASE Store(mp_mul(x, y)) BY <1>0, <1>7, MulIs, StoredIs
<1>8. CASE Store(mp_sqr(x)) BY <1>0, <1>8, SqrIs, StoredIs
<1>9. CASE Store(mp_mul_2(x))
    <2>1. 0 \in Digit BY RadixIs
    <2>2. mp_mul_2(x) \in Numbers BY <1>0, <2>1, MulInPlace
    <2> QED BY <1>9, <2>2, StoredIs
<1>10. CASE Store(mp_div(x, y).q) BY <1>0, <1>10, DivFails, StoredIs
<1>11. CASE Store(mp_div(x, y).r) BY <1>0, <1>11, DivFails, StoredIs
<1>12. CASE Store(mp_mod(x, y)) BY <1>0, <1>12, ModIs, StoredIs
<1>13. CASE mp_cmp_d(y, MaxExponent) # MP_GT /\ Store(mp_expt(x, y))
    BY <1>0, <1>13, ExptIs, StoredIs
<1>14. CASE MayHalve /\ Store(mp_div_2(x))
    <2>1. x.sign = ZPOS BY <1>14 DEF MayHalve
    <2> QED BY <1>0, <1>14, <2>1, HalfIs, StoredIs
<1>15. CASE \E z \in -MP_DIGIT_MAX .. MP_DIGIT_MAX : Store(mp_set_int(z))
    BY <1>15, SetIntIs, StoredIs
<1>16. CASE \E d \in Digit :
              \/ Store(mp_set_ulong(d))
              \/ Store(mp_add_d(x, d))
              \/ Store(mp_sub_d(x, d))
              \/ Store(mp_mul_d(x, d))
              \/ MayHalve /\ Store(mp_div_d(x, d).q)
              \/ Store(mp_mod_d(x, d))
              \/ mp_cmp_z(y) = MP_GT /\ Store(mp_exptmod_d(x, d, y))
              \/ Store(s_mp_exptmod(x, mp_set(d), y))
    BY <1>16, DigitCalls
<1>17. CASE \E k \in 0 .. MaxExponent :
              \/ Store(mp_2expt(k))
              \/ Store(mp_expt_d(x, k))
              \/ MayHalve /\ Store(mp_div_2d(x, k).q)
              \/ MayHalve /\ Store(mp_div_2d(x, k).r)
    BY <1>17, ShiftCalls
<1>18. CASE UNCHANGED vars BY <1>0, <1>18 DEF vars, CallInv
<1> QED BY <1>1, <1>2, <1>3, <1>4, <1>5, <1>6, <1>7, <1>8, <1>9, <1>10, <1>11, <1>12, <1>13,
           <1>14, <1>15, <1>16, <1>17, <1>18 DEF Next

LEMMA CallInvHolds ==
    ASSUME ~NegativeHalves
    PROVE  Spec => []CallInv
<1>1. Init => CallInv
    <2> SUFFICES ASSUME Init PROVE CallInv OBVIOUS
    <2>1. x = mp_zero /\ y = mp_zero BY DEF Init
    <2> QED BY <2>1, ZeroIs DEF CallInv
<1>2. CallInv /\ [Next]_vars => CallInv' BY CallInvKept
<1> QED BY <1>1, <1>2, PTL DEF Spec

(* No chain of calls of mpi.c, however long, of numbers of any length and    *)
(* digits of any width, leads to numbers with a leading zero digit or a      *)
(* negative zero, or on which a call answers with anything but the integers' *)
(* sum, difference, product, quotient, remainder, power, modular power or    *)
(* order, but for the answers of mp_expt, mp_mod_d and a modulus of one that *)
(* the parts of ArithmeticExact name.  Quotients of negative numbers by a    *)
(* digit or by 2^d are left out: they leave a negative zero.                 *)
THEOREM ArithmeticExactHolds ==
    ASSUME ~NegativeHalves
    PROVE  Spec => []ArithmeticExact
<1>1. CallInv => ArithmeticExact
    <2> SUFFICES ASSUME CallInv PROVE ArithmeticExact OBVIOUS
    <2>1. x \in Numbers /\ y \in Numbers BY DEF CallInv
    <2>2. Canonical BY <2>1, CanonicalIs DEF Canonical
    <2>3. AdditionExact /\ OrderExact BY <2>1, NumbersExact
    <2>4. ProductsExact BY <2>1, NumbersProducts
    <2>5. QuotientsExact BY <2>1, NumbersQuotients
    <2>6. PowersExact BY <2>1, NumbersPowers
    <2> QED BY <2>2, <2>3, <2>4, <2>5, <2>6 DEF ArithmeticExact
<1>2. Spec => []CallInv BY CallInvHolds
<1> QED BY <1>1, <1>2, PTL

=============================================================================
