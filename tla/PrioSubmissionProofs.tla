------------------------ MODULE PrioSubmissionProofs ------------------------
(***************************************************************************)
(* Theorems about one submission (PrioSubmission), the transforms it is    *)
(* made with (MCPoly), the configuration it is made for (PrioConfig) and   *)
(* the integers in submissions (PrioUInt).                                 *)
(*                                                                         *)
(* Those on submissions and transforms hold for every modulus, every       *)
(* generator of roots of unity, every number of data fields and everything *)
(* the client draws.  They rest on what interpolation through the roots of *)
(* unity is: inverse to evaluation there, linear, exact on the products of *)
(* polynomials that have room, and the value of Lagrange's formula.        *)
(*                                                                         *)
(* The bounds of prio/config.c hold for every width of an int, every       *)
(* largest precision and every order of the generator: what PrioConfig_new *)
(* and PrioConfig_new_uint accept, the transforms of prio/poly.c accept,   *)
(* and integers fit as PrioConfig_maxUIntEntries says.  The sums of the    *)
(* bits that two servers hold as shares, weighed, are the sums of the      *)
(* integers the clients encoded, for every precision and number of         *)
(* integers.                                                               *)
(***************************************************************************)
EXTENDS PrioSubmission, MCPoly, PrioConfig, PrioUInt, PrioSnipProofs

-----------------------------------------------------------------------------
(* Interpolation *)

(* A polynomial is linear in its coefficients. *)
LEMMA PolyLinear ==
    ASSUME NEW p \in Terms, NEW q \in Terms, NEW t \in Terms, NEW a \in Int, NEW b \in Int,
           NEW n \in Nat, NEW x \in Int, \A i \in 0 .. n - 1 : t[i] = a * p[i] + b * q[i]
    PROVE  PolyAt(t, n, x) = a * PolyAt(p, n, x) + b * PolyAt(q, n, x)
<1> DEFINE f == PolyTerms(p, x)
           g == PolyTerms(q, x)
           e == PolyTerms(t, x)
<1>1. /\ f \in Terms /\ g \in Terms /\ e \in Terms
      /\ \A i \in Nat : f[i] = p[i] * Pow(x, i) /\ g[i] = q[i] * Pow(x, i) /\ e[i] = t[i] * Pow(x, i)
    BY PolyTermsType
<1> HIDE DEF f, g, e
<1>2. ASSUME NEW i \in 0 .. n - 1 PROVE e[i] = a * f[i] + b * g[i]
    <2> DEFINE u == p[i]
               v == q[i]
               y == Pow(x, i)
    <2>1. i \in Nat OBVIOUS
    <2>2. u \in Int /\ v \in Int /\ y \in Int BY <2>1, PowStep DEF Terms
    <2>3. f[i] = u * y /\ g[i] = v * y /\ e[i] = (a * u + b * v) * y BY <1>1, <2>1
    <2> HIDE DEF u, v, y
    <2>4. (a * u + b * v) * y = a * (u * y) + b * (v * y) BY <2>2
    <2> QED BY <2>3, <2>4
<1>3. Sigma(e, n) = a * Sigma(f, n) + b * Sigma(g, n) BY <1>1, <1>2, SigmaLinear
<1> QED BY <1>3 DEF PolyAt, f, g, e

(* One more coefficient. *)
LEMMA PolyStep ==
    ASSUME NEW p \in Terms, NEW n \in Nat, NEW x \in Int
    PROVE  /\ PolyAt(p, 0, x) = 0 /\ PolyAt(p, n, x) \in Int /\ p[n] \in Int
           /\ PolyAt(p, n + 1, x) = PolyAt(p, n, x) + p[n] * Pow(x, n)
<1> DEFINE f == PolyTerms(p, x)
<1>1. f \in Terms /\ f[n] = p[n] * Pow(x, n) BY PolyTermsType
<1> HIDE DEF f
<1>2. Sigma(f, 0) = 0 /\ Sigma(f, n) \in Int /\ Sigma(f, n + 1) = Sigma(f, n) + f[n]
    BY <1>1, SigmaStep
<1> QED BY <1>1, <1>2 DEF PolyAt, f, Terms

(* A polynomial without coefficients vanishes. *)
LEMMA PolyZero ==
    ASSUME NEW q \in Terms, \A i \in Nat : q[i] = 0, NEW n \in Nat, NEW x \in Int
    PROVE  PolyAt(q, n, x) = 0
<1> DEFINE P == {m \in Nat : PolyAt(q, m, x) = 0}
<1>1. 0 \in P BY PolyStep
<1>2. ASSUME NEW m \in Nat, m \in P PROVE m + 1 \in P
    <2>1. PolyAt(q, m + 1, x) = PolyAt(q, m, x) + q[m] * Pow(x, m) BY PolyStep
    <2>2. Pow(x, m) \in Int BY PowStep
    <2>3. q[m] = 0 BY <1>2
    <2> QED BY <1>2, <2>1, <2>2, <2>3
<1> HIDE DEF P
<1>3. n \in P BY <1>1, <1>2, NatInduct
<1> QED BY <1>3 DEF P

(* The polynomial all of whose coefficients are one. *)
One == [i \in Nat |-> 1]

LEMMA OneFacts ==
    /\ One \in Terms /\ \A i \in Nat : One[i] = 1
    BY DEF One, Terms

(* The powers of one add up to their number, *)
LEMMA OnesCount ==
    ASSUME NEW n \in Nat, NEW x \in Int, Cong(x, 1)
    PROVE  Cong(PolyAt(One, n, x), n)
<1> DEFINE P == {m \in Nat : Cong(PolyAt(One, m, x), m)}
<1>1. 0 \in P
    <2>1. PolyAt(One, 0, x) = 0 BY OneFacts, PolyStep
    <2>2. Cong(0, 0) BY CongRefl
    <2> QED BY <2>1, <2>2
<1>2. ASSUME NEW m \in Nat, m \in P PROVE m + 1 \in P
    <2> DEFINE s == PolyAt(One, m, x)
               y == Pow(x, m)
    <2>1. s \in Int /\ PolyAt(One, m + 1, x) = s + One[m] * y /\ One[m] = 1
        BY OneFacts, PolyStep
    <2>2. y \in Int BY PowStep
    <2>3. Cong(y, 1)
        <3>1. 1 \in Int OBVIOUS
        <3>2. Cong(y, Pow(1, m)) BY <3>1, PowCong
        <3> QED BY <3>2, PowUnit
    <2>4. Cong(s, m) BY <1>2
    <2> HIDE DEF s, y
    <2>5. Cong(s + y, m + 1)
        <3>1. m \in Int /\ 1 \in Int OBVIOUS
        <3> QED BY <2>1, <2>2, <2>3, <2>4, <3>1, CongAdd
    <2>6. s + One[m] * y = s + y BY <2>1, <2>2
    <2> QED BY <2>1, <2>5, <2>6
<1> HIDE DEF P
<1>3. n \in P BY <1>1, <1>2, NatInduct
<1> QED BY <1>3 DEF P

(* and those of any other 2^k-th root of unity to nothing. *)
Vanishes(k) ==
    \A w \in Int : PrimitiveRoot(w, k) =>
        \A d \in 1 .. 2 ^ k - 1 : Cong(PolyAt(One, 2 ^ k, Pow(w, d)), 0)

LEMMA VanishesUp ==
    ASSUME NEW k \in Nat, k # 0, Vanishes(k - 1)
    PROVE  Vanishes(k)
<1> SUFFICES ASSUME NEW w \in Int, PrimitiveRoot(w, k), NEW d \in 1 .. 2 ^ k - 1
             PROVE  Cong(PolyAt(One, 2 ^ k, Pow(w, d)), 0)
    BY DEF Vanishes
<1> DEFINE h == 2 ^ (k - 1)
           x == Pow(w, d)
           z == Pow(w, h)
<1>1. k - 1 \in Nat /\ (k - 1) + 1 = k OBVIOUS
<1>2. h \in Nat /\ 2 ^ k = 2 * h BY <1>1, PowerStep
<1>3. d \in Nat /\ d \in 1 .. 2 * h - 1 BY <1>2
<1>4. x \in Int /\ z \in Int /\ Cong(z, -1) BY <1>2, <1>3, PowStep DEF PrimitiveRoot
<1>5. Cong(Pow(x, h), Pow(-1, d)) /\ Pow(x, h) \in Int
    <2>1. Pow(x, h) = Pow(w, d * h) BY <1>2, <1>3, PowMul
    <2>2. Pow(w, h * d) = Pow(z, d) BY <1>2, <1>3, PowMul
    <2>3. d * h = h * d BY <1>2, <1>3
    <2>4. Cong(Pow(z, d), Pow(-1, d))
        <3>1. -1 \in Int OBVIOUS
        <3> HIDE DEF z
        <3> QED BY <1>3, <1>4, <3>1, PowCong
    <2>5. Pow(x, h) \in Int BY <1>2, <1>4, PowStep
    <2> QED BY <2>1, <2>2, <2>3, <2>4, <2>5
<1>6. CASE d % 2 = 1
    <2> DEFINE q == [i \in Nat |-> 0]
               m == d \div 2
    <2>1. m \in Nat /\ d = 2 * m + 1 BY <1>3, <1>6
    <2> HIDE DEF m
    <2>2. Pow(-1, d) = -1 BY <2>1, PowUnit
    <2>3. Cong(Pow(x, h), -1) BY <1>5, <2>2
    <2>4. q \in Terms /\ \A i \in Nat : q[i] = 0 BY DEF Terms
    <2> HIDE DEF q
    <2>5. ASSUME NEW i \in 0 .. h - 1 PROVE Cong(q[i], One[i] + (-1) * One[i + h])
        <3>1. i \in Nat /\ i + h \in Nat BY <1>2
        <3>2. One[i] + (-1) * One[i + h] = 0 BY <3>1, OneFacts
        <3>3. Cong(0, 0) BY CongRefl
        <3> QED BY <2>4, <3>1, <3>2, <3>3
    <2>6. Cong(PolyAt(One, 2 * h, x), PolyAt(q, h, x))
        <3>1. -1 \in Int OBVIOUS
        <3> HIDE DEF x
        <3> QED BY <1>2, <1>4, <2>3, <2>4, <2>5, <3>1, OneFacts, PolyFold
    <2>7. PolyAt(q, h, x) = 0
        <3> HIDE DEF x
        <3> QED BY <1>2, <1>4, <2>4, PolyZero
    <2> QED BY <1>2, <2>6, <2>7
<1>7. CASE d % 2 # 1
    <2> DEFINE e == d \div 2
               q == [i \in Nat |-> 2]
               w2 == w * w
    <2>1. e \in Nat /\ d = 2 * e /\ e \in 1 .. h - 1 BY <1>2, <1>3, <1>7
    <2> HIDE DEF e
    <2>2. Pow(-1, d) = 1 BY <2>1, PowUnit
    <2>3. Cong(Pow(x, h), 1) BY <1>5, <2>2
    <2>4. q \in Terms /\ \A i \in Nat : q[i] = 2 BY DEF Terms
    <2> HIDE DEF q
    <2>5. ASSUME NEW i \in 0 .. h - 1 PROVE Cong(q[i], One[i] + 1 * One[i + h])
        <3>1. i \in Nat /\ i + h \in Nat BY <1>2
        <3>2. One[i] + 1 * One[i + h] = 2 BY <3>1, OneFacts
        <3>3. Cong(2, 2) BY CongRefl
        <3> QED BY <2>4, <3>1, <3>2, <3>3
    <2>6. Cong(PolyAt(One, 2 * h, x), PolyAt(q, h, x))
        <3>1. 1 \in Int OBVIOUS
        <3> HIDE DEF x
        <3> QED BY <1>2, <1>4, <2>3, <2>4, <2>5, <3>1, OneFacts, PolyFold
    <2>7. PolyAt(q, h, x) = 1 * PolyAt(One, h, x) + 1 * PolyAt(One, h, x)
        <3> DEFINE o1 == 1
                   o2 == 1
                   q1 == One
                   q2 == One
        <3>1. o1 \in Int /\ o2 \in Int /\ q1 \in Terms /\ q2 \in Terms BY OneFacts
        <3>2. \A i \in 0 .. h - 1 : q[i] = o1 * q1[i] + o2 * q2[i]
            <4>1. \A i \in 0 .. h - 1 : i \in Nat /\ q[i] = 2 /\ One[i] = 1 BY <2>4, OneFacts
            <4> QED BY <4>1
        <3>3. h \in Nat /\ x \in Int /\ q \in Terms BY <1>2, <1>4, <2>4
        <3> HIDE DEF o1, o2, q1, q2, x, h
        <3>4. PolyAt(q, h, x) = o1 * PolyAt(q1, h, x) + o2 * PolyAt(q2, h, x)
            BY <3>1, <3>2, <3>3, PolyLinear
        <3> QED BY <3>4 DEF o1, o2, q1, q2
    <2>8. w2 \in Int /\ PrimitiveRoot(w2, k - 1) BY RootSquare
    <2>9. Pow(w2, e) = x BY <2>1, PowSquare
    <2>10. Cong(PolyAt(One, h, Pow(w2, e)), 0)
        <3> HIDE DEF w2
        <3> QED BY <2>1, <2>8 DEF Vanishes
    <2>11. Cong(PolyAt(One, h, x), 0) BY <2>9, <2>10
    <2> DEFINE A == PolyAt(One, h, x)
    <2>12. A \in Int BY <1>2, <1>4, OneFacts, PolyStep
    <2>13. Cong(A + A, 0)
        <3>1. 0 \in Int /\ 0 + 0 = 0 /\ Cong(A, 0) BY <2>11
        <3> HIDE DEF A
        <3>2. Cong(A + A, 0 + 0) BY <2>12, <3>1, CongAdd
        <3> QED BY <3>1, <3>2
    <2>14. PolyAt(q, h, x) = A + A BY <2>7, <2>12
    <2>15. PolyAt(One, 2 * h, x) \in Int
        <3>1. 2 * h \in Nat BY <1>2
        <3> QED BY <1>4, <3>1, OneFacts, PolyStep
    <2> HIDE DEF A
    <2>16. Cong(PolyAt(One, 2 * h, x), 0)
        <3>1. A + A \in Int /\ 0 \in Int BY <2>12
        <3>2. Cong(PolyAt(One, 2 * h, x), A + A) BY <2>6, <2>14
        <3> HIDE DEF x
        <3> QED BY <2>13, <2>15, <3>1, <3>2, CongTrans
    <2> QED BY <1>2, <2>16
<1> QED BY <1>6, <1>7

LEMMA RootsVanish ==
    ASSUME NEW k \in Nat
    PROVE  Vanishes(k)
<1> DEFINE P == {i \in Nat : Vanishes(i)}
<1>1. 0 \in P
    <2>1. 2 ^ 0 = 1 OBVIOUS
    <2>2. 1 .. 2 ^ 0 - 1 = {} BY <2>1
    <2>3. Vanishes(0) BY <2>2 DEF Vanishes
    <2> QED BY <2>3
<1>2. ASSUME NEW i \in Nat, i \in P PROVE i + 1 \in P
    <2> DEFINE j == i + 1
    <2>1. j \in Nat /\ j # 0 /\ j - 1 = i OBVIOUS
    <2>2. Vanishes(j - 1) BY <1>2, <2>1
    <2> HIDE DEF j
    <2>3. Vanishes(j) BY <2>1, <2>2, VanishesUp
    <2> QED BY <2>1, <2>3 DEF j
<1> HIDE DEF P
<1>3. k \in P BY <1>1, <1>2, NatInduct
<1> QED BY <1>3 DEF P

(* The roots of unity are orthogonal. *)
LEMMA Orthogonal ==
    ASSUME NEW k \in 0 .. Generator2Order, NEW s \in 0 .. 2 ^ k - 1, NEW m \in 0 .. 2 ^ k - 1
    PROVE  LET y == Pow(Gen(k, FALSE), s) * Pow(Gen(k, TRUE), m)
           IN  /\ y \in Int
               /\ Cong(PolyAt(One, 2 ^ k, y), IF s = m THEN 2 ^ k ELSE 0)
<1> DEFINE n == 2 ^ k
           w == Gen(k, FALSE)
           u == Gen(k, TRUE)
           a == Pow(w, s)
           b == Pow(u, m)
           y == a * b
<1>1. k \in Nat /\ n \in Nat /\ s \in Nat /\ m \in Nat BY StepIs, PowerStep
<1>2. w \in Int /\ u \in Int /\ PrimitiveRoot(w, k) /\ PrimitiveRoot(u, k) BY GenIsRoot, FieldInt
<1>3. Cong(w * u, 1) BY GensInverse
<1>4. Vanishes(k) BY <1>1, RootsVanish
<1> SUFFICES y \in Int /\ Cong(PolyAt(One, n, y), IF s = m THEN n ELSE 0)
    OBVIOUS
<1> HIDE DEF w, u
<1>5. a \in Int /\ b \in Int /\ y \in Int
    <2>1. a \in Int /\ b \in Int BY <1>1, <1>2, PowStep
    <2> HIDE DEF a, b
    <2> QED BY <2>1
<1>6. ASSUME NEW l \in Nat PROVE Pow(w, l) * Pow(u, l) \in Int /\ Cong(Pow(w, l) * Pow(u, l), 1)
    <2>1. w * u \in Int /\ 1 \in Int BY <1>2
    <2>2. Cong(Pow(w * u, l), Pow(1, l)) BY <1>3, <2>1, PowCong
    <2>3. Pow(w * u, l) = Pow(w, l) * Pow(u, l) /\ Pow(w * u, l) \in Int
        BY <1>2, <2>1, PowProduct, PowStep
    <2> QED BY <2>2, <2>3, PowUnit
<1>7. ASSUME NEW t \in Int, Cong(y, t) PROVE Cong(PolyAt(One, n, y), PolyAt(One, n, t))
    <2>1. ASSUME NEW i \in 0 .. n - 1 PROVE Cong(One[i] * Pow(y, i), One[i] * Pow(t, i))
        <3>1. i \in Nat BY <1>1
        <3>2. One[i] = 1 BY <3>1, OneFacts
        <3>3. Pow(y, i) \in Int /\ Pow(t, i) \in Int /\ Cong(Pow(y, i), Pow(t, i))
            <4> HIDE DEF y
            <4> QED BY <1>5, <1>7, <3>1, PowStep, PowCong
        <3>4. One[i] * Pow(y, i) = Pow(y, i) /\ One[i] * Pow(t, i) = Pow(t, i) BY <3>2, <3>3
        <3> QED BY <3>3, <3>4
    <2> HIDE DEF y
    <2> QED BY <1>1, <1>5, <2>1, OneFacts, PolyCong
<1>8. CASE s = m
    <2>1. Cong(y, 1) BY <1>1, <1>6, <1>8
    <2>2. Cong(PolyAt(One, n, y), n)
        <3> HIDE DEF y
        <3> QED BY <1>1, <1>5, <2>1, OnesCount
    <2> QED BY <1>5, <1>8, <2>2
<1>9. CASE s > m
    <2> DEFINE d == s - m
               c == Pow(w, d)
               e == Pow(w, m) * Pow(u, m)
    <2>1. d \in Nat /\ d \in 1 .. n - 1 /\ s = d + m BY <1>1, <1>9
    <2>2. c \in Int /\ a = c * Pow(w, m)
        <3> HIDE DEF d
        <3>1. Pow(w, d + m) = Pow(w, d) * Pow(w, m) BY <1>1, <1>2, <2>1, PowSum
        <3>2. Pow(w, d) \in Int BY <1>2, <2>1, PowStep
        <3> QED BY <2>1, <3>1, <3>2
    <2>3. e \in Int /\ Cong(e, 1) /\ Pow(w, m) \in Int BY <1>1, <1>2, <1>6, PowStep
    <2>4. y = c * e
        <3> DEFINE x == Pow(w, m)
        <3>1. x \in Int /\ a = c * x /\ e = x * b BY <2>2, <2>3
        <3> HIDE DEF x, a, b, c, e
        <3>2. (c * x) * b = c * (x * b) BY <1>5, <2>2, <3>1
        <3> QED BY <3>1, <3>2
    <2>5. Cong(y, c)
        <3>1. 1 \in Int /\ c * 1 = c BY <2>2
        <3> HIDE DEF c, e
        <3>2. Cong(c * e, c * 1) BY <2>2, <2>3, <3>1, CongScale
        <3> QED BY <2>4, <3>1, <3>2
    <2>6. Cong(PolyAt(One, n, y), PolyAt(One, n, c)) BY <1>7, <2>2, <2>5
    <2>7. Cong(PolyAt(One, n, c), 0) BY <1>2, <1>4, <2>1 DEF Vanishes
    <2>8. PolyAt(One, n, y) \in Int /\ PolyAt(One, n, c) \in Int /\ 0 \in Int
        <3> HIDE DEF y, c
        <3>1. 0 \in Int OBVIOUS
        <3> QED BY <1>1, <1>5, <2>2, <3>1, OneFacts, PolyStep
    <2>9. Cong(PolyAt(One, n, y), 0) BY <2>6, <2>7, <2>8, CongTrans
    <2>10. s # m BY <1>1, <1>9
    <2> QED BY <1>5, <2>9, <2>10
<1>10. CASE s < m
    <2> DEFINE d == m - s
               c == Pow(u, d)
               e == Pow(w, s) * Pow(u, s)
    <2>1. d \in Nat /\ d \in 1 .. n - 1 /\ m = s + d BY <1>1, <1>10
    <2>2. c \in Int /\ b = Pow(u, s) * c
        <3> HIDE DEF d
        <3>1. Pow(u, s + d) = Pow(u, s) * Pow(u, d) BY <1>1, <1>2, <2>1, PowSum
        <3>2. Pow(u, d) \in Int BY <1>2, <2>1, PowStep
        <3> QED BY <2>1, <3>1, <3>2
    <2>3. e \in Int /\ Cong(e, 1) /\ Pow(u, s) \in Int BY <1>1, <1>2, <1>6, PowStep
    <2>4. y = e * c
        <3> DEFINE x == Pow(u, s)
        <3>1. x \in Int /\ b = x * c /\ e = a * x BY <2>2, <2>3
        <3> HIDE DEF x, a, b, c, e
        <3>2. a * (x * c) = (a * x) * c BY <1>5, <2>2, <3>1
        <3> QED BY <3>1, <3>2
    <2>5. Cong(y, c)
        <3>1. 1 \in Int /\ 1 * c = c BY <2>2
        <3> HIDE DEF c, e
        <3>2. Cong(e * c, 1 * c) BY <2>2, <2>3, <3>1, CongScale
        <3> QED BY <2>4, <3>1, <3>2
    <2>6. Cong(PolyAt(One, n, y), PolyAt(One, n, c)) BY <1>7, <2>2, <2>5
    <2>7. Cong(PolyAt(One, n, c), 0) BY <1>2, <1>4, <2>1 DEF Vanishes
    <2>8. PolyAt(One, n, y) \in Int /\ PolyAt(One, n, c) \in Int /\ 0 \in Int
        <3> HIDE DEF y, c
        <3>1. 0 \in Int OBVIOUS
        <3> QED BY <1>1, <1>5, <2>2, <3>1, OneFacts, PolyStep
    <2>9. Cong(PolyAt(One, n, y), 0) BY <2>6, <2>7, <2>8, CongTrans
    <2>10. s # m BY <1>1, <1>10
    <2> QED BY <1>5, <2>9, <2>10
<1>11. s = m \/ s > m \/ s < m BY <1>1
<1> QED BY <1>8, <1>9, <1>10, <1>11

-----------------------------------------------------------------------------
(* Interpolation through the roots of unity *)

(* The values of a polynomial of degree below n at the powers of w. *)
ValuesAt(p, n, w) == [i \in Nat |-> PolyAt(p, n, Pow(w, i))]

LEMMA ValuesType ==
    ASSUME NEW p \in Terms, NEW n \in Nat, NEW w \in Int
    PROVE  /\ ValuesAt(p, n, w) \in Terms
           /\ \A i \in Nat : ValuesAt(p, n, w)[i] = PolyAt(p, n, Pow(w, i))
<1>1. ASSUME NEW i \in Nat PROVE PolyAt(p, n, Pow(w, i)) \in Int
    <2>1. Pow(w, i) \in Int BY PowStep
    <2> QED BY <2>1, PolyTermsType
<1> QED BY <1>1 DEF ValuesAt, Terms

(* The powers of y as coefficients. *)
Powers(y) == [i \in Nat |-> Pow(y, i)]

LEMMA PowersAt ==
    ASSUME NEW y \in Int, NEW z \in Int, NEW n \in Nat
    PROVE  /\ Powers(y) \in Terms /\ \A i \in Nat : Powers(y)[i] = Pow(y, i)
           /\ PolyAt(Powers(y), n, z) = PolyAt(One, n, y * z)
<1> DEFINE f == PolyTerms(Powers(y), z)
           g == PolyTerms(One, y * z)
<1>1. /\ Powers(y) \in Terms /\ \A i \in Nat : Powers(y)[i] = Pow(y, i)
    <2>1. \A i \in Nat : Pow(y, i) \in Int BY PowStep
    <2> QED BY <2>1 DEF Powers, Terms
<1>2. y * z \in Int OBVIOUS
<1>3. /\ f \in Terms /\ \A i \in Nat : f[i] = Powers(y)[i] * Pow(z, i)
    BY <1>1, PolyTermsType
<1>4. /\ g \in Terms /\ \A i \in Nat : g[i] = One[i] * Pow(y * z, i)
    BY <1>2, OneFacts, PolyTermsType
<1> HIDE DEF f, g
<1>5. ASSUME NEW i \in 0 .. n - 1 PROVE f[i] = g[i]
    <2>1. i \in Nat OBVIOUS
    <2>2. f[i] = Pow(y, i) * Pow(z, i) BY <1>1, <1>3, <2>1
    <2>3. g[i] = 1 * Pow(y * z, i) BY <1>4, <2>1, OneFacts
    <2>4. Pow(y * z, i) = Pow(y, i) * Pow(z, i) BY <2>1, PowProduct
    <2>5. Pow(y * z, i) \in Int BY <1>2, <2>1, PowStep
    <2> QED BY <2>2, <2>3, <2>4, <2>5
<1>6. Sigma(f, n) = Sigma(g, n) BY <1>3, <1>4, <1>5, SigmaSame
<1> QED BY <1>1, <1>6 DEF f, g, PolyAt

(* Transforming there and back multiplies by the number of points. *)
LEMMA ThereAndBack ==
    ASSUME NEW k \in 0 .. Generator2Order, NEW v \in BOOLEAN, NEW p \in Terms,
           NEW n \in 0 .. 2 ^ k, NEW m \in 0 .. 2 ^ k - 1
    PROVE  Cong(PolyAt(ValuesAt(p, n, Gen(k, v)), 2 ^ k, Pow(Gen(k, ~v), m)),
                IF m < n THEN 2 ^ k * p[m] ELSE 0)
<1> DEFINE L == 2 ^ k
           w == Gen(k, v)
           z == Pow(Gen(k, ~v), m)
           R(i) == IF m < i THEN L * p[m] ELSE 0
           P == {i \in Nat : i <= L => Cong(PolyAt(ValuesAt(p, i, w), L, z), R(i))}
<1>1. k \in Nat /\ L \in Nat /\ m \in Nat /\ n \in Nat BY StepIs, PowerStep
<1>2. w \in Int /\ z \in Int
    <2>1. w \in Int /\ Gen(k, ~v) \in Int BY GenIsRoot, FieldInt
    <2> QED BY <1>1, <2>1, PowStep
<1>3. ASSUME NEW s \in 0 .. L - 1
      PROVE  /\ Pow(w, s) \in Int /\ Pow(w, s) * z \in Int
             /\ Cong(PolyAt(One, L, Pow(w, s) * z), IF s = m THEN L ELSE 0)
    <2> DEFINE a == Pow(w, s)
    <2>1. s \in Nat BY <1>1
    <2>2. a \in Int BY <1>2, <2>1, PowStep
    <2>3. a * z \in Int
        <3> HIDE DEF a, z
        <3> QED BY <1>2, <2>2
    <2>4. CASE v = FALSE
        <3>1. Cong(PolyAt(One, L, a * z), IF s = m THEN L ELSE 0) BY <2>4, Orthogonal
        <3> QED BY <2>2, <2>3, <3>1
    <2>5. CASE v = TRUE
        <3>1. Cong(PolyAt(One, L, z * a), IF m = s THEN L ELSE 0) BY <2>5, Orthogonal
        <3>2. z * a = a * z
            <4> HIDE DEF a, z
            <4> QED BY <1>2, <2>2
        <3> QED BY <2>2, <2>3, <3>1, <3>2
    <2> QED BY <2>4, <2>5
<1>4. p[m] \in Int BY <1>1 DEF Terms
<1> SUFFICES Cong(PolyAt(ValuesAt(p, n, w), L, z), R(n)) OBVIOUS
<1> HIDE DEF L, w, z
<1>5. ASSUME NEW i \in Nat
      PROVE  /\ ValuesAt(p, i, w) \in Terms /\ PolyAt(ValuesAt(p, i, w), L, z) \in Int
             /\ R(i) \in Int /\ p[i] \in Int
    <2> DEFINE q == ValuesAt(p, i, w)
    <2>1. q \in Terms BY <1>2, ValuesType
    <2> HIDE DEF q
    <2>2. PolyAt(q, L, z) \in Int BY <1>1, <1>2, <2>1, PolyStep
    <2>3. R(i) \in Int
        <3> DEFINE c == p[m]
        <3>1. c \in Int BY <1>4
        <3> HIDE DEF c
        <3>2. L * c \in Int BY <1>1, <3>1
        <3> QED BY <3>2 DEF c
    <2>4. p[i] \in Int BY DEF Terms
    <2> QED BY <2>1, <2>2, <2>3, <2>4 DEF q
<1>6. 0 \in P
    <2> DEFINE q == ValuesAt(p, 0, w)
    <2>1. \A i \in Nat : Pow(w, i) \in Int BY <1>2, PowStep
    <2>2. ASSUME NEW i \in Nat PROVE q[i] = 0
        <3>1. 0 \in Nat OBVIOUS
        <3>2. q[i] = PolyAt(p, 0, Pow(w, i)) BY <1>2, <3>1, ValuesType
        <3>3. PolyAt(p, 0, Pow(w, i)) = 0 BY <2>1, <3>1, PolyStep
        <3> QED BY <3>2, <3>3
    <2>3. q \in Terms BY <1>5
    <2> HIDE DEF q
    <2>4. PolyAt(q, L, z) = 0 BY <1>1, <1>2, <2>2, <2>3, PolyZero
    <2>5. Cong(0, 0) BY CongRefl
    <2>6. R(0) = 0 BY <1>1
    <2> QED BY <2>4, <2>5, <2>6 DEF q
<1>7. ASSUME NEW i \in Nat, i \in P PROVE i + 1 \in P
    <2> SUFFICES ASSUME i + 1 <= L
                 PROVE  Cong(PolyAt(ValuesAt(p, i + 1, w), L, z), R(i + 1))
        OBVIOUS
    <2> DEFINE q == ValuesAt(p, i, w)
               t == ValuesAt(p, i + 1, w)
               y == Pow(w, i)
               e == Powers(y)
               c == p[i]
               A == PolyAt(q, L, z)
               B == PolyAt(e, L, z)
               d == IF i = m THEN L ELSE 0
    <2>1. i \in 0 .. L - 1 /\ i + 1 \in Nat BY <1>1
    <2>2. q \in Terms /\ t \in Terms /\ A \in Int /\ c \in Int /\ R(i) \in Int BY <1>5
    <2>3. y \in Int /\ y * z \in Int /\ Cong(PolyAt(One, L, y * z), d) BY <1>3, <2>1
    <2>4. e \in Terms /\ (\A j \in Nat : e[j] = Pow(y, j)) /\ B = PolyAt(One, L, y * z)
        BY <1>1, <1>2, <2>3, PowersAt
    <2>5. \A j \in Nat : /\ q[j] = PolyAt(p, i, Pow(w, j))
                         /\ t[j] = PolyAt(p, i + 1, Pow(w, j))
        BY <1>2, <2>1, ValuesType
    <2>6. ASSUME NEW j \in 0 .. L - 1 PROVE t[j] = 1 * q[j] + c * e[j]
        <3>1. j \in Nat BY <1>1
        <3>2. Pow(w, j) \in Int BY <1>2, <3>1, PowStep
        <3>3. t[j] = q[j] + c * Pow(Pow(w, j), i) BY <2>5, <3>1, <3>2, PolyStep
        <3>4. Pow(Pow(w, j), i) = Pow(y, j)
            <4>1. Pow(w, j * i) = Pow(Pow(w, j), i) BY <1>2, <3>1, PowMul
            <4>2. Pow(w, i * j) = Pow(Pow(w, i), j) BY <1>2, <3>1, PowMul
            <4>3. i * j = j * i BY <3>1
            <4> QED BY <4>1, <4>2, <4>3
        <3>5. q[j] \in Int BY <2>2, <3>1 DEF Terms
        <3> HIDE DEF c, q, t, e
        <3> QED BY <2>4, <3>1, <3>3, <3>4, <3>5
    <2>7. PolyAt(t, L, z) = 1 * A + c * B
        <3> DEFINE o == 1
        <3>1. o \in Int /\ \A j \in 0 .. L - 1 : t[j] = o * q[j] + c * e[j] BY <2>6
        <3>2. L \in Nat /\ z \in Int /\ q \in Terms /\ e \in Terms /\ t \in Terms /\ c \in Int
            BY <1>1, <1>2, <2>2, <2>4
        <3> HIDE DEF o, q, t, e, c, A, B
        <3>3. PolyAt(t, L, z) = o * PolyAt(q, L, z) + c * PolyAt(e, L, z)
            BY <3>1, <3>2, PolyLinear
        <3> QED BY <3>3 DEF o, A, B
    <2>8. B \in Int BY <1>1, <1>2, <2>4, PolyStep
    <2>9. Cong(A, R(i))
        <3>1. i <= L BY <1>1
        <3> QED BY <1>7, <3>1
    <2>10. d \in Int /\ Cong(B, d) BY <1>1, <2>3, <2>4
    <2>11. R(i + 1) = R(i) + c * d
        <3>1. CASE i = m
            <4>1. R(i + 1) = L * c /\ R(i) = 0 /\ d = L BY <1>1, <3>1
            <4>2. L * c = 0 + c * L
                <5> HIDE DEF c
                <5> QED BY <1>1, <2>2
            <4> QED BY <4>1, <4>2
        <3>2. CASE i # m
            <4>1. R(i + 1) = R(i) /\ d = 0 BY <1>1, <3>2
            <4> HIDE DEF c, R
            <4>2. R(i) = R(i) + c * 0 BY <2>2
            <4> QED BY <4>1, <4>2
        <3> QED BY <3>1, <3>2
    <2>12. Cong(1 * A + c * B, R(i) + c * d)
        <3> DEFINE r == R(i)
        <3>1. r \in Int /\ Cong(A, r) BY <2>2, <2>9
        <3> HIDE DEF r, A, B, c, d
        <3>2. Cong(c * B, c * d) BY <2>2, <2>8, <2>10, CongScale
        <3>3. c * B \in Int /\ c * d \in Int /\ 1 * A = A BY <2>2, <2>8, <2>10
        <3>4. Cong(A + c * B, r + c * d) BY <2>2, <3>1, <3>2, <3>3, CongAdd
        <3> QED BY <3>3, <3>4 DEF r
    <2> QED BY <2>7, <2>11, <2>12
<1> HIDE DEF P
<1>8. n \in P BY <1>1, <1>6, <1>7, NatInduct
<1>9. n <= L BY DEF L
<1> QED BY <1>8, <1>9 DEF P


(* Congruent coefficients give congruent values. *)
LEMMA CoefficientsCong ==
    ASSUME NEW p \in Terms, NEW q \in Terms, NEW n \in Nat, NEW x \in Int,
           \A i \in 0 .. n - 1 : Cong(p[i], q[i])
    PROVE  Cong(PolyAt(p, n, x), PolyAt(q, n, x))
<1>1. ASSUME NEW i \in 0 .. n - 1 PROVE Cong(p[i] * Pow(x, i), q[i] * Pow(x, i))
    <2> DEFINE a == p[i]
               b == q[i]
               y == Pow(x, i)
    <2>1. i \in Nat OBVIOUS
    <2>2. a \in Int /\ b \in Int /\ y \in Int BY <2>1, PowStep DEF Terms
    <2>3. Cong(a, b) OBVIOUS
    <2> HIDE DEF a, b, y
    <2>4. Cong(a * y, b * y) BY <2>2, <2>3, CongScale
    <2> QED BY <2>4 DEF a, b, y
<1> QED BY <1>1, PolyCong

LEMMA PolyScale ==
    ASSUME NEW p \in Terms, NEW t \in Terms, NEW a \in Int, NEW n \in Nat, NEW x \in Int,
           \A i \in 0 .. n - 1 : t[i] = a * p[i]
    PROVE  PolyAt(t, n, x) = a * PolyAt(p, n, x)
<1> DEFINE q == [i \in Nat |-> 0]
           o == 1
<1>1. q \in Terms /\ (\A i \in Nat : q[i] = 0) /\ o \in Int BY DEF Terms
<1>2. ASSUME NEW i \in 0 .. n - 1 PROVE t[i] = a * p[i] + o * q[i]
    <2> DEFINE b == p[i]
    <2>1. i \in Nat OBVIOUS
    <2>2. b \in Int BY <2>1 DEF Terms
    <2>3. t[i] = a * b OBVIOUS
    <2> HIDE DEF b
    <2>4. a * b \in Int BY <2>2
    <2> QED BY <1>1, <2>1, <2>3, <2>4 DEF b
<1> HIDE DEF q, o
<1>3. PolyAt(t, n, x) = a * PolyAt(p, n, x) + o * PolyAt(q, n, x) BY <1>1, <1>2, PolyLinear
<1>4. PolyAt(q, n, x) = 0 BY <1>1, PolyZero
<1>5. PolyAt(p, n, x) \in Int BY PolyStep
<1> DEFINE A == PolyAt(p, n, x)
<1>6. A \in Int /\ PolyAt(t, n, x) = a * A + o * 0 BY <1>3, <1>4, <1>5
<1> HIDE DEF A
<1>7. a * A \in Int BY <1>6
<1> QED BY <1>6, <1>7 DEF A, o

(* The inverse transform of poly_fft interpolates: the polynomial whose    *)
(* coefficients it returns takes the given values at the roots of unity.   *)
THEOREM InterpolatesPoints ==
    ASSUME NEW k \in 0 .. Generator2Order, NEW y \in Ints(2 ^ k), NEW j \in 0 .. 2 ^ k - 1
    PROVE  Cong(PolyAt(Ext(poly_fft(y, TRUE)), 2 ^ k, Pow(Gen(k, FALSE), j)), y[j + 1])
<1> DEFINE n == 2 ^ k
           c == poly_fft(y, TRUE)
           u == Gen(k, TRUE)
           z == Pow(Gen(k, FALSE), j)
           v == invmod(n)
           p == Ext(y)
           V == ValuesAt(p, n, u)
           t == [i \in Nat |-> v * V[i]]
<1>1. k \in Nat /\ n \in Nat /\ j \in Nat /\ n \in 0 .. n BY StepIs, PowerStep
<1>2. v \in Int /\ Cong(n * v, 1) BY <1>1, LengthInverse, FieldInt
<1>3. u \in Int /\ z \in Int
    <2>1. u \in Int /\ Gen(k, FALSE) \in Int BY GenIsRoot, FieldInt
    <2> QED BY <1>1, <2>1, PowStep
<1>4. /\ c \in Ints(n)
      /\ \A i \in 0 .. n - 1 : Cong(c[i + 1], v * PolyAt(p, n, Pow(u, i)))
    BY InverseIs
<1>5. Cong(PolyAt(V, n, z), IF j < n THEN n * p[j] ELSE 0)
    <2>1. TRUE \in BOOLEAN /\ ~TRUE = FALSE OBVIOUS
    <2>2. p \in Terms BY <1>1, ExtType
    <2> HIDE DEF p
    <2>3. Cong(PolyAt(ValuesAt(p, n, Gen(k, TRUE)), n, Pow(Gen(k, ~TRUE), j)),
               IF j < n THEN n * p[j] ELSE 0)
        BY <1>1, <2>1, <2>2, ThereAndBack
    <2> QED BY <2>1, <2>3
<1> SUFFICES Cong(PolyAt(Ext(c), n, z), y[j + 1]) OBVIOUS
<1>6. p \in Terms /\ Ext(c) \in Terms /\ j + 1 \in 1 .. n /\ j < n
    <2>1. p \in Terms BY <1>1, ExtType
    <2>2. Ext(c) \in Terms
        <3> HIDE DEF c, n
        <3> QED BY <1>1, <1>4, ExtType
    <2>3. j \in 0 .. n - 1 OBVIOUS
    <2> HIDE DEF n, c, p
    <2>4. j + 1 \in 1 .. n /\ j < n BY <1>1, <2>3
    <2> QED BY <2>1, <2>2, <2>4
<1>7. p[j] = y[j + 1] /\ p[j] \in Int
    BY <1>1, <1>6, ExtType DEF Terms
<1>8. \A i \in 0 .. n - 1 : Ext(c)[i] = c[i + 1]
    <2> HIDE DEF c, n
    <2> QED BY <1>1, <1>4, ExtType
<1> HIDE DEF n, c, u, z, v, p
<1>9. V \in Terms /\ \A i \in Nat : V[i] = PolyAt(p, n, Pow(u, i)) /\ V[i] \in Int
    <2>1. V \in Terms /\ \A i \in Nat : V[i] = PolyAt(p, n, Pow(u, i))
        BY <1>1, <1>3, <1>6, ValuesType
    <2> HIDE DEF V
    <2>2. \A i \in Nat : V[i] \in Int BY <2>1 DEF Terms
    <2> QED BY <2>1, <2>2
<1>10. /\ t \in Terms /\ \A i \in Nat : t[i] = v * V[i]
    <2>1. ASSUME NEW i \in Nat PROVE v * V[i] \in Int
        <3> DEFINE a == V[i]
        <3>1. a \in Int BY <1>9
        <3> HIDE DEF a
        <3>2. v * a \in Int BY <1>2, <3>1
        <3> QED BY <3>2 DEF a
    <2> QED BY <2>1 DEF Terms
<1> HIDE DEF V, t
<1>11. ASSUME NEW i \in 0 .. n - 1 PROVE Cong(Ext(c)[i], t[i])
    <2>1. i \in Nat BY <1>1
    <2> QED BY <1>4, <1>8, <1>9, <1>10, <2>1
<1>12. Cong(PolyAt(Ext(c), n, z), PolyAt(t, n, z))
    BY <1>1, <1>3, <1>6, <1>10, <1>11, CoefficientsCong
<1>13. PolyAt(t, n, z) = v * PolyAt(V, n, z)
    <2>1. \A i \in 0 .. n - 1 : t[i] = v * V[i] BY <1>1, <1>10
    <2> QED BY <1>1, <1>2, <1>3, <1>9, <1>10, <2>1, PolyScale
<1> DEFINE A == PolyAt(V, n, z)
           b == y[j + 1]
           C == PolyAt(Ext(c), n, z)
<1>14. A \in Int /\ C \in Int /\ b \in Int BY <1>1, <1>3, <1>6, <1>7, <1>9, PolyStep
<1>15. Cong(A, n * b) BY <1>5, <1>6, <1>7
<1>16. Cong(C, v * A) BY <1>12, <1>13
<1> HIDE DEF A, b, C
<1>17. Cong(v * A, v * (n * b))
    <2>1. n * b \in Int BY <1>1, <1>14
    <2> QED BY <1>2, <1>14, <1>15, <2>1, CongScale
<1>18. Cong((n * v) * b, 1 * b)
    <2>1. n * v \in Int /\ 1 \in Int BY <1>1, <1>2
    <2> QED BY <1>2, <1>14, <2>1, CongScale
<1>19. v * (n * b) = (n * v) * b /\ 1 * b = b BY <1>1, <1>2, <1>14
<1>20. v * A \in Int /\ v * (n * b) \in Int BY <1>1, <1>2, <1>14
<1>21. Cong(v * A, b)
    <2>1. Cong(v * (n * b), b) BY <1>18, <1>19
    <2> QED BY <1>14, <1>17, <1>20, <2>1, CongTrans
<1>22. Cong(C, b) BY <1>14, <1>16, <1>20, <1>21, CongTrans
<1> QED BY <1>22 DEF C, b

(* It is the only polynomial of fewer coefficients than points that does:  *)
(* what poly_interp_evaluate returns at any point is the value of every    *)
(* such polynomial.                                                        *)
THEOREM InterpolationUnique ==
    ASSUME NEW k \in 0 .. Generator2Order, NEW y \in Ints(2 ^ k), NEW p \in Terms, NEW x \in Int,
           \A j \in 0 .. 2 ^ k - 1 : Cong(y[j + 1], PolyAt(p, 2 ^ k, Pow(Gen(k, FALSE), j)))
    PROVE  Cong(PolyAt(Ext(poly_fft(y, TRUE)), 2 ^ k, x), PolyAt(p, 2 ^ k, x))
<1> DEFINE n == 2 ^ k
           c == poly_fft(y, TRUE)
           w == Gen(k, FALSE)
           u == Gen(k, TRUE)
           v == invmod(n)
           V == ValuesAt(p, n, w)
<1>1. k \in Nat /\ n \in Nat /\ n \in 0 .. n BY StepIs, PowerStep
<1>2. v \in Int /\ Cong(n * v, 1) BY <1>1, LengthInverse, FieldInt
<1>3. u \in Int /\ w \in Int BY GenIsRoot, FieldInt
<1>4. /\ c \in Ints(n)
      /\ \A i \in 0 .. n - 1 : Cong(c[i + 1], v * PolyAt(Ext(y), n, Pow(u, i)))
    BY InverseIs
<1>5. ASSUME NEW m \in 0 .. n - 1
      PROVE  Cong(PolyAt(V, n, Pow(u, m)), IF m < n THEN n * p[m] ELSE 0)
    <2>1. FALSE \in BOOLEAN /\ ~FALSE = TRUE OBVIOUS
    <2>2. Cong(PolyAt(ValuesAt(p, n, Gen(k, FALSE)), n, Pow(Gen(k, ~FALSE), m)),
               IF m < n THEN n * p[m] ELSE 0)
        BY <1>1, <2>1, ThereAndBack
    <2> QED BY <2>1, <2>2
<1>6. Ext(y) \in Terms /\ \A i \in 0 .. n - 1 : Ext(y)[i] = y[i + 1]
    <2> HIDE DEF n
    <2>1. y \in Ints(n) BY DEF n
    <2> QED BY <1>1, <2>1, ExtType
<1>7. Ext(c) \in Terms /\ \A i \in 0 .. n - 1 : Ext(c)[i] = c[i + 1]
    <2> HIDE DEF c, n
    <2> QED BY <1>1, <1>4, ExtType
<1>8. \A j \in 0 .. n - 1 : Cong(y[j + 1], PolyAt(p, n, Pow(w, j))) OBVIOUS
<1> SUFFICES Cong(PolyAt(Ext(c), n, x), PolyAt(p, n, x)) OBVIOUS
<1> HIDE DEF n, c, w, u, v
<1>9. V \in Terms /\ \A i \in Nat : V[i] = PolyAt(p, n, Pow(w, i))
    BY <1>1, <1>3, ValuesType
<1>10. ASSUME NEW m \in 0 .. n - 1 PROVE Cong(Ext(c)[m], p[m])
    <2> DEFINE z == Pow(u, m)
               A == PolyAt(Ext(y), n, z)
               B == PolyAt(V, n, z)
               b == p[m]
               C == Ext(c)[m]
    <2>1. m \in Nat /\ m < n BY <1>1
    <2>2. z \in Int /\ b \in Int /\ C \in Int BY <1>3, <1>7, <2>1, PowStep DEF Terms
    <2>3. Cong(C, v * A) BY <1>4, <1>7
    <2>4. Cong(A, B)
        <3>1. ASSUME NEW i \in 0 .. n - 1 PROVE Cong(Ext(y)[i], V[i])
            <4>1. i \in Nat BY <1>1
            <4> QED BY <1>6, <1>8, <1>9, <4>1
        <3> HIDE DEF z, V
        <3> QED BY <1>1, <1>6, <1>9, <2>2, <3>1, CoefficientsCong
    <2>5. Cong(B, n * b) BY <1>5, <2>1
    <2>6. A \in Int /\ B \in Int
        <3> HIDE DEF z, V
        <3> QED BY <1>1, <1>6, <1>9, <2>2, PolyStep
    <2> HIDE DEF z, A, B, b, C
    <2>7. n * b \in Int /\ v * A \in Int /\ v * (n * b) \in Int BY <1>1, <1>2, <2>2, <2>6
    <2>8. Cong(A, n * b) BY <2>4, <2>5, <2>6, <2>7, CongTrans
    <2>9. Cong(v * A, v * (n * b)) BY <1>2, <2>6, <2>7, <2>8, CongScale
    <2>10. Cong((n * v) * b, 1 * b)
        <3>1. n * v \in Int /\ 1 \in Int BY <1>1, <1>2
        <3> QED BY <1>2, <2>2, <3>1, CongScale
    <2>11. v * (n * b) = (n * v) * b /\ 1 * b = b BY <1>1, <1>2, <2>2
    <2>12. Cong(v * (n * b), b) BY <2>10, <2>11
    <2>13. Cong(v * A, b) BY <2>2, <2>7, <2>9, <2>12, CongTrans
    <2>14. Cong(C, b) BY <2>2, <2>3, <2>7, <2>13, CongTrans
    <2> QED BY <2>14 DEF C, b
<1> QED BY <1>1, <1>7, <1>10, CoefficientsCong


-----------------------------------------------------------------------------
(* Products of polynomials *)

LEMMA PolySame ==
    ASSUME NEW p \in Terms, NEW q \in Terms, NEW n \in Nat, NEW x \in Int,
           \A i \in 0 .. n - 1 : p[i] = q[i]
    PROVE  PolyAt(p, n, x) = PolyAt(q, n, x)
<1> DEFINE f == PolyTerms(p, x)
           g == PolyTerms(q, x)
<1>1. /\ f \in Terms /\ \A i \in Nat : f[i] = p[i] * Pow(x, i) BY PolyTermsType
<1>2. /\ g \in Terms /\ \A i \in Nat : g[i] = q[i] * Pow(x, i) BY PolyTermsType
<1> HIDE DEF f, g
<1>3. \A i \in 0 .. n - 1 : i \in Nat OBVIOUS
<1>4. \A i \in 0 .. n - 1 : f[i] = g[i] BY <1>1, <1>2, <1>3
<1>5. Sigma(f, n) = Sigma(g, n) BY <1>1, <1>2, <1>4, SigmaSame
<1> QED BY <1>5 DEF f, g, PolyAt

(* Zeros after the coefficients change nothing. *)
LEMMA PolyLonger ==
    ASSUME NEW p \in Terms, NEW n \in Nat, NEW m \in Nat, NEW x \in Int,
           \A i \in Nat : i >= n => p[i] = 0
    PROVE  PolyAt(p, n + m, x) = PolyAt(p, n, x)
<1> DEFINE P == {i \in Nat : PolyAt(p, n + i, x) = PolyAt(p, n, x)}
<1>1. 0 \in P
    <2>1. n + 0 = n OBVIOUS
    <2> QED BY <2>1
<1>2. ASSUME NEW i \in Nat, i \in P PROVE i + 1 \in P
    <2> DEFINE l == n + i
    <2>1. l \in Nat /\ l >= n /\ n + (i + 1) = l + 1 OBVIOUS
    <2>2. PolyAt(p, l, x) = PolyAt(p, n, x) BY <1>2
    <2> HIDE DEF l
    <2>3. PolyAt(p, l + 1, x) = PolyAt(p, l, x) + p[l] * Pow(x, l) /\ PolyAt(p, l, x) \in Int
        BY <2>1, PolyStep
    <2>4. p[l] = 0 /\ Pow(x, l) \in Int BY <2>1, PowStep
    <2>5. PolyAt(p, l + 1, x) = PolyAt(p, l, x) BY <2>3, <2>4
    <2> QED BY <2>1, <2>2, <2>5
<1> HIDE DEF P
<1>3. m \in P BY <1>1, <1>2, NatInduct
<1> QED BY <1>3 DEF P

(* The coefficients of x^m times a polynomial of degree below n. *)
Shifted(p, n, m) == [i \in Nat |-> IF i >= m /\ i - m < n THEN p[i - m] ELSE 0]

LEMMA ShiftedType ==
    ASSUME NEW p \in Terms, NEW n \in Nat, NEW m \in Nat
    PROVE  Shifted(p, n, m) \in Terms
<1>1. ASSUME NEW i \in Nat, i >= m PROVE p[i - m] \in Int
    <2>1. i - m \in Nat BY <1>1
    <2> QED BY <2>1 DEF Terms
<1> QED BY <1>1 DEF Shifted, Terms

LEMMA PolyShifted ==
    ASSUME NEW p \in Terms, NEW n \in Nat, NEW m \in Nat, NEW x \in Int
    PROVE  PolyAt(Shifted(p, n, m), m + n, x) = Pow(x, m) * PolyAt(p, n, x)
<1> DEFINE A == PolyAt(p, n, x)
           P == {i \in Nat : PolyAt(Shifted(p, n, i), i + n, x) = Pow(x, i) * A}
<1>0. A \in Int BY PolyStep
<1>1. 0 \in P
    <2>1. 0 \in Nat /\ 0 + n = n OBVIOUS
    <2> DEFINE q == Shifted(p, n, 0)
    <2>2. q \in Terms BY <2>1, ShiftedType
    <2>3. \A i \in 0 .. n - 1 : q[i] = p[i]
        <3>1. \A i \in 0 .. n - 1 : i \in Nat /\ i >= 0 /\ i - 0 < n /\ i - 0 = i OBVIOUS
        <3> QED BY <3>1 DEF Shifted
    <2> HIDE DEF q
    <2>4. PolyAt(q, n, x) = A BY <2>2, <2>3, PolySame
    <2>5. Pow(x, 0) = 1 BY <2>1, PowStep
    <2>6. 1 * A = A BY <1>0
    <2> QED BY <2>1, <2>4, <2>5, <2>6 DEF q
<1>2. ASSUME NEW i \in Nat, i \in P PROVE i + 1 \in P
    <2> DEFINE q == Shifted(p, n, i)
               t == Shifted(p, n, i + 1)
               l == i + n
               y == Pow(x, i)
               B == PolyAt(q, l, x)
    <2>1. l \in Nat /\ i + 1 \in Nat /\ (i + 1) + n = l + 1 OBVIOUS
    <2>2. q \in Terms /\ t \in Terms BY <2>1, ShiftedType
    <2>3. \A j \in 0 .. l - 1 : q[j] = t[j + 1]
        <3> SUFFICES ASSUME NEW j \in 0 .. l - 1 PROVE q[j] = t[j + 1] OBVIOUS
        <3>1. j \in Nat /\ j + 1 \in Nat /\ (j + 1) - (i + 1) = j - i BY <2>1
        <3>2. j >= i <=> j + 1 >= i + 1 BY <3>1
        <3> QED BY <3>1, <3>2 DEF Shifted
    <2>4. t[0] = 0
        <3>1. ~(0 >= i + 1) /\ 0 \in Nat OBVIOUS
        <3> QED BY <3>1 DEF Shifted
    <2>5. B = y * A BY <1>2
    <2> HIDE DEF q, t, l
    <2>6. PolyAt(t, l + 1, x) = t[0] + x * B BY <2>1, <2>2, <2>3, PolyShift
    <2>7. y \in Int /\ Pow(x, i + 1) = y * x BY PowStep
    <2>8. B \in Int BY <2>1, <2>2, PolyStep
    <2> HIDE DEF y, B, A
    <2>9. x * (y * A) = (y * x) * A BY <1>0, <2>7
    <2>10. 0 + x * B = x * B BY <2>8
    <2>11. PolyAt(t, l + 1, x) = Pow(x, i + 1) * A BY <2>4, <2>5, <2>6, <2>7, <2>9, <2>10
    <2> QED BY <2>1, <2>11 DEF t
<1> HIDE DEF P
<1>3. m \in P BY <1>1, <1>2, NatInduct
<1> QED BY <1>3 DEF P

(* The product of two polynomials has as many coefficients as both. *)
LEMMA PolyMul ==
    ASSUME NEW a \in Terms, NEW m \in Nat, NEW b \in Terms, NEW n \in Nat
    PROVE  \E c \in Terms : \A x \in Int : PolyAt(c, m + n, x) = PolyAt(a, m, x) * PolyAt(b, n, x)
<1> DEFINE Is(c, i) == \A x \in Int : PolyAt(c, m + n, x) = PolyAt(a, i, x) * PolyAt(b, n, x)
           P == {i \in Nat : i <= m => \E c \in Terms : Is(c, i)}
<1>0. m + n \in Nat OBVIOUS
<1>1. 0 \in P
    <2> DEFINE q == [i \in Nat |-> 0]
    <2>1. q \in Terms /\ \A i \in Nat : q[i] = 0 BY DEF Terms
    <2> HIDE DEF q
    <2>2. ASSUME NEW x \in Int PROVE PolyAt(q, m + n, x) = PolyAt(a, 0, x) * PolyAt(b, n, x)
        <3>1. PolyAt(q, m + n, x) = 0 BY <1>0, <2>1, PolyZero
        <3>2. PolyAt(a, 0, x) = 0 /\ PolyAt(b, n, x) \in Int BY PolyStep
        <3> QED BY <3>1, <3>2
    <2> QED BY <2>1, <2>2
<1>2. ASSUME NEW i \in Nat, i \in P PROVE i + 1 \in P
    <2> SUFFICES ASSUME i + 1 <= m PROVE \E c \in Terms : Is(c, i + 1) OBVIOUS
    <2>1. i <= m OBVIOUS
    <2>2. PICK c \in Terms : Is(c, i) BY <1>2, <2>1
    <2> DEFINE q == Shifted(b, n, i)
               e == a[i]
               t == [j \in Nat |-> 1 * c[j] + e * q[j]]
    <2>3. q \in Terms /\ e \in Int BY ShiftedType DEF Terms
    <2>4. \A j \in Nat : j >= i + n => q[j] = 0
        <3>1. \A j \in Nat : j >= i + n => ~(j - i < n) OBVIOUS
        <3> QED BY <3>1 DEF Shifted
    <2> HIDE DEF q, e
    <2>5. \A j \in Nat : c[j] \in Int /\ q[j] \in Int BY <2>3 DEF Terms
    <2>6. t \in Terms /\ \A j \in Nat : t[j] = 1 * c[j] + e * q[j]
        <3>1. ASSUME NEW j \in Nat PROVE 1 * c[j] + e * q[j] \in Int
            <4> DEFINE u == c[j]
                       v == q[j]
            <4>1. u \in Int /\ v \in Int BY <2>5
            <4> HIDE DEF u, v
            <4>2. e * v \in Int BY <2>3, <4>1
            <4>3. 1 * u + e * v \in Int BY <4>1, <4>2
            <4> QED BY <4>3 DEF u, v
        <3> QED BY <3>1 DEF Terms
    <2> HIDE DEF t
    <2>7. ASSUME NEW x \in Int
          PROVE  PolyAt(t, m + n, x) = PolyAt(a, i + 1, x) * PolyAt(b, n, x)
        <3> DEFINE L == m + n
                   l == i + n
                   d == m - i
                   o == 1
                   A == PolyAt(a, i, x)
                   B == PolyAt(b, n, x)
                   y == Pow(x, i)
        <3>1. L \in Nat /\ l \in Nat /\ d \in Nat /\ l + d = L BY <2>1
        <3>2. o \in Int /\ \A j \in 0 .. L - 1 : t[j] = o * c[j] + e * q[j]
            <4>1. \A j \in 0 .. L - 1 : j \in Nat BY <3>1
            <4> QED BY <2>6, <4>1
        <3>3. PolyAt(c, L, x) = A * B BY <2>2
        <3>4. PolyAt(q, l, x) = y * B BY PolyShifted DEF q
        <3>5. \A j \in Nat : j >= l => q[j] = 0 BY <2>4
        <3>6. A \in Int /\ B \in Int /\ y \in Int BY PolyStep, PowStep
        <3>7. PolyAt(a, i + 1, x) = A + e * y BY PolyStep DEF e
        <3> HIDE DEF L, l, d, o
        <3>8. PolyAt(q, l + d, x) = PolyAt(q, l, x) BY <2>3, <3>1, <3>5, PolyLonger
        <3>9. PolyAt(t, L, x) = o * PolyAt(c, L, x) + e * PolyAt(q, L, x)
            BY <2>3, <2>6, <3>1, <3>2, PolyLinear
        <3>10. PolyAt(t, L, x) = 1 * (A * B) + e * (y * B)
            BY <3>1, <3>3, <3>4, <3>8, <3>9 DEF o
        <3> HIDE DEF A, B, y
        <3>11. 1 * (A * B) + e * (y * B) = (A + e * y) * B BY <2>3, <3>6
        <3> QED BY <3>7, <3>10, <3>11 DEF B, L
    <2> QED BY <2>6, <2>7
<1> HIDE DEF P, Is
<1>3. m \in P BY <1>1, <1>2, NatInduct
<1>4. \E c \in Terms : Is(c, m) BY <1>3 DEF P
<1> QED BY <1>4 DEF Is

(* Interpolation is linear: shares of the points give shares of the value. *)
LEMMA InterpSum ==
    ASSUME NEW k \in 0 .. Generator2Order, NEW y \in Ints(2 ^ k), NEW z \in Ints(2 ^ k),
           NEW t \in Ints(2 ^ k), NEW x \in Int,
           \A i \in 1 .. 2 ^ k : Cong(t[i], y[i] + z[i])
    PROVE  Cong(poly_interp_evaluate(y, x) + poly_interp_evaluate(z, x),
                poly_interp_evaluate(t, x))
<1> DEFINE n == 2 ^ k
           w == Gen(k, FALSE)
           a == Ext(poly_fft(y, TRUE))
           b == Ext(poly_fft(z, TRUE))
           c == Ext(poly_fft(t, TRUE))
           o1 == 1
           o2 == 1
           p == [i \in Nat |-> o1 * a[i] + o2 * b[i]]
           Y == poly_interp_evaluate(y, x)
           Z == poly_interp_evaluate(z, x)
           T == poly_interp_evaluate(t, x)
<1>1. k \in Nat /\ n \in Nat BY StepIs, PowerStep
<1>2. w \in Int BY GenIsRoot, FieldInt
<1>3. poly_fft(y, TRUE) \in Ints(n) /\ poly_fft(z, TRUE) \in Ints(n) /\ poly_fft(t, TRUE) \in Ints(n)
    BY InverseIs
<1>4. a \in Terms /\ b \in Terms /\ c \in Terms
    <2> HIDE DEF n
    <2> QED BY <1>1, <1>3, ExtType
<1>5. \A i \in Nat : a[i] \in Int /\ b[i] \in Int BY <1>4 DEF Terms
<1>6. \A j \in 0 .. n - 1 : Cong(PolyAt(a, n, Pow(w, j)), y[j + 1]) BY InterpolatesPoints
<1>7. \A j \in 0 .. n - 1 : Cong(PolyAt(b, n, Pow(w, j)), z[j + 1]) BY InterpolatesPoints
<1>8. /\ Y \in Int /\ Cong(Y, PolyAt(a, n, x))
      /\ Z \in Int /\ Cong(Z, PolyAt(b, n, x))
      /\ T \in Int /\ Cong(T, PolyAt(c, n, x))
    BY InterpEvaluate, FieldInt
<1> HIDE DEF a, b, Y, Z, T
<1>9. p \in Terms /\ \A i \in Nat : p[i] = o1 * a[i] + o2 * b[i]
    BY <1>5 DEF Terms
<1>10. o1 \in Int /\ o2 \in Int OBVIOUS
<1> HIDE DEF o1, o2, p
<1>11. ASSUME NEW q \in Int
       PROVE  /\ PolyAt(a, n, q) \in Int /\ PolyAt(b, n, q) \in Int
              /\ PolyAt(p, n, q) = PolyAt(a, n, q) + PolyAt(b, n, q)
    <2>1. \A i \in 0 .. n - 1 : p[i] = o1 * a[i] + o2 * b[i] BY <1>1, <1>9
    <2>2. PolyAt(p, n, q) = o1 * PolyAt(a, n, q) + o2 * PolyAt(b, n, q)
        <3> HIDE DEF n
        <3> QED BY <1>1, <1>4, <1>9, <1>10, <2>1, PolyLinear
    <2>3. PolyAt(a, n, q) \in Int /\ PolyAt(b, n, q) \in Int BY <1>1, <1>4, PolyStep
    <2> QED BY <2>2, <2>3 DEF o1, o2
<1>12. ASSUME NEW j \in 0 .. n - 1 PROVE Cong(t[j + 1], PolyAt(p, n, Pow(w, j)))
    <2> DEFINE q == Pow(w, j)
               A == PolyAt(a, n, q)
               B == PolyAt(b, n, q)
               u == y[j + 1]
               v == z[j + 1]
               s == t[j + 1]
    <2>1. j \in Nat /\ j + 1 \in 1 .. n BY <1>1
    <2>2. q \in Int BY <1>2, <2>1, PowStep
    <2>3. A \in Int /\ B \in Int /\ PolyAt(p, n, q) = A + B BY <1>11, <2>2
    <2>4. u \in Int /\ v \in Int /\ s \in Int BY <2>1 DEF Ints
    <2>5. Cong(A, u) /\ Cong(B, v) /\ Cong(s, u + v) BY <1>6, <1>7, <2>1
    <2> HIDE DEF q, A, B, u, v, s
    <2>6. Cong(u, A) /\ Cong(v, B) BY <2>3, <2>4, <2>5, CongSym
    <2>7. Cong(u + v, A + B) BY <2>3, <2>4, <2>6, CongAdd
    <2>8. u + v \in Int /\ A + B \in Int BY <2>3, <2>4
    <2>9. Cong(s, A + B) BY <2>4, <2>5, <2>7, <2>8, CongTrans
    <2> QED BY <2>3, <2>9 DEF q, s
<1>13. Cong(PolyAt(c, n, x), PolyAt(p, n, x)) BY <1>9, <1>12, InterpolationUnique
<1> DEFINE A == PolyAt(a, n, x)
           B == PolyAt(b, n, x)
           C == PolyAt(c, n, x)
<1>14. A \in Int /\ B \in Int /\ C \in Int /\ Cong(C, A + B)
    BY <1>1, <1>4, <1>11, <1>13, PolyStep
<1>15. Cong(Y, A) /\ Cong(Z, B) /\ Cong(T, C) BY <1>8
<1> HIDE DEF A, B, C
<1>16. Cong(Y + Z, A + B) BY <1>8, <1>14, <1>15, CongAdd
<1>17. A + B \in Int /\ Y + Z \in Int BY <1>8, <1>14
<1>18. Cong(T, A + B) BY <1>8, <1>14, <1>15, <1>17, CongTrans
<1>19. Cong(A + B, T) BY <1>8, <1>17, <1>18, CongSym
<1>20. Cong(Y + Z, T) BY <1>8, <1>16, <1>17, <1>19, CongTrans
<1> QED BY <1>20 DEF Y, Z, T

(* Twice as many values determine the product of two polynomials. *)
LEMMA InterpProduct ==
    ASSUME NEW k \in 0 .. Generator2Order - 1, NEW f \in Ints(2 ^ k), NEW g \in Ints(2 ^ k),
           NEW h \in Ints(2 ^ (k + 1)), NEW x \in Int,
           \A i \in 0 .. 2 ^ (k + 1) - 1 :
             LET q == Pow(Gen(k + 1, FALSE), i)
             IN  Cong(h[i + 1], PolyAt(Ext(poly_fft(f, TRUE)), 2 ^ k, q)
                                  * PolyAt(Ext(poly_fft(g, TRUE)), 2 ^ k, q))
    PROVE  Cong(poly_interp_evaluate(h, x),
                poly_interp_evaluate(f, x) * poly_interp_evaluate(g, x))
<1> DEFINE n == 2 ^ k
           K == k + 1
           w == Gen(K, FALSE)
           a == Ext(poly_fft(f, TRUE))
           b == Ext(poly_fft(g, TRUE))
           d == Ext(poly_fft(h, TRUE))
           F == poly_interp_evaluate(f, x)
           G == poly_interp_evaluate(g, x)
           H == poly_interp_evaluate(h, x)
<1>1. k \in Nat /\ k \in 0 .. Generator2Order /\ K \in 0 .. Generator2Order /\ K \in Nat
    BY GeneratorAssumption
<1>2. n \in Nat /\ 2 ^ K = n + n /\ 2 ^ K \in Nat
    <2>1. n \in Nat /\ 2 ^ K = 2 * n BY <1>1, PowerStep
    <2> HIDE DEF n
    <2> QED BY <2>1
<1>3. w \in Int BY <1>1, GenIsRoot, FieldInt
<1>4. poly_fft(f, TRUE) \in Ints(n) /\ poly_fft(g, TRUE) \in Ints(n) BY <1>1, InverseIs
<1>5. a \in Terms /\ b \in Terms
    <2> HIDE DEF n
    <2> QED BY <1>2, <1>4, ExtType
<1>6. /\ F \in Int /\ Cong(F, PolyAt(a, n, x)) /\ G \in Int /\ Cong(G, PolyAt(b, n, x))
    BY <1>1, InterpEvaluate, FieldInt
<1>7. H \in Int /\ Cong(H, PolyAt(d, 2 ^ K, x)) BY <1>1, InterpEvaluate, FieldInt
<1>8. \A i \in 0 .. 2 ^ K - 1 :
        Cong(h[i + 1], PolyAt(a, n, Pow(w, i)) * PolyAt(b, n, Pow(w, i)))
    OBVIOUS
<1> HIDE DEF a, b, n, F, G, H, w
<1>9. PICK c \in Terms : \A q \in Int : PolyAt(c, n + n, q) = PolyAt(a, n, q) * PolyAt(b, n, q)
    BY <1>2, <1>5, PolyMul, ZenonT(30)
<1>10. ASSUME NEW i \in 0 .. 2 ^ K - 1 PROVE Cong(h[i + 1], PolyAt(c, 2 ^ K, Pow(w, i)))
    <2>1. i \in Nat BY <1>2
    <2>2. Pow(w, i) \in Int BY <1>3, <2>1, PowStep
    <2>3. PolyAt(c, 2 ^ K, Pow(w, i)) = PolyAt(a, n, Pow(w, i)) * PolyAt(b, n, Pow(w, i))
        BY <1>2, <1>9, <2>2
    <2> QED BY <1>8, <2>3
<1>11. Cong(PolyAt(d, 2 ^ K, x), PolyAt(c, 2 ^ K, x))
    <2>1. h \in Ints(2 ^ K) OBVIOUS
    <2> HIDE DEF K
    <2> QED BY <1>1, <1>10, <2>1, InterpolationUnique DEF w
<1>12. PolyAt(d, 2 ^ K, x) \in Int
    <2>1. poly_fft(h, TRUE) \in Ints(2 ^ K) BY <1>1, InverseIs
    <2>2. d \in Terms
        <3> HIDE DEF K
        <3> QED BY <1>2, <2>1, ExtType
    <2> HIDE DEF d, K
    <2> QED BY <1>2, <2>2, PolyStep
<1> DEFINE A == PolyAt(a, n, x)
           B == PolyAt(b, n, x)
           D == PolyAt(d, 2 ^ K, x)
<1>13. A \in Int /\ B \in Int /\ PolyAt(c, 2 ^ K, x) = A * B BY <1>2, <1>5, <1>9, PolyStep
<1>14. D \in Int /\ Cong(H, D) /\ Cong(D, A * B) BY <1>7, <1>11, <1>12, <1>13
<1>15. Cong(F, A) /\ Cong(G, B) BY <1>6
<1> HIDE DEF A, B, D
<1>16. Cong(F * G, A * B) BY <1>6, <1>13, <1>15, CongMul
<1>17. F * G \in Int /\ A * B \in Int BY <1>6, <1>13
<1>18. Cong(A * B, F * G) BY <1>16, <1>17, CongSym
<1>19. Cong(H, A * B) BY <1>7, <1>14, <1>17, CongTrans
<1>20. Cong(H, F * G) BY <1>7, <1>17, <1>18, <1>19, CongTrans
<1> QED BY <1>20 DEF F, G, H


(* What the client multiplies: the interpolated polynomial at the roots of *)
(* twice the order, every other of which is one of the points.             *)
LEMMA EvalsAre ==
    ASSUME NEW k \in 0 .. Generator2Order - 1, NEW y \in Ints(2 ^ k)
    PROVE  LET c == poly_fft(y, TRUE)
               e == poly_fft(MPArray_resize(c, 2 ^ (k + 1)), FALSE)
           IN  /\ e \in Ints(2 ^ (k + 1))
               /\ \A i \in 0 .. 2 ^ (k + 1) - 1 :
                    Cong(e[i + 1], PolyAt(Ext(c), 2 ^ k, Pow(Gen(k + 1, FALSE), i)))
               /\ \A j \in 0 .. 2 ^ k - 1 : Cong(e[2 * j + 1], y[j + 1])
<1> DEFINE n == 2 ^ k
           K == k + 1
           m == 2 ^ K
           c == poly_fft(y, TRUE)
           r == [i \in 1 .. m |-> IF i <= Len(c) THEN c[i] ELSE 0]
           e == poly_fft(r, FALSE)
           w == Gen(K, FALSE)
           a == Ext(c)
<1>1. k \in Nat /\ k \in 0 .. Generator2Order /\ K \in 0 .. Generator2Order /\ K \in Nat
    BY GeneratorAssumption
<1>2. n \in Nat /\ m = n + n /\ m \in Nat
    <2>1. n \in Nat /\ m = 2 * n BY <1>1, PowerStep
    <2> HIDE DEF n
    <2> QED BY <2>1
<1>3. w \in Int BY <1>1, GenIsRoot, FieldInt
<1>4. c \in Ints(n) BY <1>1, InverseIs
<1> HIDE DEF c
<1>5. Len(c) = n /\ \A i \in 1 .. n : c[i] \in Int
    <2>1. Len(c) = n BY <1>2, <1>4, ArrayIs DEF Ints
    <2> HIDE DEF n
    <2> QED BY <1>4, <2>1 DEF Ints
<1>6. r \in Ints(m)
    <2>1. \A i \in 1 .. m : i <= n => i \in 1 .. n BY <1>2
    <2> HIDE DEF n, m
    <2> QED BY <1>5, <2>1 DEF Ints
<1>7. MPArray_resize(c, m) = r
    <2> DEFINE q == [i \in 1 .. m |-> IF i <= Len(c) THEN c[i] ELSE 0]
    <2>1. MPArray_resize(c, m) = <<>> \o q BY DEF MPArray_resize, Array
    <2>2. q = r OBVIOUS
    <2>3. q \in [1 .. m -> Int] BY <1>6, <2>2 DEF Ints
    <2> HIDE DEF q, m
    <2>4. <<>> \o q = q BY <1>2, <2>3, ArrayIs
    <2> QED BY <2>1, <2>2, <2>4
<1>8. a \in Terms /\ (\A i \in 0 .. n - 1 : a[i] = c[i + 1]) /\ \A i \in Nat : i >= n => a[i] = 0
    <2> HIDE DEF n
    <2>1. a \in Terms /\ (\A i \in 0 .. n - 1 : a[i] = c[i + 1]) BY <1>2, <1>4, ExtType
    <2>2. DOMAIN c = 1 .. n BY <1>4 DEF Ints
    <2>3. \A i \in Nat : i >= n => i + 1 \notin 1 .. n BY <1>2
    <2>4. \A i \in Nat : i >= n => a[i] = 0 BY <2>2, <2>3 DEF Ext
    <2> QED BY <2>1, <2>4
<1>9. ASSUME NEW i \in Nat PROVE Ext(r)[i] = a[i]
    <2>1. DOMAIN r = 1 .. m OBVIOUS
    <2>2. CASE i < n
        <3>1. i + 1 \in 1 .. m /\ i + 1 <= n /\ i \in 0 .. n - 1
            <4> HIDE DEF n, m
            <4> QED BY <1>2, <2>2
        <3>2. r[i + 1] = c[i + 1] BY <1>5, <3>1
        <3> QED BY <1>8, <2>1, <3>1, <3>2 DEF Ext
    <2>3. CASE i >= n
        <3>1. i + 1 \in 1 .. m => r[i + 1] = 0
            <4>1. ~(i + 1 <= n)
                <5> HIDE DEF n
                <5> QED BY <1>2, <2>3
            <4> QED BY <1>5, <4>1
        <3> QED BY <1>8, <2>1, <2>3, <3>1 DEF Ext
    <2>4. i < n \/ i >= n
        <3> HIDE DEF n
        <3> QED BY <1>2
    <2> QED BY <2>2, <2>3, <2>4
<1>10. /\ e \in Ints(m)
       /\ \A i \in 0 .. m - 1 : Cong(e[i + 1], PolyAt(Ext(r), m, Pow(w, i)))
    <2>1. r \in Ints(2 ^ K) BY <1>6
    <2> HIDE DEF K, r
    <2> QED BY <1>1, <2>1, TransformIs
<1>11. Ext(r) \in Terms
    <2> HIDE DEF m, r
    <2> QED BY <1>2, <1>6, ExtType
<1> SUFFICES /\ e \in Ints(m)
             /\ \A i \in 0 .. m - 1 : Cong(e[i + 1], PolyAt(a, n, Pow(w, i)))
             /\ \A j \in 0 .. n - 1 : Cong(e[2 * j + 1], y[j + 1])
    BY <1>7 DEF c
<1>12. ASSUME NEW j \in 0 .. n - 1 PROVE Cong(PolyAt(a, n, Pow(Gen(k, FALSE), j)), y[j + 1])
    BY <1>1, InterpolatesPoints DEF c
<1>13. \A j \in 0 .. n - 1 : y[j + 1] \in Int
    <2>1. \A j \in 0 .. n - 1 : j + 1 \in 1 .. n
        <3> HIDE DEF n
        <3> QED BY <1>2
    <2> QED BY <2>1 DEF Ints
<1>14. Cong(Gen(k, FALSE), w * w) /\ Gen(k, FALSE) \in Int
    BY <1>1, GenSquare, GenIsRoot, FieldInt
<1> HIDE DEF n, m, r, e, w, a
<1>15. ASSUME NEW q \in Int
       PROVE  PolyAt(Ext(r), m, q) = PolyAt(a, n, q) /\ PolyAt(a, n, q) \in Int
    <2>1. \A i \in 0 .. m - 1 : i \in Nat BY <1>2
    <2>2. \A i \in 0 .. m - 1 : Ext(r)[i] = a[i] BY <1>9, <2>1
    <2>3. PolyAt(Ext(r), m, q) = PolyAt(a, m, q) BY <1>2, <1>8, <1>11, <2>2, PolySame
    <2>4. PolyAt(a, n + n, q) = PolyAt(a, n, q) BY <1>2, <1>8, PolyLonger
    <2>5. PolyAt(a, n, q) \in Int BY <1>2, <1>8, PolyStep
    <2> QED BY <1>2, <2>3, <2>4, <2>5
<1>16. ASSUME NEW i \in 0 .. m - 1 PROVE Cong(e[i + 1], PolyAt(a, n, Pow(w, i)))
    <2>1. i \in Nat BY <1>2
    <2>2. Pow(w, i) \in Int BY <1>3, <2>1, PowStep
    <2> QED BY <1>10, <1>15, <2>2
<1>17. ASSUME NEW j \in 0 .. n - 1 PROVE Cong(e[2 * j + 1], y[j + 1])
    <2> DEFINE i == 2 * j
               q == Pow(w, i)
               z == Pow(Gen(k, FALSE), j)
               A == PolyAt(a, n, q)
               B == PolyAt(a, n, z)
    <2>1. j \in Nat /\ i \in Nat /\ i \in 0 .. m - 1 /\ i + 1 \in 1 .. m BY <1>2
    <2>2. q \in Int /\ z \in Int BY <1>3, <1>14, <2>1, PowStep
    <2>3. Cong(q, z)
        <3>1. w * w \in Int BY <1>3
        <3>2. Cong(z, Pow(w * w, j)) BY <1>14, <2>1, <3>1, PowCong
        <3>3. Pow(w * w, j) = q BY <1>3, <2>1, PowSquare
        <3> HIDE DEF q, z
        <3> QED BY <2>2, <3>2, <3>3, CongSym
    <2>4. Cong(e[i + 1], A) BY <1>16, <2>1
    <2>5. Cong(B, y[j + 1]) BY <1>12
    <2>6. Cong(A, B)
        <3>1. ASSUME NEW l \in 0 .. n - 1 PROVE Cong(a[l] * Pow(q, l), a[l] * Pow(z, l))
            <4> DEFINE b == a[l]
                       u == Pow(q, l)
                       v == Pow(z, l)
            <4>1. l \in Nat BY <1>2
            <4>2. b \in Int BY <1>8, <4>1 DEF Terms
            <4>3. u \in Int /\ v \in Int /\ Cong(u, v)
                <5> HIDE DEF q, z
                <5> QED BY <2>2, <2>3, <4>1, PowStep, PowCong
            <4> HIDE DEF b, u, v
            <4>4. Cong(b * u, b * v) BY <4>2, <4>3, CongScale
            <4> QED BY <4>4 DEF b, u, v
        <3> HIDE DEF q, z
        <3> QED BY <1>2, <1>8, <2>2, <3>1, PolyCong
    <2>7. e[i + 1] \in Int BY <1>10, <2>1 DEF Ints
    <2>8. A \in Int /\ B \in Int BY <1>15, <2>2
    <2>9. y[j + 1] \in Int BY <1>13
    <2> DEFINE s == e[i + 1]
               t == y[j + 1]
    <2>10. s \in Int /\ t \in Int /\ Cong(s, A) /\ Cong(B, t) BY <2>4, <2>5, <2>7, <2>9
    <2> HIDE DEF A, B, s, t
    <2>11. Cong(s, B) BY <2>6, <2>8, <2>10, CongTrans
    <2>12. Cong(s, t) BY <2>8, <2>10, <2>11, CongTrans
    <2> QED BY <2>12 DEF s, t
<1> QED BY <1>10, <1>16, <1>17


-----------------------------------------------------------------------------
(* What the client sends *)

(* The logarithm of the number of points. *)
LogN == CHOOSE k \in Nat : N = 2 ^ k /\ k + 1 <= Generator2Order

LEMMA LogNIs ==
    /\ LogN \in Nat /\ LogN \in 0 .. Generator2Order /\ LogN \in 0 .. Generator2Order - 1
    /\ LogN + 1 \in Nat /\ LogN + 1 \in 0 .. Generator2Order
    /\ N = 2 ^ LogN /\ 2 * N = 2 ^ (LogN + 1)
    /\ N \in Nat /\ 2 * N \in Nat /\ NumFields \in Nat /\ NumFields < N
<1>1. LogN \in Nat /\ N = 2 ^ LogN /\ LogN + 1 <= Generator2Order BY NIsPower DEF LogN
<1>2. N \in Nat /\ NumFields < N /\ NumFields \in Nat BY NIsPower, NumFieldsAssumption
<1>3. 2 ^ (LogN + 1) = 2 * 2 ^ LogN BY <1>1, PowerStep
<1>4. Generator2Order \in Nat BY GeneratorAssumption
<1> HIDE DEF LogN
<1> QED BY <1>1, <1>2, <1>3, <1>4

(* share_int and PRG_share_array split what adding puts together. *)
LEMMA SplitAdds ==
    ASSUME NEW x \in Int, NEW a \in Int
    PROVE  Cong(submod(x, a) + a, x) /\ Cong(a + submod(x, a), x)
<1> DEFINE s == submod(x, a)
<1>1. s \in Int /\ Cong(s, x - a) BY OpsCong, FieldInt
<1>2. Cong(a, a) BY CongRefl
<1> HIDE DEF s
<1>3. Cong(s + a, (x - a) + a)
    <2>1. x - a \in Int OBVIOUS
    <2> QED BY <1>1, <1>2, <2>1, CongAdd
<1>4. (x - a) + a = x /\ s + a = a + s BY <1>1
<1> QED BY <1>3, <1>4 DEF s

(* The values of the polynomial through the points at twice as many roots. *)
LEMMA EvalsIs ==
    ASSUME NEW c0 \in Int, NEW d \in Ints(NumFields)
    PROVE  LET e == data_polynomial_evals(d, c0)
               p == PointsOf(c0, d)
           IN  /\ e \in Ints(2 * N) /\ p \in Ints(N)
               /\ \A i \in 0 .. 2 * N - 1 :
                    Cong(e[i + 1], PolyAt(Ext(poly_fft(p, TRUE)), N, Pow(Gen(LogN + 1, FALSE), i)))
               /\ \A j \in 0 .. N - 1 : Cong(e[2 * j + 1], p[j + 1])
<1> DEFINE p == PointsOf(c0, d)
           k == LogN
<1>1. /\ k \in 0 .. Generator2Order - 1 /\ N = 2 ^ k /\ 2 * N = 2 ^ (k + 1) BY LogNIs
<1>2. MPArray_resize(<<c0>> \o d, N) = p /\ p \in Ints(N) BY PointsAre
<1>3. p \in Ints(2 ^ k) BY <1>1, <1>2
<1>4. data_polynomial_evals(d, c0)
        = poly_fft(MPArray_resize(poly_fft(p, TRUE), 2 * N), FALSE)
    BY <1>2 DEF data_polynomial_evals
<1> HIDE DEF p, k
<1>5. LET c == poly_fft(p, TRUE)
          e == poly_fft(MPArray_resize(c, 2 ^ (k + 1)), FALSE)
      IN  /\ e \in Ints(2 ^ (k + 1))
          /\ \A i \in 0 .. 2 ^ (k + 1) - 1 :
               Cong(e[i + 1], PolyAt(Ext(c), 2 ^ k, Pow(Gen(k + 1, FALSE), i)))
          /\ \A j \in 0 .. 2 ^ k - 1 : Cong(e[2 * j + 1], p[j + 1])
    BY <1>1, <1>3, EvalsAre
<1> QED BY <1>1, <1>2, <1>4, <1>5 DEF p, k

(* The points of h the client sends are products of those values. *)
LEMMA HEvalsIs ==
    ASSUME NEW d \in Ints(NumFields), NEW f0 \in Int, NEW g0 \in Int
    PROVE  /\ h_evals(d, f0, g0) \in Elements(N) /\ h_evals(d, f0, g0) \in Ints(N)
           /\ \A j \in 1 .. N :
                Cong(h_evals(d, f0, g0)[j],
                     data_polynomial_evals(d, f0)[2 * j]
                       * data_polynomial_evals(ShiftedFor(PRIO_SERVER_A, d), g0)[2 * j])
<1> DEFINE g == ShiftedFor(PRIO_SERVER_A, d)
           eF == data_polynomial_evals(d, f0)
           eG == data_polynomial_evals(g, g0)
           h == [j \in 1 .. N |-> mulmod(eF[2 * j], eG[2 * j])]
           a == Array(Len(d), LAMBDA i : submod(d[i], 1))
<1>1. N \in Nat /\ NumFields \in Nat BY LogNIs
<1>2. Len(d) = NumFields BY <1>1, ArrayIs DEF Ints
<1>3. g \in Ints(NumFields)
    <2>1. PRIO_SERVER_A \in Server BY DEF Server
    <2> QED BY <2>1, ShiftedForType
<1>4. a = g
    <2>1. a = <<>> \o g BY <1>2 DEF Array, ShiftedFor
    <2> QED BY <1>1, <1>3, <2>1, ArrayIs DEF Ints
<1>5. h_evals(d, f0, g0) = <<>> \o h
    <2>1. h_evals(d, f0, g0)
            = LET G == data_polynomial_evals(a, g0)
              IN  Array(N, LAMBDA j : mulmod(eF[2 * j], G[2 * j]))
        BY DEF h_evals
    <2> QED BY <1>4, <2>1 DEF Array
<1>6. eF \in Ints(2 * N) /\ eG \in Ints(2 * N) BY <1>3, EvalsIs
<1> HIDE DEF g, eF, eG, a
<1>7. ASSUME NEW j \in 1 .. N
      PROVE  /\ mulmod(eF[2 * j], eG[2 * j]) \in Field /\ mulmod(eF[2 * j], eG[2 * j]) \in Int
             /\ Cong(mulmod(eF[2 * j], eG[2 * j]), eF[2 * j] * eG[2 * j])
    <2>1. 2 * j \in 1 .. 2 * N BY <1>1
    <2>2. eF[2 * j] \in Int /\ eG[2 * j] \in Int BY <1>6, <2>1 DEF Ints
    <2> QED BY <2>2, OpsCong, FieldInt
<1>8. h \in [1 .. N -> Int] /\ h \in [1 .. N -> Field] /\ \A j \in 1 .. N : h[j] = mulmod(eF[2 * j], eG[2 * j])
    BY <1>7
<1> HIDE DEF h
<1>9. <<>> \o h = h BY <1>1, <1>8, ArrayIs
<1> QED BY <1>5, <1>7, <1>8, <1>9 DEF Ints, Elements, g, eF, eG

-----------------------------------------------------------------------------

PacketsType ==
    [A : [triple : TripleType, f0 : Field, g0 : Field, h0 : Field,
          data_shares : Elements(NumFields), h_points : Elements(N)],
     B : [triple : TripleType, f0 : Field, g0 : Field, h0 : Field,
          seed : Elements(NumFields + N)]]

(* The shares of a multiplication triple. *)
Multiplied(partA, partB) ==
    mulmod(addmod(partA.a, partB.a), addmod(partA.b, partB.b)) = addmod(partA.c, partB.c)

LEMMA TripleIs ==
    ASSUME NEW r \in [a1 : Field, b1 : Field, a2 : Field, b2 : Field, c2 : Field]
    PROVE  LET t == BeaverTriple_set_rand(r)
           IN  t.A \in TripleType /\ t.B \in TripleType /\ Multiplied(t.A, t.B)
<1> DEFINE m == mulmod(addmod(r.a1, r.a2), addmod(r.b1, r.b2))
           c == submod(m, r.c2)
<1>1. /\ r.a1 \in Field /\ r.b1 \in Field /\ r.a2 \in Field /\ r.b2 \in Field /\ r.c2 \in Field
      /\ r.a1 \in Int /\ r.b1 \in Int /\ r.a2 \in Int /\ r.b2 \in Int /\ r.c2 \in Int
    BY FieldInt
<1>2. m \in Field /\ m \in Int
    <2>1. addmod(r.a1, r.a2) \in Int /\ addmod(r.b1, r.b2) \in Int BY <1>1, OpsCong, FieldInt
    <2> QED BY <2>1, OpsCong, FieldInt
<1>3. c \in Field /\ c \in Int
    <2> HIDE DEF m
    <2> QED BY <1>1, <1>2, OpsCong, FieldInt
<1>4. addmod(c, r.c2) = m
    <2> HIDE DEF m
    <2>1. Cong(c + r.c2, m) BY <1>1, <1>2, SplitAdds
    <2> HIDE DEF c
    <2>2. addmod(c, r.c2) \in Field /\ Cong(addmod(c, r.c2), c + r.c2) /\ c + r.c2 \in Int
        <3> DEFINE z == r.c2
        <3>1. c \in Int /\ z \in Int BY <1>1, <1>3
        <3> HIDE DEF z
        <3>2. c + z \in Int BY <3>1
        <3>3. addmod(c, z) \in Field /\ Cong(addmod(c, z), c + z) BY <3>1, OpsCong
        <3> QED BY <3>2, <3>3 DEF z
    <2>3. Cong(addmod(c, r.c2), m) BY <1>2, <2>1, <2>2, CongTrans, FieldInt
    <2> QED BY <1>2, <2>2, <2>3, FieldCongEq
<1>5. BeaverTriple_set_rand(r) = [A |-> [a |-> r.a1, b |-> r.b1, c |-> c],
                                  B |-> [a |-> r.a2, b |-> r.b2, c |-> r.c2]]
    BY DEF BeaverTriple_set_rand
<1> HIDE DEF c, m
<1> QED BY <1>1, <1>3, <1>4, <1>5 DEF TripleType, Multiplied, m

(* What a triple is wrong by, and that a Beaver triple is not.             *)
LEMMA TripleErrorIs ==
    ASSUME NEW pk \in PacketsType
    PROVE  /\ TripleError(pk) \in Field /\ TripleError(pk) \in Int
           /\ Multiplied(pk.A.triple, pk.B.triple) => TripleError(pk) = 0
<1> DEFINE t == pk.A.triple
           u == pk.B.triple
           a == addmod(t.a, u.a)
           b == addmod(t.b, u.b)
           c == addmod(t.c, u.c)
           m == mulmod(a, b)
<1>1. /\ t.a \in Int /\ t.b \in Int /\ t.c \in Int /\ u.a \in Int /\ u.b \in Int /\ u.c \in Int
    BY FieldInt DEF PacketsType, TripleType
<1>2. a \in Int /\ b \in Int /\ c \in Int BY <1>1, OpsCong, FieldInt
<1>3. TripleError(pk) = submod(m, c) BY DEF TripleError
<1>4. Multiplied(pk.A.triple, pk.B.triple) => m = c BY DEF Multiplied
<1> HIDE DEF a, b, c
<1>5. m \in Int BY <1>2, OpsCong, FieldInt
<1> HIDE DEF m
<1>6. submod(m, c) \in Field /\ Cong(submod(m, c), m - c) BY <1>2, <1>5, OpsCong
<1>7. ASSUME m = c PROVE submod(m, c) = 0
    <2>1. m - c = 0 /\ 0 \in Field BY <1>2, <1>7, ModulusAssumption DEF Field
    <2> QED BY <1>6, <2>1, FieldCongEq
<1> QED BY <1>3, <1>4, <1>6, <1>7, FieldInt


LEMMA ElementsInts ==
    ASSUME NEW n \in Nat, NEW y \in Elements(n)
    PROVE  y \in Ints(n)
    BY FieldInt DEF Elements, Ints

(* What a server reads from packets of the right shape. *)
LEMMA ServerReads ==
    ASSUME NEW pk \in PacketsType, NEW s \in Server
    PROVE  /\ packet_of(s, pk).f0 \in Int /\ packet_of(s, pk).g0 \in Int
           /\ packet_of(s, pk).h0 \in Int
           /\ data_share(s, pk) \in Elements(NumFields) /\ data_share(s, pk) \in Ints(NumFields)
           /\ h_share(s, pk) \in Elements(N) /\ h_share(s, pk) \in Ints(N)
<1>1. /\ pk.A.f0 \in Field /\ pk.A.g0 \in Field /\ pk.A.h0 \in Field
      /\ pk.B.f0 \in Field /\ pk.B.g0 \in Field /\ pk.B.h0 \in Field
      /\ pk.A.data_shares \in Elements(NumFields) /\ pk.A.h_points \in Elements(N)
      /\ pk.B.seed \in Elements(NumFields + N)
    BY DEF PacketsType
<1>2. NumFields \in Nat /\ N \in Nat BY LogNIs
<1>3. /\ packet_of(s, pk).f0 \in Int /\ packet_of(s, pk).g0 \in Int
      /\ packet_of(s, pk).h0 \in Int
    BY <1>1, FieldInt DEF packet_of
<1>4. data_share(s, pk) \in Elements(NumFields)
    <2>1. \A i \in 1 .. NumFields : 0 + i \in 1 .. NumFields + N BY <1>2
    <2>2. PRG_get_array(pk.B.seed, 0, NumFields) \in Elements(NumFields)
        BY <1>1, <2>1 DEF PRG_get_array, Elements
    <2> QED BY <1>1, <2>2 DEF data_share
<1>5. h_share(s, pk) \in Elements(N)
    <2>1. \A i \in 1 .. N : NumFields + i \in 1 .. NumFields + N BY <1>2
    <2>2. PRG_get_array(pk.B.seed, NumFields, N) \in Elements(N)
        BY <1>1, <2>1 DEF PRG_get_array, Elements
    <2> QED BY <1>1, <2>2 DEF h_share
<1> QED BY <1>2, <1>3, <1>4, <1>5, ElementsInts

(* What PRG_share_array leaves of an array, and what the PRG gives back. *)
LEMMA StreamShares ==
    ASSUME NEW len \in Nat, NEW from \in Nat, NEW src \in Ints(len),
           NEW seed, \A i \in 1 .. len : seed[from + i] \in Field
    PROVE  LET a == PRG_share_array(seed, from, src)
               b == PRG_get_array(seed, from, len)
           IN  /\ a \in Elements(len)
               /\ \A i \in 1 .. len : /\ a[i] = submod(src[i], seed[from + i])
                                      /\ b[i] = seed[from + i]
                                      /\ Cong(a[i] + b[i], src[i])
<1> DEFINE a == PRG_share_array(seed, from, src)
           b == PRG_get_array(seed, from, len)
           f == [i \in 1 .. len |-> submod(src[i], seed[from + i])]
<1>1. Len(src) = len BY ArrayIs DEF Ints
<1>2. ASSUME NEW i \in 1 .. len
      PROVE  /\ submod(src[i], seed[from + i]) \in Field /\ submod(src[i], seed[from + i]) \in Int
             /\ Cong(submod(src[i], seed[from + i]) + seed[from + i], src[i])
    <2>1. src[i] \in Int /\ seed[from + i] \in Int BY FieldInt DEF Ints
    <2> QED BY <2>1, OpsCong, SplitAdds, FieldInt
<1>3. a = <<>> \o f BY <1>1 DEF PRG_share_array, Array
<1>4. /\ f \in [1 .. len -> Int] /\ f \in [1 .. len -> Field]
      /\ \A i \in 1 .. len : f[i] = submod(src[i], seed[from + i])
    BY <1>2
<1>5. \A i \in 1 .. len : b[i] = seed[from + i] BY DEF PRG_get_array
<1> HIDE DEF a, b, f
<1>6. <<>> \o f = f BY <1>4, ArrayIs
<1>7. a = f BY <1>3, <1>6
<1> QED BY <1>2, <1>4, <1>5, <1>7 DEF Elements, a, b

(* The packets of PrioClient_encode: their shape, and what they add up to. *)
LEMMA ClientIs ==
    ASSUME NEW d \in Ints(NumFields), NEW rnd \in Draws
    PROVE  LET pk == PrioPacketClient_set_data(d, rnd)
               h  == h_evals(d, rnd.f0, rnd.g0)
           IN  /\ pk \in PacketsType
               /\ Multiplied(pk.A.triple, pk.B.triple)
               /\ Cong(pk.A.f0 + pk.B.f0, rnd.f0) /\ Cong(pk.A.g0 + pk.B.g0, rnd.g0)
               /\ Cong(pk.A.h0 + pk.B.h0, rnd.f0 * rnd.g0)
               /\ \A i \in 1 .. NumFields :
                    Cong(data_share(PRIO_SERVER_A, pk)[i] + data_share(PRIO_SERVER_B, pk)[i], d[i])
               /\ \A j \in 1 .. N :
                    Cong(h_share(PRIO_SERVER_A, pk)[j] + h_share(PRIO_SERVER_B, pk)[j], h[j])
<1> DEFINE h == h_evals(d, rnd.f0, rnd.g0)
           m == mulmod(rnd.f0, rnd.g0)
           t == BeaverTriple_set_rand(rnd.triple)
           seed == rnd.seed
           ds == PRG_share_array(seed, 0, d)
           hs == PRG_share_array(seed, NumFields, h)
           pk == PrioPacketClient_set_data(d, rnd)
<1>1. /\ rnd.f0 \in Field /\ rnd.f0A \in Field /\ rnd.g0 \in Field /\ rnd.g0A \in Field
      /\ rnd.h0A \in Field /\ seed \in [1 .. NumFields + N -> Field]
      /\ rnd.triple \in [a1 : Field, b1 : Field, a2 : Field, b2 : Field, c2 : Field]
    BY DEF Draws
<1>2. /\ rnd.f0 \in Int /\ rnd.f0A \in Int /\ rnd.g0 \in Int /\ rnd.g0A \in Int
      /\ rnd.h0A \in Int
    BY <1>1, FieldInt
<1>3. NumFields \in Nat /\ N \in Nat BY LogNIs
<1>4. t.A \in TripleType /\ t.B \in TripleType /\ Multiplied(t.A, t.B) BY <1>1, TripleIs
<1>5. m \in Field /\ m \in Int /\ Cong(m, rnd.f0 * rnd.g0) BY <1>2, OpsCong, FieldInt
<1>6. h \in Ints(N) BY <1>2, HEvalsIs
<1>7. pk = [A |-> [triple |-> t.A, f0 |-> rnd.f0A, g0 |-> rnd.g0A, h0 |-> rnd.h0A,
                   data_shares |-> ds, h_points |-> hs],
            B |-> [triple |-> t.B, f0 |-> submod(rnd.f0, rnd.f0A),
                   g0 |-> submod(rnd.g0, rnd.g0A), h0 |-> submod(m, rnd.h0A),
                   seed |-> seed]]
    BY DEF PrioPacketClient_set_data, share_int
<1> HIDE DEF m, t, h, pk, seed
<1>8. \A i \in 1 .. NumFields : seed[0 + i] \in Field
    <2>1. \A i \in 1 .. NumFields : 0 + i \in 1 .. NumFields + N BY <1>3
    <2> QED BY <1>1, <2>1
<1>9. \A j \in 1 .. N : seed[NumFields + j] \in Field
    <2>1. \A j \in 1 .. N : NumFields + j \in 1 .. NumFields + N BY <1>3
    <2> QED BY <1>1, <2>1
<1>10. /\ ds \in Elements(NumFields)
       /\ \A i \in 1 .. NumFields : Cong(ds[i] + PRG_get_array(seed, 0, NumFields)[i], d[i])
    <2>1. 0 \in Nat OBVIOUS
    <2> QED BY <1>3, <1>8, <2>1, StreamShares
<1>11. /\ hs \in Elements(N)
       /\ \A j \in 1 .. N : Cong(hs[j] + PRG_get_array(seed, NumFields, N)[j], h[j])
    BY <1>3, <1>6, <1>9, StreamShares
<1> HIDE DEF ds, hs
<1>12. /\ submod(rnd.f0, rnd.f0A) \in Field /\ submod(rnd.g0, rnd.g0A) \in Field
       /\ submod(m, rnd.h0A) \in Field
       /\ Cong(rnd.f0A + submod(rnd.f0, rnd.f0A), rnd.f0)
       /\ Cong(rnd.g0A + submod(rnd.g0, rnd.g0A), rnd.g0)
       /\ Cong(rnd.h0A + submod(m, rnd.h0A), m)
    BY <1>2, <1>5, OpsCong, SplitAdds
<1>13. pk \in PacketsType BY <1>1, <1>4, <1>7, <1>10, <1>11, <1>12 DEF PacketsType, Elements
<1>14. Multiplied(pk.A.triple, pk.B.triple) BY <1>4, <1>7
<1>15. Cong(pk.A.f0 + pk.B.f0, rnd.f0) /\ Cong(pk.A.g0 + pk.B.g0, rnd.g0) BY <1>7, <1>12
<1>16. Cong(pk.A.h0 + pk.B.h0, rnd.f0 * rnd.g0)
    <2> DEFINE s == rnd.h0A + submod(m, rnd.h0A)
               q == rnd.f0 * rnd.g0
    <2>1. s \in Int /\ q \in Int
        <3> DEFINE x == rnd.f0
                   y == rnd.g0
                   z == rnd.h0A
                   w == submod(m, z)
        <3>1. x \in Int /\ y \in Int /\ z \in Int /\ w \in Int BY <1>2, <1>12, FieldInt
        <3> HIDE DEF x, y, z, w
        <3>2. x * y \in Int /\ z + w \in Int BY <3>1
        <3> QED BY <3>2 DEF x, y, z, w
    <2>2. pk.A.h0 + pk.B.h0 = s /\ Cong(s, m) /\ Cong(m, q) BY <1>5, <1>7, <1>12
    <2> HIDE DEF s, q
    <2>3. Cong(s, q) BY <1>5, <2>1, <2>2, CongTrans
    <2> QED BY <2>2, <2>3 DEF q
<1>17. PRIO_SERVER_A # PRIO_SERVER_B BY DEF PRIO_SERVER_A, PRIO_SERVER_B
<1>18. /\ data_share(PRIO_SERVER_A, pk) = ds
       /\ data_share(PRIO_SERVER_B, pk) = PRG_get_array(seed, 0, NumFields)
       /\ h_share(PRIO_SERVER_A, pk) = hs
       /\ h_share(PRIO_SERVER_B, pk) = PRG_get_array(seed, NumFields, N)
    BY <1>7, <1>17 DEF data_share, h_share
<1> QED BY <1>10, <1>11, <1>13, <1>14, <1>15, <1>16, <1>18 DEF pk, h


-----------------------------------------------------------------------------
(* What the servers decide *)

(* Shares of the points give shares of f(r) or g(r), *)
LEMMA PointsShares ==
    ASSUME NEW a0 \in Int, NEW b0 \in Int, NEW c0 \in Int, NEW r \in Int,
           NEW a \in Ints(NumFields), NEW b \in Ints(NumFields), NEW c \in Ints(NumFields),
           Cong(a0 + b0, c0), \A i \in 1 .. NumFields : Cong(a[i] + b[i], c[i])
    PROVE  Cong(poly_interp_evaluate(PointsOf(a0, a), r) + poly_interp_evaluate(PointsOf(b0, b), r),
                poly_interp_evaluate(PointsOf(c0, c), r))
<1> DEFINE x == PointsOf(a0, a)
           y == PointsOf(b0, b)
           z == PointsOf(c0, c)
           k == LogN
<1>1. k \in 0 .. Generator2Order /\ N = 2 ^ k /\ N \in Nat /\ NumFields \in Nat BY LogNIs
<1>2. x \in Ints(N) /\ y \in Ints(N) /\ z \in Ints(N) BY PointsAre
<1>3. ASSUME NEW i \in 1 .. N PROVE Cong(z[i], x[i] + y[i])
    <2>1. /\ x[i] = IF i = 1 THEN a0 ELSE IF i <= NumFields + 1 THEN a[i - 1] ELSE 0
          /\ y[i] = IF i = 1 THEN b0 ELSE IF i <= NumFields + 1 THEN b[i - 1] ELSE 0
          /\ z[i] = IF i = 1 THEN c0 ELSE IF i <= NumFields + 1 THEN c[i - 1] ELSE 0
        BY DEF PointsOf
    <2>2. Cong(x[i] + y[i], z[i])
        <3>1. CASE i = 1 BY <2>1, <3>1
        <3>2. CASE i # 1 /\ i <= NumFields + 1
            <4>1. i - 1 \in 1 .. NumFields BY <1>1, <3>2
            <4> QED BY <2>1, <3>2, <4>1
        <3>3. CASE i # 1 /\ ~(i <= NumFields + 1)
            <4>1. 0 + 0 = 0 /\ Cong(0, 0) BY CongRefl
            <4> QED BY <2>1, <3>3, <4>1
        <3> QED BY <3>1, <3>2, <3>3
    <2> DEFINE u == x[i]
               v == y[i]
               w == z[i]
    <2>3. u \in Int /\ v \in Int /\ w \in Int /\ Cong(u + v, w) BY <1>2, <2>2 DEF Ints
    <2> HIDE DEF u, v, w
    <2>4. u + v \in Int BY <2>3
    <2>5. Cong(w, u + v) BY <2>3, <2>4, CongSym
    <2> QED BY <2>5 DEF u, v, w
<1> HIDE DEF x, y, z, k
<1>4. x \in Ints(2 ^ k) /\ y \in Ints(2 ^ k) /\ z \in Ints(2 ^ k) BY <1>1, <1>2
<1>5. \A i \in 1 .. 2 ^ k : Cong(z[i], x[i] + y[i]) BY <1>1, <1>3
<1>6. Cong(poly_interp_evaluate(x, r) + poly_interp_evaluate(y, r), poly_interp_evaluate(z, r))
    BY <1>1, <1>4, <1>5, InterpSum
<1> QED BY <1>6 DEF x, y, z

(* and those of the points of h give shares of h(r). *)
LEMMA EvenShares ==
    ASSUME NEW a0 \in Int, NEW b0 \in Int, NEW c0 \in Int, NEW r \in Int,
           NEW a \in Ints(N), NEW b \in Ints(N), NEW c \in Ints(N),
           Cong(a0 + b0, c0), \A i \in 1 .. N : Cong(a[i] + b[i], c[i])
    PROVE  Cong(poly_interp_evaluate(EvenPoints(a0, a), r)
                  + poly_interp_evaluate(EvenPoints(b0, b), r),
                poly_interp_evaluate(EvenPoints(c0, c), r))
<1> DEFINE x == EvenPoints(a0, a)
           y == EvenPoints(b0, b)
           z == EvenPoints(c0, c)
           k == LogN + 1
<1>1. k \in 0 .. Generator2Order /\ 2 * N = 2 ^ k /\ N \in Nat BY LogNIs
<1>2. x \in Ints(2 * N) /\ y \in Ints(2 * N) /\ z \in Ints(2 * N) BY EvenPointsAre
<1>3. ASSUME NEW i \in 1 .. 2 * N PROVE Cong(z[i], x[i] + y[i])
    <2>1. /\ x[i] = IF i = 1 THEN a0 ELSE IF i % 2 = 0 THEN a[i \div 2] ELSE 0
          /\ y[i] = IF i = 1 THEN b0 ELSE IF i % 2 = 0 THEN b[i \div 2] ELSE 0
          /\ z[i] = IF i = 1 THEN c0 ELSE IF i % 2 = 0 THEN c[i \div 2] ELSE 0
        BY DEF EvenPoints
    <2>2. Cong(x[i] + y[i], z[i])
        <3>1. CASE i = 1 BY <2>1, <3>1
        <3>2. CASE i # 1 /\ i % 2 = 0
            <4>1. i \div 2 \in 1 .. N BY <1>1, <3>2
            <4> QED BY <2>1, <3>2, <4>1
        <3>3. CASE i # 1 /\ i % 2 # 0
            <4>1. 0 + 0 = 0 /\ Cong(0, 0) BY CongRefl
            <4> QED BY <2>1, <3>3, <4>1
        <3> QED BY <3>1, <3>2, <3>3
    <2> DEFINE u == x[i]
               v == y[i]
               w == z[i]
    <2>3. u \in Int /\ v \in Int /\ w \in Int /\ Cong(u + v, w) BY <1>2, <2>2 DEF Ints
    <2> HIDE DEF u, v, w
    <2>4. u + v \in Int BY <2>3
    <2>5. Cong(w, u + v) BY <2>3, <2>4, CongSym
    <2> QED BY <2>5 DEF u, v, w
<1> HIDE DEF x, y, z, k
<1>4. x \in Ints(2 ^ k) /\ y \in Ints(2 ^ k) /\ z \in Ints(2 ^ k) BY <1>1, <1>2
<1>5. \A i \in 1 .. 2 ^ k : Cong(z[i], x[i] + y[i]) BY <1>1, <1>3
<1>6. Cong(poly_interp_evaluate(x, r) + poly_interp_evaluate(y, r), poly_interp_evaluate(z, r))
    BY <1>1, <1>4, <1>5, InterpSum
<1> QED BY <1>6 DEF x, y, z

(* f, g and h at r, from the points, and whether f * g = h there. *)
FAt(f0, d, r) == poly_interp_evaluate(PointsOf(f0, d), r)
GAt(g0, d, r) == poly_interp_evaluate(PointsOf(g0, ShiftedFor(PRIO_SERVER_A, d)), r)
HAt(h0, h, r) == poly_interp_evaluate(EvenPoints(h0, h), r)

LEMMA ValuesInt ==
    ASSUME NEW c0 \in Int, NEW d \in Ints(NumFields), NEW h \in Ints(N), NEW r \in Int
    PROVE  FAt(c0, d, r) \in Int /\ GAt(c0, d, r) \in Int /\ HAt(c0, h, r) \in Int
<1>1. /\ LogN \in 0 .. Generator2Order /\ N = 2 ^ LogN
      /\ LogN + 1 \in 0 .. Generator2Order /\ 2 * N = 2 ^ (LogN + 1)
    BY LogNIs
<1>2. PRIO_SERVER_A \in Server BY DEF Server
<1>3. /\ PointsOf(c0, d) \in Ints(2 ^ LogN)
      /\ PointsOf(c0, ShiftedFor(PRIO_SERVER_A, d)) \in Ints(2 ^ LogN)
    BY <1>1, <1>2, ShiftedForType, PointsAre
<1>4. EvenPoints(c0, h) \in Ints(2 ^ (LogN + 1)) BY <1>1, EvenPointsAre
<1>5. FAt(c0, d, r) \in Int /\ GAt(c0, d, r) \in Int
    BY <1>1, <1>3, InterpEvaluate, FieldInt DEF FAt, GAt
<1>6. HAt(c0, h, r) \in Int
    <2> DEFINE k == LogN + 1
    <2>1. k \in 0 .. Generator2Order /\ EvenPoints(c0, h) \in Ints(2 ^ k) BY <1>1, <1>4
    <2> HIDE DEF k
    <2> QED BY <2>1, InterpEvaluate, FieldInt DEF HAt
<1> QED BY <1>5, <1>6

(* The Beaver step with any triple: what the servers compare is off by     *)
(* a * b - c, as if the triple were right and one share of h(r) larger.    *)
LEMMA BeaverShifted ==
    ASSUME NEW sA \in SharesType, NEW sB \in SharesType,
           NEW partA \in TripleType, NEW partB \in TripleType, NEW e \in Field,
           e = submod(mulmod(addmod(partA.a, partB.a), addmod(partA.b, partB.b)),
                      addmod(partA.c, partB.c))
    PROVE  LET p1A == PrioPacketVerify1_set_data(sA, partA)
               p1B == PrioPacketVerify1_set_data(sB, partB)
               p2A == PrioPacketVerify2_set_data(sA, partA, p1A, p1B)
               p2B == PrioPacketVerify2_set_data(sB, partB, p1A, p1B)
           IN  PrioVerifier_isValid(p2A, p2B)
                 <=> Cong((sA.fR + sB.fR) * (sA.gR + sB.gR), (sA.hR + sB.hR) + e)
<1> DEFINE w == addmod(sA.hR, e)
           v == addmod(partA.c, e)
           sC == [sA EXCEPT !.hR = w]
           partC == [partA EXCEPT !.c = v]
           p1A == PrioPacketVerify1_set_data(sA, partA)
           p1B == PrioPacketVerify1_set_data(sB, partB)
           p1C == PrioPacketVerify1_set_data(sC, partC)
           oA  == PrioPacketVerify2_set_data(sA, partA, p1A, p1B)
           oB  == PrioPacketVerify2_set_data(sB, partB, p1A, p1B)
           oC  == PrioPacketVerify2_set_data(sC, partC, p1A, p1B)
           D   == addmod(p1A.d, p1B.d)
           E   == addmod(p1A.e, p1B.e)
           t   == (D * E) * inv2 + D * partA.b + E * partA.a
<1>1. /\ sA.fR \in Int /\ sA.gR \in Int /\ sA.hR \in Int /\ e \in Int
      /\ sB.fR \in Int /\ sB.gR \in Int /\ sB.hR \in Int
      /\ partA.a \in Int /\ partA.b \in Int /\ partA.c \in Int
      /\ partB.a \in Int /\ partB.b \in Int /\ partB.c \in Int
    BY FieldInt DEF SharesType, TripleType
<1>2. /\ w \in Field /\ w \in Int /\ Cong(w, sA.hR + e)
      /\ v \in Field /\ v \in Int /\ Cong(v, partA.c + e)
    BY <1>1, OpsCong, FieldInt
<1> HIDE DEF w, v
<1>3. /\ sC \in SharesType /\ sC.fR = sA.fR /\ sC.gR = sA.gR /\ sC.hR = w
      /\ partC \in TripleType /\ partC.a = partA.a /\ partC.b = partA.b /\ partC.c = v
    BY <1>2 DEF SharesType, TripleType
<1> HIDE DEF sC, partC
<1>4. p1C = p1A BY <1>3 DEF PrioPacketVerify1_set_data
<1>5. p1A \in [d : Field, e : Field] /\ p1B \in [d : Field, e : Field]
    BY Verify1Cong, Zenon
<1> HIDE DEF p1A, p1B, p1C
<1>6. D \in Int /\ E \in Int
    <2>1. p1A.d \in Int /\ p1A.e \in Int /\ p1B.d \in Int /\ p1B.e \in Int
        BY <1>5, FieldInt
    <2> QED BY <2>1, OpsCong, FieldInt
<1>7. oA \in Field /\ Cong(oA, t + partA.c - sA.hR) BY <1>5, Verify2Cong, Zenon
<1>8. oC \in Field /\ Cong(oC, t + v - w)
    <2>1. Cong(oC, (D * E) * inv2 + D * partC.b + E * partC.a + partC.c - sC.hR)
        BY <1>3, <1>5, Verify2Cong, Zenon
    <2>2. oC \in Field BY <1>3, <1>5, Verify2Cong, Zenon
    <2> HIDE DEF oC, D, E
    <2> QED BY <1>3, <2>1, <2>2
<1> HIDE DEF oA, oB, oC
<1>9. t \in Int
    <2>1. inv2 \in Int BY Inv2, FieldInt
    <2> HIDE DEF D, E
    <2> QED BY <1>1, <1>6, <2>1
<1> HIDE DEF t
(* The two changes cancel in what server A sends. *)
<1>10. oC = oA
    <2> DEFINE c == partA.c
               h == sA.hR
    <2>1. c \in Int /\ h \in Int /\ t + v \in Int /\ t + (c + e) \in Int /\ c + e \in Int
          /\ h + e \in Int /\ (t + v) - w \in Int /\ (t + (c + e)) - (h + e) \in Int
          /\ (t + (c + e)) - (h + e) = t + c - h
        BY <1>1, <1>2, <1>9
    <2>2. Cong(v, c + e) /\ Cong(w, h + e) BY <1>2
    <2> HIDE DEF c, h
    <2>3. Cong(t + v, t + (c + e)) BY <1>2, <1>9, <2>1, <2>2, CongRefl, CongAdd
    <2>4. Cong((t + v) - w, (t + (c + e)) - (h + e)) BY <1>2, <2>1, <2>2, <2>3, CongAdd
    <2>5. oA \in Int /\ oC \in Int /\ Cong(oC, (t + v) - w) /\ Cong(oA, t + c - h)
        <3>1. (t + v) - w = t + v - w BY <1>2, <1>9
        <3> QED BY <1>7, <1>8, <3>1, FieldInt, Zenon DEF c, h
    <2>6. Cong(oC, t + c - h)
        <3> DEFINE g == (t + v) - w
                   k == (t + (c + e)) - (h + e)
        <3>1. g \in Int /\ k \in Int /\ Cong(oC, g) /\ Cong(g, k) /\ k = t + c - h
            BY <1>2, <2>1, <2>4, <2>5
        <3> HIDE DEF g, k
        <3>2. Cong(oC, k) BY <2>5, <3>1, CongTrans
        <3> QED BY <3>1, <3>2
    <2>7. t + c - h \in Int BY <2>1
    <2>8. Cong(t + c - h, oA) BY <2>5, <2>7, CongSym
    <2>9. Cong(oC, oA) BY <2>5, <2>6, <2>7, <2>8, CongTrans
    <2> QED BY <1>7, <1>8, <2>9, FieldCongEq
<1>11. mulmod(addmod(partC.a, partB.a), addmod(partC.b, partB.b)) = addmod(partC.c, partB.c)
    <2> DEFINE m == mulmod(addmod(partA.a, partB.a), addmod(partA.b, partB.b))
               c == partA.c
               b == partB.c
               s == addmod(c, b)
    <2>1. /\ addmod(partA.a, partB.a) \in Int /\ addmod(partA.b, partB.b) \in Int
        BY <1>1, OpsCong, FieldInt
    <2>2. m \in Field /\ m \in Int BY <2>1, OpsCong, FieldInt
    <2>3. c \in Int /\ b \in Int /\ c + b \in Int BY <1>1
    <2>4. s \in Field /\ s \in Int /\ Cong(s, c + b)
        <3> HIDE DEF c, b
        <3> QED BY <2>3, OpsCong, FieldInt
    <2>5. e = submod(m, s) OBVIOUS
    <2>6. Cong(v, c + e) BY <1>2
    <2> HIDE DEF m, c, b, s
    <2>7. Cong(e, m - s) /\ m - s \in Int
        <3>1. Cong(submod(m, s), m - s) BY <2>2, <2>4, OpsCong, Zenon
        <3>2. m - s \in Int BY <2>2, <2>4
        <3> QED BY <2>5, <3>1, <3>2, Zenon
    <2>8. addmod(v, b) \in Field /\ addmod(v, b) \in Int /\ Cong(addmod(v, b), v + b)
          /\ v + b \in Int
        <3>1. addmod(v, b) \in Field /\ Cong(addmod(v, b), v + b)
            BY <1>2, <2>3, OpsCong, Zenon
        <3>2. v + b \in Int BY <1>2, <2>3
        <3> QED BY <3>1, <3>2, FieldInt
    <2>9. Cong(v + b, (c + e) + b) /\ c + e \in Int /\ (c + e) + b \in Int
        <3>1. c + e \in Int /\ (c + e) + b \in Int BY <1>1, <2>3
        <3>2. Cong(b, b) BY <2>3, CongRefl
        <3> QED BY <1>2, <2>3, <2>6, <3>1, <3>2, CongAdd
    <2>10. Cong((c + b) + e, s + (m - s))
        <3>1. Cong(c + b, s) BY <2>3, <2>4, CongSym
        <3> QED BY <1>1, <2>3, <2>4, <2>7, <3>1, CongAdd
    <2>11. (c + b) + e = (c + e) + b /\ s + (m - s) = m BY <1>1, <2>2, <2>3, <2>4
    <2>12. Cong(v + b, m)
        <3>1. Cong((c + e) + b, m) BY <2>10, <2>11
        <3> QED BY <2>2, <2>8, <2>9, <3>1, CongTrans
    <2>13. Cong(addmod(v, b), m) BY <2>2, <2>8, <2>12, CongTrans
    <2>14. addmod(v, b) = m BY <2>2, <2>8, <2>13, FieldCongEq
    <2> QED BY <1>3, <2>14 DEF m, b
<1>12. PrioVerifier_isValid(oC, oB)
         <=> mulmod(addmod(sC.fR, sB.fR), addmod(sC.gR, sB.gR)) = addmod(sC.hR, sB.hR)
    BY <1>3, <1>4, <1>11, BeaverIdentity, Zenon DEF oC, oB, p1A, p1B, p1C
<1>13. PrioVerifier_isValid(oA, oB)
         <=> Cong((sA.fR + sB.fR) * (sA.gR + sB.gR), w + sB.hR)
    <2>1. mulmod(addmod(sA.fR, sB.fR), addmod(sA.gR, sB.gR)) = addmod(w, sB.hR)
            <=> Cong((sA.fR + sB.fR) * (sA.gR + sB.gR), w + sB.hR)
        BY <1>1, <1>2, Reconstruct, Zenon
    <2> QED BY <1>3, <1>10, <1>12, <2>1
<1> DEFINE p == (sA.fR + sB.fR) * (sA.gR + sB.gR)
           x == w + sB.hR
           y == (sA.hR + sB.hR) + e
<1>14. p \in Int /\ x \in Int /\ y \in Int
    <2>1. sA.fR + sB.fR \in Int /\ sA.gR + sB.gR \in Int BY <1>1
    <2> QED BY <1>1, <1>2, <2>1
<1>15. Cong(x, y)
    <2>1. Cong(w + sB.hR, (sA.hR + e) + sB.hR)
        <3>1. sA.hR + e \in Int BY <1>1
        <3> QED BY <1>1, <1>2, <3>1, CongRefl, CongAdd
    <2>2. (sA.hR + e) + sB.hR = y BY <1>1
    <2> QED BY <2>1, <2>2
<1> HIDE DEF p, x, y
<1>16. Cong(p, x) <=> Cong(p, y)
    <2>1. Cong(y, x) BY <1>14, <1>15, CongSym
    <2> QED BY <1>14, <1>15, <2>1, CongTrans
<1> QED BY <1>13, <1>16 DEF oA, oB, p1A, p1B, p, x, y

(* The servers accept just the submissions whose shares add up to points   *)
(* with f(r) * g(r) = h(r), or off by what the triple is wrong by.         *)
LEMMA SharedVerdict ==
    ASSUME NEW pk \in PacketsType, NEW r \in Int,
           NEW f0 \in Int, NEW g0 \in Int, NEW h0 \in Int,
           NEW d \in Ints(NumFields), NEW h \in Ints(N),
           Cong(pk.A.f0 + pk.B.f0, f0), Cong(pk.A.g0 + pk.B.g0, g0), Cong(pk.A.h0 + pk.B.h0, h0),
           \A i \in 1 .. NumFields :
             Cong(data_share(PRIO_SERVER_A, pk)[i] + data_share(PRIO_SERVER_B, pk)[i], d[i]),
           \A j \in 1 .. N :
             Cong(h_share(PRIO_SERVER_A, pk)[j] + h_share(PRIO_SERVER_B, pk)[j], h[j])
    PROVE  /\ TripleError(pk) \in Field
           /\ Verdict(pk, r) <=> Cong(FAt(f0, d, r) * GAt(g0, d, r), HAt(h0, h, r) + TripleError(pk))
<1> DEFINE A == PRIO_SERVER_A
           B == PRIO_SERVER_B
           dA == data_share(A, pk)
           dB == data_share(B, pk)
           hA == h_share(A, pk)
           hB == h_share(B, pk)
           eA == ShiftedFor(A, dA)
           eB == ShiftedFor(B, dB)
           e  == ShiftedFor(A, d)
           sA == compute_shares(A, pk, r)
           sB == compute_shares(B, pk, r)
           partA == pk.A.triple
           partB == pk.B.triple
           F == FAt(f0, d, r)
           G == GAt(g0, d, r)
           H == HAt(h0, h, r)
           q == TripleError(pk)
<1>1. A \in Server /\ B \in Server /\ A # B
    BY DEF Server, PRIO_SERVER_A, PRIO_SERVER_B
<1>2. packet_of(A, pk) = pk.A /\ packet_of(B, pk) = pk.B BY <1>1 DEF packet_of
<1>3. /\ pk.A.f0 \in Int /\ pk.A.g0 \in Int /\ pk.A.h0 \in Int
      /\ pk.B.f0 \in Int /\ pk.B.g0 \in Int /\ pk.B.h0 \in Int
      /\ dA \in Ints(NumFields) /\ dB \in Ints(NumFields) /\ hA \in Ints(N) /\ hB \in Ints(N)
    BY <1>1, <1>2, ServerReads
<1>4. eA \in Ints(NumFields) /\ eB \in Ints(NumFields) /\ e \in Ints(NumFields)
    BY <1>1, <1>3, ShiftedForType
<1>5. /\ sA = [fR |-> poly_interp_evaluate(PointsOf(pk.A.f0, dA), r),
               gR |-> poly_interp_evaluate(PointsOf(pk.A.g0, eA), r),
               hR |-> poly_interp_evaluate(EvenPoints(pk.A.h0, hA), r)]
      /\ sA \in SharesType
    BY <1>1, <1>2, <1>3, SharesAre
<1>6. /\ sB = [fR |-> poly_interp_evaluate(PointsOf(pk.B.f0, dB), r),
               gR |-> poly_interp_evaluate(PointsOf(pk.B.g0, eB), r),
               hR |-> poly_interp_evaluate(EvenPoints(pk.B.h0, hB), r)]
      /\ sB \in SharesType
    BY <1>1, <1>2, <1>3, SharesAre
<1>7. ASSUME NEW i \in 1 .. NumFields PROVE Cong(eA[i] + eB[i], e[i])
    <2> DEFINE a == dA[i]
               b == dB[i]
               c == d[i]
    <2>1. a \in Int /\ b \in Int /\ c \in Int /\ Cong(a + b, c) BY <1>3 DEF Ints
    <2>2. eA[i] = submod(a, 1) /\ eB[i] = b /\ e[i] = submod(c, 1) BY <1>1 DEF ShiftedFor
    <2> HIDE DEF a, b, c, eA, eB, e
    <2>3. /\ submod(a, 1) \in Int /\ Cong(submod(a, 1), a - 1)
          /\ submod(c, 1) \in Int /\ Cong(submod(c, 1), c - 1)
        <3>1. 1 \in Int OBVIOUS
        <3> QED BY <2>1, <3>1, OpsCong, FieldInt
    <2> DEFINE x == submod(a, 1)
               z == submod(c, 1)
    <2>4. x \in Int /\ Cong(x, a - 1) /\ z \in Int /\ Cong(z, c - 1) BY <2>3
    <2> HIDE DEF x, z
    <2>5. /\ a - 1 \in Int /\ c - 1 \in Int /\ (a - 1) + b = (a + b) - 1 /\ a + b \in Int
          /\ x + b \in Int /\ (a - 1) + b \in Int
        BY <2>1, <2>4
    <2>6. Cong(x + b, (a - 1) + b)
        <3>1. Cong(b, b) BY <2>1, CongRefl
        <3> QED BY <2>1, <2>4, <2>5, <3>1, CongAdd
    <2>7. Cong((a + b) - 1, c - 1)
        <3>1. 1 \in Int /\ Cong(1, 1) BY CongRefl
        <3> QED BY <2>1, <2>5, <3>1, CongAdd
    <2>8. Cong(x + b, c - 1)
        <3>1. Cong((a - 1) + b, c - 1) BY <2>5, <2>7
        <3> QED BY <2>5, <2>6, <3>1, CongTrans
    <2>9. Cong(c - 1, z) BY <2>4, <2>5, CongSym
    <2>10. Cong(x + b, z) BY <2>4, <2>5, <2>8, <2>9, CongTrans
    <2> QED BY <2>2, <2>10 DEF x, z
<1>8. F \in Int /\ G \in Int /\ H \in Int BY ValuesInt
<1>9. Cong(sA.fR + sB.fR, F)
    <2>1. \A i \in 1 .. NumFields : Cong(dA[i] + dB[i], d[i]) OBVIOUS
    <2> HIDE DEF dA, dB
    <2>2. Cong(poly_interp_evaluate(PointsOf(pk.A.f0, dA), r)
                 + poly_interp_evaluate(PointsOf(pk.B.f0, dB), r),
               poly_interp_evaluate(PointsOf(f0, d), r))
        BY <1>3, <2>1, PointsShares
    <2> QED BY <1>5, <1>6, <2>2 DEF FAt
<1>10. Cong(sA.gR + sB.gR, G) BY <1>3, <1>4, <1>5, <1>6, <1>7, PointsShares DEF GAt
<1>11. Cong(sA.hR + sB.hR, H) BY <1>3, <1>5, <1>6, EvenShares DEF HAt
<1>12. /\ partA \in TripleType /\ partB \in TripleType
       /\ q = submod(mulmod(addmod(partA.a, partB.a), addmod(partA.b, partB.b)),
                     addmod(partA.c, partB.c))
       /\ q \in Field /\ q \in Int
    <2>1. partA \in TripleType /\ partB \in TripleType BY DEF PacketsType
    <2>2. q \in Field BY TripleErrorIs
    <2> QED BY <2>1, <2>2, FieldInt DEF TripleError
<1> HIDE DEF sA, sB, partA, partB, F, G, H, q
<1>13. LET p1A == PrioPacketVerify1_set_data(sA, partA)
           p1B == PrioPacketVerify1_set_data(sB, partB)
           p2A == PrioPacketVerify2_set_data(sA, partA, p1A, p1B)
           p2B == PrioPacketVerify2_set_data(sB, partB, p1A, p1B)
       IN  PrioVerifier_isValid(p2A, p2B)
             <=> Cong((sA.fR + sB.fR) * (sA.gR + sB.gR), (sA.hR + sB.hR) + q)
    BY <1>5, <1>6, <1>12, BeaverShifted, Zenon
<1> DEFINE f == sA.fR + sB.fR
           g == sA.gR + sB.gR
           w == (sA.hR + sB.hR) + q
           I == H + q
<1>14. Verdict(pk, r) <=> Cong(f * g, w)
    BY <1>13 DEF Verdict, sA, sB, partA, partB
<1>15. /\ sA.fR \in Int /\ sB.fR \in Int /\ sA.gR \in Int /\ sB.gR \in Int
       /\ sA.hR \in Int /\ sB.hR \in Int
    BY <1>5, <1>6, FieldInt DEF SharesType
<1>16. Cong(w, I)
    <2>1. sA.hR + sB.hR \in Int BY <1>15
    <2> QED BY <1>8, <1>11, <1>12, <2>1, CongRefl, CongAdd
<1>17. f \in Int /\ g \in Int /\ w \in Int /\ I \in Int BY <1>8, <1>12, <1>15
<1>18. Cong(f, F) /\ Cong(g, G) /\ Cong(w, I) BY <1>9, <1>10, <1>16
<1> HIDE DEF f, g, w, I
<1>19. Cong(f * g, F * G) /\ f * g \in Int /\ F * G \in Int BY <1>8, <1>17, <1>18, CongMul
<1>20. Cong(f * g, w) <=> Cong(F * G, I)
    <2>1. Cong(F * G, f * g) /\ Cong(I, w) BY <1>8, <1>17, <1>18, <1>19, CongSym
    <2>2. ASSUME Cong(f * g, w) PROVE Cong(F * G, I)
        <3>1. Cong(F * G, w) BY <1>17, <1>19, <2>1, <2>2, CongTrans
        <3> QED BY <1>17, <1>18, <1>19, <3>1, CongTrans
    <2>3. ASSUME Cong(F * G, I) PROVE Cong(f * g, w)
        <3>1. Cong(f * g, I) BY <1>17, <1>19, <2>3, CongTrans
        <3> QED BY <1>17, <1>19, <2>1, <3>1, CongTrans
    <2> QED BY <2>2, <2>3
<1>21. Verdict(pk, r) <=> Cong(F * G, I) BY <1>14, <1>20
<1> QED BY <1>12, <1>21 DEF F, G, H, I, q


(* The proof of an honest client: f * g = h everywhere, since it holds at  *)
(* every root of unity, where one of f and g vanishes at the data.         *)
LEMMA HonestProduct ==
    ASSUME NEW d \in Ints(NumFields), \A i \in 1 .. NumFields : d[i] \in {0, 1},
           NEW f0 \in Int, NEW g0 \in Int, NEW r \in Int
    PROVE  Cong(HAt(f0 * g0, h_evals(d, f0, g0), r), FAt(f0, d, r) * GAt(g0, d, r))
<1> DEFINE dg == ShiftedFor(PRIO_SERVER_A, d)
           F == PointsOf(f0, d)
           G == PointsOf(g0, dg)
           h0 == f0 * g0
           h == h_evals(d, f0, g0)
           H == EvenPoints(h0, h)
           eF == data_polynomial_evals(d, f0)
           eG == data_polynomial_evals(dg, g0)
           k == LogN
           AtF(i) == PolyAt(Ext(poly_fft(F, TRUE)), N, Pow(Gen(k + 1, FALSE), i))
           AtG(i) == PolyAt(Ext(poly_fft(G, TRUE)), N, Pow(Gen(k + 1, FALSE), i))
<1>1. /\ k \in Nat /\ k \in 0 .. Generator2Order - 1 /\ k \in 0 .. Generator2Order
      /\ k + 1 \in 0 .. Generator2Order /\ N = 2 ^ k /\ 2 * N = 2 ^ (k + 1)
      /\ N \in Nat /\ 2 * N \in Nat /\ NumFields \in Nat /\ k + 1 \in Nat
    BY LogNIs
<1>2. dg \in Ints(NumFields)
    <2>1. PRIO_SERVER_A \in Server BY DEF Server
    <2> QED BY <2>1, ShiftedForType
<1>3. h0 \in Int /\ h \in Ints(N) /\ \A j \in 1 .. N : Cong(h[j], eF[2 * j] * eG[2 * j])
    <2>1. h0 \in Int OBVIOUS
    <2> QED BY <2>1, HEvalsIs
<1>4. /\ eF \in Ints(2 * N) /\ F \in Ints(N)
      /\ \A i \in 0 .. 2 * N - 1 : Cong(eF[i + 1], AtF(i))
      /\ \A j \in 0 .. N - 1 : Cong(eF[2 * j + 1], F[j + 1])
    BY EvalsIs
<1>5. /\ eG \in Ints(2 * N) /\ G \in Ints(N)
      /\ \A i \in 0 .. 2 * N - 1 : Cong(eG[i + 1], AtG(i))
      /\ \A j \in 0 .. N - 1 : Cong(eG[2 * j + 1], G[j + 1])
    BY <1>2, EvalsIs
<1>6. H \in Ints(2 * N)
    <2> HIDE DEF h0, h
    <2> QED BY <1>3, EvenPointsAre
<1>7. \A i \in 1 .. 2 * N : H[i] = IF i = 1 THEN h0 ELSE IF i % 2 = 0 THEN h[i \div 2] ELSE 0
    BY DEF EvenPoints
<1>8. /\ \A i \in 1 .. N : F[i] = IF i = 1 THEN f0 ELSE IF i <= NumFields + 1 THEN d[i - 1] ELSE 0
      /\ \A i \in 1 .. N : G[i] = IF i = 1 THEN g0 ELSE IF i <= NumFields + 1 THEN dg[i - 1] ELSE 0
    BY DEF PointsOf
<1>9. \A i \in 1 .. NumFields : dg[i] = submod(d[i], 1) BY DEF ShiftedFor
<1>10. /\ FAt(f0, d, r) = poly_interp_evaluate(F, r) /\ GAt(g0, d, r) = poly_interp_evaluate(G, r)
       /\ HAt(h0, h, r) = poly_interp_evaluate(H, r)
    BY DEF FAt, GAt, HAt
<1>11. ASSUME NEW i \in Nat PROVE AtF(i) \in Int /\ AtG(i) \in Int
    <2> DEFINE q == Pow(Gen(k + 1, FALSE), i)
               a == Ext(poly_fft(F, TRUE))
               b == Ext(poly_fft(G, TRUE))
    <2>1. Gen(k + 1, FALSE) \in Int
        <3> DEFINE K == k + 1
        <3>1. K \in 0 .. Generator2Order BY <1>1
        <3> HIDE DEF K
        <3>2. Gen(K, FALSE) \in Int
            <4>1. FALSE \in BOOLEAN OBVIOUS
            <4> QED BY <3>1, <4>1, GenIsRoot, FieldInt
        <3> QED BY <3>2 DEF K
    <2>2. q \in Int BY <2>1, PowStep
    <2>3. a \in Terms
        <3> HIDE DEF F
        <3>1. poly_fft(F, TRUE) \in Ints(N) BY <1>1, <1>4, InverseIs
        <3> QED BY <1>1, <3>1, ExtType
    <2>4. b \in Terms
        <3> HIDE DEF G
        <3>1. poly_fft(G, TRUE) \in Ints(N) BY <1>1, <1>5, InverseIs
        <3> QED BY <1>1, <3>1, ExtType
    <2> HIDE DEF q, a, b
    <2> QED BY <1>1, <2>2, <2>3, <2>4, PolyStep DEF q, a, b
<1> HIDE DEF F, G, H, h0, h, eF, eG, dg
(* Where the data are, the product of the points is that of the values. *)
<1>12. ASSUME NEW j \in 0 .. N - 1 PROVE Cong(F[j + 1] * G[j + 1], H[2 * j + 1])
    <2>1. j \in Nat /\ j + 1 \in 1 .. N /\ 2 * j + 1 \in 1 .. 2 * N /\ (2 * j + 1) % 2 = 1 BY <1>1
    <2>2. CASE j = 0
        <3>1. F[j + 1] = f0 /\ G[j + 1] = g0 /\ H[2 * j + 1] = h0 BY <1>7, <1>8, <2>1, <2>2
        <3>2. Cong(h0, h0) BY <1>3, CongRefl
        <3> QED BY <3>1, <3>2 DEF h0
    <2>3. CASE j # 0 /\ j <= NumFields
        <3> DEFINE x == d[j]
        <3>1. j \in 1 .. NumFields /\ j + 1 # 1 /\ j + 1 <= NumFields + 1 /\ 2 * j + 1 # 1
              /\ (j + 1) - 1 = j
            BY <1>1, <2>1, <2>3
        <3>2. F[j + 1] = x /\ G[j + 1] = submod(x, 1) /\ H[2 * j + 1] = 0
            BY <1>7, <1>8, <1>9, <2>1, <3>1
        <3>3. x = 0 \/ x = 1 BY <3>1
        <3> HIDE DEF x
        <3>4. submod(x, 1) \in Int
            <4>1. x \in Int /\ 1 \in Int BY <3>3
            <4> QED BY <4>1, OpsCong, FieldInt
        <3>5. x * submod(x, 1) = 0
            <4>1. CASE x = 0 BY <3>4, <4>1
            <4>2. CASE x = 1
                <5>1. submod(1, 1) = 0 BY ModulusAssumption DEF submod
                <5> QED BY <4>2, <5>1
            <4> QED BY <3>3, <4>1, <4>2
        <3>6. Cong(0, 0) BY CongRefl
        <3> QED BY <3>2, <3>5, <3>6
    <2>4. CASE j > NumFields
        <3>1. j + 1 # 1 /\ ~(j + 1 <= NumFields + 1) /\ 2 * j + 1 # 1 BY <1>1, <2>1, <2>4
        <3>2. F[j + 1] = 0 /\ G[j + 1] = 0 /\ H[2 * j + 1] = 0 BY <1>7, <1>8, <2>1, <3>1
        <3>3. Cong(0, 0) /\ 0 * 0 = 0 BY CongRefl
        <3> QED BY <3>2, <3>3
    <2>5. j = 0 \/ (j # 0 /\ j <= NumFields) \/ j > NumFields BY <1>1, <2>1
    <2> QED BY <2>2, <2>3, <2>4, <2>5
<1>13. ASSUME NEW i \in 0 .. 2 * N - 1 PROVE Cong(H[i + 1], eF[i + 1] * eG[i + 1])
    <2>1. i \in Nat /\ i + 1 \in 1 .. 2 * N BY <1>1
    <2>2. CASE i % 2 = 1
        <3> DEFINE j == (i + 1) \div 2
        <3>1. j \in 1 .. N /\ 2 * j = i + 1 /\ i + 1 # 1 /\ (i + 1) % 2 = 0 BY <1>1, <2>1, <2>2
        <3>2. H[i + 1] = h[j] BY <1>7, <2>1, <3>1
        <3> HIDE DEF j
        <3>3. Cong(h[j], eF[2 * j] * eG[2 * j]) BY <1>3, <3>1 DEF eF, eG, h, dg
        <3> QED BY <3>1, <3>2, <3>3
    <2>3. CASE i % 2 # 1
        <3> DEFINE j == i \div 2
                   u == eF[i + 1]
                   v == eG[i + 1]
                   x == F[j + 1]
                   y == G[j + 1]
                   w == H[i + 1]
        <3>1. j \in 0 .. N - 1 /\ 2 * j = i /\ j + 1 \in 1 .. N BY <1>1, <2>1, <2>3
        <3>2. u \in Int /\ v \in Int /\ x \in Int /\ y \in Int /\ w \in Int
            BY <1>4, <1>5, <1>6, <2>1, <3>1 DEF Ints
        <3>3. Cong(u, x) /\ Cong(v, y) BY <1>4, <1>5, <3>1
        <3>4. Cong(x * y, w) BY <1>12, <3>1
        <3> HIDE DEF j, u, v, x, y, w
        <3>5. Cong(u * v, x * y) /\ u * v \in Int /\ x * y \in Int BY <3>2, <3>3, CongMul
        <3>6. Cong(u * v, w) BY <3>2, <3>4, <3>5, CongTrans
        <3>7. Cong(w, u * v) BY <3>2, <3>5, <3>6, CongSym
        <3> QED BY <3>7 DEF u, v, w
    <2> QED BY <2>2, <2>3
<1>14. ASSUME NEW i \in 0 .. 2 * N - 1 PROVE Cong(H[i + 1], AtF(i) * AtG(i))
    <2> DEFINE u == eF[i + 1]
               v == eG[i + 1]
               x == AtF(i)
               y == AtG(i)
               w == H[i + 1]
    <2>1. i \in Nat /\ i + 1 \in 1 .. 2 * N BY <1>1
    <2>2. u \in Int /\ v \in Int /\ w \in Int BY <1>4, <1>5, <1>6, <2>1 DEF Ints
    <2>3. x \in Int /\ y \in Int BY <1>11, <2>1
    <2>4. Cong(u, x) /\ Cong(v, y) /\ Cong(w, u * v) BY <1>4, <1>5, <1>13
    <2> HIDE DEF u, v, x, y, w
    <2>5. Cong(u * v, x * y) /\ u * v \in Int /\ x * y \in Int BY <2>2, <2>3, <2>4, CongMul
    <2>6. Cong(w, x * y) BY <2>2, <2>4, <2>5, CongTrans
    <2> QED BY <2>6 DEF w, x, y
<1>15. F \in Ints(2 ^ k) /\ G \in Ints(2 ^ k) /\ H \in Ints(2 ^ (k + 1)) BY <1>1, <1>4, <1>5, <1>6
<1>16. \A i \in 0 .. 2 ^ (k + 1) - 1 :
         LET q == Pow(Gen(k + 1, FALSE), i)
         IN  Cong(H[i + 1], PolyAt(Ext(poly_fft(F, TRUE)), 2 ^ k, q)
                              * PolyAt(Ext(poly_fft(G, TRUE)), 2 ^ k, q))
    BY <1>1, <1>14
<1> HIDE DEF k, AtF, AtG
<1>17. Cong(poly_interp_evaluate(H, r), poly_interp_evaluate(F, r) * poly_interp_evaluate(G, r))
    BY <1>1, <1>15, <1>16, InterpProduct
<1> QED BY <1>10, <1>17 DEF h0, h


(* Honest packets are valid at every point.                                *)
LEMMA HonestVerdict ==
    ASSUME NEW d \in Ints(NumFields), \A i \in 1 .. NumFields : d[i] \in {0, 1},
           NEW rnd \in Draws, NEW r \in Int
    PROVE  Verdict(PrioPacketClient_set_data(d, rnd), r)
<1> DEFINE pk == PrioPacketClient_set_data(d, rnd)
           f0 == rnd.f0
           g0 == rnd.g0
           h0 == f0 * g0
           h == h_evals(d, f0, g0)
<1>1. f0 \in Int /\ g0 \in Int BY FieldInt DEF Draws
<1>2. h \in Ints(N) BY <1>1, HEvalsIs
<1>3. /\ pk \in PacketsType
      /\ Multiplied(pk.A.triple, pk.B.triple)
      /\ Cong(pk.A.f0 + pk.B.f0, f0) /\ Cong(pk.A.g0 + pk.B.g0, g0)
      /\ Cong(pk.A.h0 + pk.B.h0, h0)
      /\ \A i \in 1 .. NumFields :
           Cong(data_share(PRIO_SERVER_A, pk)[i] + data_share(PRIO_SERVER_B, pk)[i], d[i])
      /\ \A j \in 1 .. N :
           Cong(h_share(PRIO_SERVER_A, pk)[j] + h_share(PRIO_SERVER_B, pk)[j], h[j])
    BY ClientIs
<1> HIDE DEF pk, f0, g0
<1>4. h0 \in Int BY <1>1
<1>5. Cong(HAt(h0, h, r), FAt(f0, d, r) * GAt(g0, d, r)) BY <1>1, HonestProduct
<1> HIDE DEF h0, h
<1>6. FAt(f0, d, r) \in Int /\ GAt(g0, d, r) \in Int /\ HAt(h0, h, r) \in Int
    BY <1>1, <1>2, <1>4, ValuesInt
<1>7. Cong(FAt(f0, d, r) * GAt(g0, d, r), HAt(h0, h, r))
    <2> DEFINE x == FAt(f0, d, r)
               y == GAt(g0, d, r)
               z == HAt(h0, h, r)
    <2>1. x \in Int /\ y \in Int /\ z \in Int /\ Cong(z, x * y) BY <1>5, <1>6
    <2> HIDE DEF x, y, z
    <2>2. x * y \in Int BY <2>1
    <2>3. Cong(x * y, z) BY <2>1, <2>2, CongSym
    <2> QED BY <2>3 DEF x, y, z
<1>8. Verdict(pk, r) <=> Cong(FAt(f0, d, r) * GAt(g0, d, r), HAt(h0, h, r))
    <2>1. TripleError(pk) = 0 BY <1>3, TripleErrorIs
    <2>2. Verdict(pk, r)
            <=> Cong(FAt(f0, d, r) * GAt(g0, d, r), HAt(h0, h, r) + TripleError(pk))
        BY <1>1, <1>2, <1>3, <1>4, SharedVerdict
    <2>3. HAt(h0, h, r) + 0 = HAt(h0, h, r) BY <1>6
    <2> QED BY <2>1, <2>2, <2>3
<1> QED BY <1>7, <1>8 DEF pk

-----------------------------------------------------------------------------
(* How often a polynomial vanishes *)

(* In a prime field a product vanishes only where a factor does: the least *)
(* multiple of x that vanishes divides the modulus.                        *)
LEMMA PrimeCong ==
    ASSUME NEW x \in Int, NEW y \in Int, Cong(x * y, 0), ~Cong(x, 0)
    PROVE  Cong(y, 0)
<1> DEFINE S == {k \in Nat \ {0} : Cong(k * x, 0)}
<1>1. Modulus \in S
    <2>1. Modulus * x = 0 + Modulus * x BY ModulusAssumption
    <2>2. Cong(Modulus * x, 0) BY <2>1 DEF Cong
    <2> QED BY <2>2, ModulusAssumption
<1>2. PICK m \in S : \A k \in S : m <= k
    <2>1. S # {} /\ S \subseteq Nat BY <1>1
    <2> HIDE DEF S
    <2> QED BY <2>1, LeastNat
<1>3. m \in Nat \ {0} /\ Cong(m * x, 0) /\ m <= Modulus BY <1>1, <1>2
<1>4. ASSUME NEW k \in Nat, Cong(k * x, 0) PROVE k % m = 0
    <2> DEFINE q == k \div m
               r == k % m
    <2>1. q \in Int /\ r \in Nat /\ r < m /\ k = m * q + r BY <1>3
    <2> HIDE DEF q, r
    <2>2. PICK a \in Int : k * x = 0 + Modulus * a BY <1>4 DEF Cong
    <2>3. PICK b \in Int : m * x = 0 + Modulus * b BY <1>3 DEF Cong
    <2>4. r * x = 0 + Modulus * (a - q * b)
        <3>1. r = k - m * q BY <1>3, <2>1
        <3>2. (k - m * q) * x = k * x - q * (m * x) BY <1>3, <2>1
        <3>3. Modulus * a - q * (Modulus * b) = Modulus * (a - q * b) BY <2>1, ModulusAssumption
        <3>4. k * x = Modulus * a /\ m * x = Modulus * b BY <2>2, <2>3, ModulusAssumption
        <3>5. r * x = Modulus * (a - q * b) BY <3>1, <3>2, <3>3, <3>4
        <3>6. Modulus * (a - q * b) \in Int BY <2>1, ModulusAssumption
        <3> QED BY <3>5, <3>6
    <2>5. a - q * b \in Int BY <2>1
    <2>6. Cong(r * x, 0) BY <2>4, <2>5 DEF Cong
    <2>7. r # 0 => r \in S BY <2>1, <2>6
    <2>8. r = 0 BY <1>2, <1>3, <2>1, <2>7
    <2> QED BY <2>8 DEF r
<1>5. Modulus % m = 0
    <2>1. Modulus \in Nat /\ Cong(Modulus * x, 0) BY <1>1
    <2> QED BY <1>4, <2>1
<1>6. m # 1
    <2>1. 1 * x = x OBVIOUS
    <2> QED BY <1>3, <2>1
<1>7. m = Modulus
    <2>1. m \notin 2 .. Modulus - 1 BY <1>5, PrimeAssumption
    <2> QED BY <1>3, <1>6, <2>1, ModulusAssumption
<1> DEFINE k == y % Modulus
<1>8. k \in Field /\ k \in Nat /\ k < Modulus /\ Cong(k, y) BY DivMod, CongMod, ModulusAssumption DEF Field
<1> HIDE DEF k
<1>9. Cong(k * x, y * x)
    <2>1. Cong(x, x) /\ k \in Int BY <1>8, CongRefl
    <2> QED BY <1>8, <2>1, CongMul
<1>10. Cong(k * x, 0)
    <2>1. y * x = x * y /\ k * x \in Int /\ y * x \in Int /\ 0 \in Int BY <1>8
    <2> QED BY <1>9, <2>1, CongTrans
<1>11. k % m = 0 BY <1>4, <1>8, <1>10
<1>12. k = 0 BY <1>7, <1>8, <1>11, ModulusAssumption
<1> QED BY <1>8, <1>12, CongSym

(* A product of field elements vanishes only where a factor does. *)
LEMMA FieldDomain ==
    ASSUME NEW a \in Field, NEW b \in Field
    PROVE  /\ mulmod(a, b) \in Field
           /\ mulmod(a, b) = 0 <=> a = 0 \/ b = 0
<1>1. 0 \in Field /\ a \in Int /\ b \in Int /\ 0 \in Int BY ModulusAssumption, FieldInt DEF Field
<1>2. mulmod(a, b) \in Field /\ Cong(mulmod(a, b), a * b) /\ mulmod(a, b) \in Int
    BY <1>1, OpsCong, FieldInt
<1>3. a * b \in Int BY <1>1
<1>4. ASSUME mulmod(a, b) = 0 PROVE a = 0 \/ b = 0
    <2>1. Cong(a * b, 0) BY <1>1, <1>2, <1>3, <1>4, CongSym
    <2>2. Cong(a, 0) \/ Cong(b, 0) BY <1>1, <2>1, PrimeCong
    <2> QED BY <1>1, <2>2, FieldCongEq
<1>5. ASSUME a = 0 \/ b = 0 PROVE mulmod(a, b) = 0
    <2>1. a * b = 0 BY <1>1, <1>5
    <2> QED BY <2>1, ModulusAssumption DEF mulmod
<1> QED BY <1>2, <1>4, <1>5

(* Differences tell field elements apart. *)
LEMMA FieldDiffers ==
    ASSUME NEW a \in Field, NEW b \in Field
    PROVE  /\ submod(a, b) \in Field
           /\ submod(a, b) = 0 <=> a = b
<1>1. a \in Int /\ b \in Int /\ 0 \in Field BY FieldInt, ModulusAssumption DEF Field
<1>2. submod(a, b) \in Field /\ Cong(submod(a, b), a - b) BY <1>1, OpsCong
<1>3. submod(a, b) = 0 <=> Cong(submod(a, b), 0) BY <1>1, <1>2, FieldCongEq
<1>4. Cong(submod(a, b), 0) <=> Cong(a, b) BY <1>1, <1>2, FieldInt, CongDifference
<1> QED BY <1>2, <1>3, <1>4, FieldCongEq

(* A polynomial less its value at a is a multiple of x - a. *)
LEMMA PolyFactor ==
    ASSUME NEW n \in Nat, NEW c \in Terms, NEW a \in Int
    PROVE  \E q \in Terms : \A x \in Int :
             PolyAt(c, n + 1, x) = PolyAt(c, n + 1, a) + (x - a) * PolyAt(q, n, x)
<1> DEFINE Factors(p, q, m) ==
             \A x \in Int : PolyAt(p, m + 1, x) = PolyAt(p, m + 1, a) + (x - a) * PolyAt(q, m, x)
           P == {m \in Nat : \A p \in Terms : \E q \in Terms : Factors(p, q, m)}
<1>1. 0 \in P
    <2>1. ASSUME NEW p \in Terms, NEW x \in Int
          PROVE  PolyAt(p, 0 + 1, x) = PolyAt(p, 0 + 1, a) + (x - a) * PolyAt(p, 0, x)
        <3>1. /\ PolyAt(p, 0 + 1, x) = PolyAt(p, 0, x) + p[0] * Pow(x, 0)
              /\ PolyAt(p, 0 + 1, a) = PolyAt(p, 0, a) + p[0] * Pow(a, 0)
              /\ PolyAt(p, 0, x) = 0 /\ PolyAt(p, 0, a) = 0 /\ p[0] \in Int
            BY PolyStep
        <3>2. Pow(x, 0) = 1 /\ Pow(a, 0) = 1
            <4>1. 0 \in Nat OBVIOUS
            <4> QED BY <4>1, PowStep
        <3> QED BY <3>1, <3>2
    <2> QED BY <2>1
<1>2. ASSUME NEW m \in Nat, m \in P PROVE m + 1 \in P
    <2> SUFFICES ASSUME NEW p \in Terms PROVE \E q \in Terms : Factors(p, q, m + 1) OBVIOUS
    <2> DEFINE t == [i \in Nat |-> p[i + 1]]
    <2>1. t \in Terms /\ \A i \in 0 .. (m + 1) - 1 : t[i] = p[i + 1]
        <3>1. \A i \in Nat : i + 1 \in Nat OBVIOUS
        <3> QED BY <3>1 DEF Terms
    <2> HIDE DEF t
    <2>2. PICK s \in Terms : Factors(t, s, m) BY <1>2, <2>1
    <2> DEFINE B == PolyAt(t, m + 1, a)
               q == [i \in Nat |-> IF i = 0 THEN B ELSE s[i - 1]]
    <2>3. B \in Int /\ p[0] \in Int
        <3>1. m + 1 \in Nat /\ 0 \in Nat OBVIOUS
        <3> QED BY <2>1, <3>1, PolyStep
    <2> HIDE DEF B
    <2>4. q \in Terms /\ q[0] = B /\ \A i \in 0 .. m - 1 : s[i] = q[i + 1]
        <3>1. ASSUME NEW i \in Nat, i # 0 PROVE s[i - 1] \in Int
            <4>1. i - 1 \in Nat BY <3>1
            <4> QED BY <4>1 DEF Terms
        <3>2. q \in Terms BY <2>3, <3>1 DEF Terms
        <3>3. \A i \in 0 .. m - 1 : i + 1 \in Nat /\ i + 1 # 0 /\ (i + 1) - 1 = i OBVIOUS
        <3> QED BY <3>2, <3>3
    <2> HIDE DEF q
    <2>5. ASSUME NEW x \in Int
          PROVE  PolyAt(p, (m + 1) + 1, x)
                   = PolyAt(p, (m + 1) + 1, a) + (x - a) * PolyAt(q, m + 1, x)
        <3> DEFINE Q == PolyAt(s, m, x)
                   e == p[0]
        <3>1. m + 1 \in Nat OBVIOUS
        <3>2. PolyAt(p, (m + 1) + 1, x) = e + x * PolyAt(t, m + 1, x) BY <2>1, <3>1, PolyShift
        <3>3. PolyAt(p, (m + 1) + 1, a) = e + a * B BY <2>1, <3>1, PolyShift DEF B
        <3>4. PolyAt(t, m + 1, x) = B + (x - a) * Q BY <2>2 DEF B
        <3>5. PolyAt(q, m + 1, x) = B + x * Q BY <2>4, PolyShift
        <3>6. Q \in Int /\ e \in Int BY <2>3, PolyStep
        <3> HIDE DEF Q, e
        <3>7. e + x * (B + (x - a) * Q) = (e + a * B) + (x - a) * (B + x * Q) BY <2>3, <3>6
        <3> QED BY <3>2, <3>3, <3>4, <3>5, <3>7
    <2> QED BY <2>4, <2>5
<1> HIDE DEF P, Factors
<1>3. n \in P BY <1>1, <1>2, NatInduct
<1>4. \E q \in Terms : Factors(c, q, n) BY <1>3 DEF P
<1> QED BY <1>4 DEF Factors

(* The elements of the field where a polynomial vanishes. *)
RootsOf(c, n) == {r \in Field : Cong(PolyAt(c, n, r), 0)}

LEMMA ZerosFinite ==
    ASSUME NEW c, NEW n
    PROVE  IsFiniteSet(RootsOf(c, n)) /\ Cardinality(RootsOf(c, n)) \in Nat
<1>1. IsFiniteSet(Field)
    <2>1. 0 \in Int /\ Modulus - 1 \in Int BY ModulusAssumption
    <2> QED BY <2>1, FS_Interval DEF Field
<1>2. RootsOf(c, n) \in SUBSET Field BY DEF RootsOf
<1> QED BY <1>1, <1>2, FS_Subset, FS_CardinalityType

(* They are fewer than the coefficients, unless it vanishes everywhere. *)
LEMMA FewZeros ==
    ASSUME NEW n \in Nat, NEW c \in Terms, NEW x \in Int, ~Cong(PolyAt(c, n, x), 0)
    PROVE  Cardinality(RootsOf(c, n)) < n
<1> DEFINE P == {m \in Nat : \A p \in Terms, y \in Int :
                    ~Cong(PolyAt(p, m, y), 0) => Cardinality(RootsOf(p, m)) < m}
<1>1. 0 \in P
    <2>1. ASSUME NEW p \in Terms, NEW y \in Int PROVE Cong(PolyAt(p, 0, y), 0)
        <3>1. PolyAt(p, 0, y) = 0 BY PolyStep
        <3> QED BY <3>1, CongRefl
    <2> QED BY <2>1
<1>2. ASSUME NEW m \in Nat, m \in P PROVE m + 1 \in P
    <2> SUFFICES ASSUME NEW p \in Terms, NEW y \in Int, ~Cong(PolyAt(p, m + 1, y), 0)
                 PROVE  Cardinality(RootsOf(p, m + 1)) < m + 1
        OBVIOUS
    <2>1. CASE RootsOf(p, m + 1) = {} BY <2>1, FS_EmptySet
    <2>2. CASE RootsOf(p, m + 1) # {}
        <3>1. PICK a \in RootsOf(p, m + 1) : TRUE BY <2>2
        <3>2. a \in Field /\ a \in Int /\ Cong(PolyAt(p, m + 1, a), 0) BY <3>1, FieldInt DEF RootsOf
        <3>3. PICK q \in Terms : \A r \in Int :
                PolyAt(p, m + 1, r) = PolyAt(p, m + 1, a) + (r - a) * PolyAt(q, m, r)
            BY <3>2, PolyFactor
        <3> DEFINE A == PolyAt(p, m + 1, a)
        <3>4. A \in Int /\ Cong(A, 0) BY <3>2, PolyStep
        <3> HIDE DEF A
        <3>5. ASSUME NEW r \in Int
              PROVE  /\ PolyAt(q, m, r) \in Int /\ (r - a) * PolyAt(q, m, r) \in Int
                     /\ Cong(PolyAt(p, m + 1, r), 0) <=> Cong((r - a) * PolyAt(q, m, r), 0)
            <4> DEFINE Q == PolyAt(q, m, r)
                       C == PolyAt(p, m + 1, r)
                       d == r - a
            <4>1. Q \in Int /\ C = A + d * Q BY <3>3, PolyStep DEF A
            <4>2. d \in Int BY <3>2
            <4> HIDE DEF Q, C, d
            <4>3. d * Q \in Int /\ C \in Int BY <3>4, <4>1, <4>2
            <4> DEFINE e == d * Q
            <4>4. e \in Int /\ C = A + e BY <4>1, <4>3
            <4> HIDE DEF e
            <4>5. PICK b \in Int : A = 0 + Modulus * b BY <3>4 DEF Cong
            <4>6. ASSUME NEW g \in Int, C = 0 + Modulus * g PROVE Cong(e, 0)
                <5>1. e = 0 + Modulus * (g - b) BY <3>4, <4>4, <4>5, <4>6, ModulusAssumption
                <5> QED BY <5>1 DEF Cong
            <4>7. ASSUME NEW g \in Int, e = 0 + Modulus * g PROVE Cong(C, 0)
                <5>1. C = 0 + Modulus * (g + b) BY <3>4, <4>4, <4>5, <4>7, ModulusAssumption
                <5> QED BY <5>1 DEF Cong
            <4>8. Cong(C, 0) <=> Cong(e, 0) BY <4>6, <4>7 DEF Cong
            <4> QED BY <4>1, <4>3, <4>8 DEF e, C, Q, d
        <3>6. ~Cong(PolyAt(q, m, y), 0)
            <4> DEFINE Q == PolyAt(q, m, y)
                       d == y - a
            <4>1. Q \in Int /\ d \in Int /\ ~Cong(d * Q, 0) BY <3>2, <3>5
            <4> HIDE DEF Q, d
            <4>2. ASSUME Cong(Q, 0) PROVE Cong(d * Q, 0)
                <5>1. d * 0 = 0 /\ 0 \in Int /\ Cong(d, d) BY <4>1, CongRefl
                <5>2. Cong(d * Q, d * 0) BY <4>1, <4>2, <5>1, CongMul
                <5> QED BY <5>1, <5>2
            <4> QED BY <4>1, <4>2 DEF Q
        <3>7. Cardinality(RootsOf(q, m)) < m BY <1>2, <3>6
        <3>8. RootsOf(p, m + 1) \subseteq RootsOf(q, m) \cup {a}
            <4> SUFFICES ASSUME NEW r \in RootsOf(p, m + 1), r # a PROVE r \in RootsOf(q, m) OBVIOUS
            <4>1. r \in Field /\ r \in Int /\ Cong(PolyAt(p, m + 1, r), 0) BY FieldInt DEF RootsOf
            <4> DEFINE Q == PolyAt(q, m, r)
                       d == r - a
            <4>2. Q \in Int /\ d \in Int /\ Cong(d * Q, 0) BY <3>2, <3>5, <4>1
            <4>3. ~Cong(d, 0)
                <5>1. 0 \in Int /\ r - a = (r - a) - 0 BY <3>2, <4>1
                <5>2. Cong(r - a, r - a) BY <4>2, CongRefl
                <5>3. Cong(d, 0) <=> Cong(r, a)
                    <6> HIDE DEF d
                    <6>1. Cong(d, r - a) BY <5>2 DEF d
                    <6> QED BY <3>2, <4>1, <4>2, <6>1, CongDifference
                <5>4. r = a <=> Cong(r, a) BY <3>2, <4>1, FieldCongEq
                <5> QED BY <5>3, <5>4
            <4> HIDE DEF Q, d
            <4>4. Cong(Q, 0) BY <4>2, <4>3, PrimeCong
            <4> QED BY <4>1, <4>4 DEF RootsOf, Q
        <3> DEFINE Z == RootsOf(q, m)
                   U == Z \cup {a}
        <3>9. IsFiniteSet(Z) /\ Cardinality(Z) \in Nat BY ZerosFinite
        <3>10. IsFiniteSet(U) /\ Cardinality(U) <= Cardinality(Z) + 1
            <4> HIDE DEF Z
            <4>1. /\ IsFiniteSet(U)
                  /\ Cardinality(U) = IF a \in Z THEN Cardinality(Z) ELSE Cardinality(Z) + 1
                BY <3>9, FS_AddElement
            <4> QED BY <3>9, <4>1
        <3>11. Cardinality(RootsOf(p, m + 1)) <= Cardinality(U)
            <4>1. RootsOf(p, m + 1) \in SUBSET U BY <3>8
            <4> HIDE DEF U
            <4> QED BY <3>10, <4>1, FS_Subset
        <3>12. Cardinality(RootsOf(p, m + 1)) \in Nat /\ Cardinality(U) \in Nat
            <4> HIDE DEF U
            <4> QED BY <3>10, ZerosFinite, FS_CardinalityType
        <3> QED BY <3>7, <3>9, <3>10, <3>11, <3>12
    <2> QED BY <2>1, <2>2
<1> HIDE DEF P
<1>3. n \in P BY <1>1, <1>2, NatInduct
<1> QED BY <1>3 DEF P

(* f * g at root i: x * (x - 1) for a data field x, 0 at a root of padding. *)
FieldProduct(d, i) == IF i <= NumFields THEN d[i] * submod(d[i], 1) ELSE 0

(* The points where packets pass, whatever their proof and their triple,   *)
(* when f * g is at some root not what the triple is wrong by:             *)
(* f * g - h less that error has 2N coefficients, and it does not vanish   *)
(* at that root.                                                           *)
LEMMA FewAccept ==
    ASSUME NEW pk \in PacketsType, NEW d \in [1 .. NumFields -> Field],
           \A i \in 1 .. NumFields :
             Cong(data_share(PRIO_SERVER_A, pk)[i] + data_share(PRIO_SERVER_B, pk)[i], d[i]),
           NEW bad \in 1 .. N - 1, ~Cong(FieldProduct(d, bad), TripleError(pk))
    PROVE  Cardinality({r \in Field : Verdict(pk, r)}) <= 2 * N - 1
<1> DEFINE A == PRIO_SERVER_A
           B == PRIO_SERVER_B
           f0 == pk.A.f0 + pk.B.f0
           g0 == pk.A.g0 + pk.B.g0
           h0 == pk.A.h0 + pk.B.h0
           hA == h_share(A, pk)
           hB == h_share(B, pk)
           h == [j \in 1 .. N |-> hA[j] + hB[j]]
           dg == ShiftedFor(A, d)
           F == PointsOf(f0, d)
           G == PointsOf(g0, dg)
           H == EvenPoints(h0, h)
           k == LogN
           K == k + 1
           a == Ext(poly_fft(F, TRUE))
           b == Ext(poly_fft(G, TRUE))
           e == Ext(poly_fft(H, TRUE))
           s == TripleError(pk)
<1>1. /\ k \in 0 .. Generator2Order /\ K \in 0 .. Generator2Order /\ N = 2 ^ k /\ 2 * N = 2 ^ K
      /\ N \in Nat /\ 2 * N \in Nat /\ N + N = 2 * N /\ NumFields \in Nat
    BY LogNIs
<1>2. A \in Server /\ B \in Server BY DEF Server
<1>3. packet_of(A, pk) = pk.A /\ packet_of(B, pk) = pk.B
    BY DEF packet_of, PRIO_SERVER_A, PRIO_SERVER_B
<1>4. /\ pk.A.f0 \in Int /\ pk.A.g0 \in Int /\ pk.A.h0 \in Int
      /\ pk.B.f0 \in Int /\ pk.B.g0 \in Int /\ pk.B.h0 \in Int
      /\ hA \in Ints(N) /\ hB \in Ints(N)
    BY <1>2, <1>3, ServerReads
<1>5. d \in Ints(NumFields) BY FieldInt DEF Ints
<1>6. f0 \in Int /\ g0 \in Int /\ h0 \in Int BY <1>4
<1>7. Cong(pk.A.f0 + pk.B.f0, f0) /\ Cong(pk.A.g0 + pk.B.g0, g0) /\ Cong(pk.A.h0 + pk.B.h0, h0)
    BY <1>6, CongRefl
<1>8. ASSUME NEW j \in 1 .. N
      PROVE  hA[j] + hB[j] \in Int /\ Cong(hA[j] + hB[j], hA[j] + hB[j])
    <2>1. hA[j] \in Int /\ hB[j] \in Int BY <1>4 DEF Ints
    <2>2. hA[j] + hB[j] \in Int BY <2>1
    <2> QED BY <2>2, CongRefl
<1>9. h \in Ints(N) /\ \A j \in 1 .. N : Cong(hA[j] + hB[j], h[j]) BY <1>8 DEF Ints
<1>10. /\ dg \in Ints(NumFields)
       /\ bad <= NumFields => dg[bad] = submod(d[bad], 1)
       /\ s \in Int /\ s \in Field
    <2>1. bad <= NumFields => bad \in 1 .. NumFields BY <1>1
    <2> QED BY <1>2, <1>5, <2>1, ShiftedForType, TripleErrorIs DEF ShiftedFor
<1> HIDE DEF f0, g0, h0, h, dg, s
<1>11. F \in Ints(N) /\ G \in Ints(N) BY <1>5, <1>6, <1>10, EvalsIs
<1>12. H \in Ints(2 * N) BY <1>6, <1>9, EvenPointsAre
<1>13. ASSUME NEW r \in Int
       PROVE  Verdict(pk, r) <=> Cong(FAt(f0, d, r) * GAt(g0, d, r), HAt(h0, h, r) + s)
    BY <1>5, <1>6, <1>7, <1>9, SharedVerdict DEF hA, hB, s
<1>14. a \in Terms /\ b \in Terms /\ e \in Terms
    <2>1. poly_fft(F, TRUE) \in Ints(N) /\ poly_fft(G, TRUE) \in Ints(N) BY <1>1, <1>11, InverseIs
    <2>2. poly_fft(H, TRUE) \in Ints(2 * N)
        <3> HIDE DEF K, H
        <3> QED BY <1>1, <1>12, InverseIs
    <2> QED BY <1>1, <2>1, <2>2, ExtType
<1>15. PICK c \in Terms : \A x \in Int : PolyAt(c, N + N, x) = PolyAt(a, N, x) * PolyAt(b, N, x)
    <2>1. N \in Nat BY <1>1
    <2> HIDE DEF a, b, e
    <2> QED BY <1>14, <2>1, PolyMul, ZenonT(40)
<1> DEFINE o == 1
           m == -1
           e1 == Shifted(One, 1, 0)
           e2 == [i \in Nat |-> o * e[i] + s * e1[i]]
           D == [i \in Nat |-> o * c[i] + m * e2[i]]
<1>16. e1 \in Terms /\ e2 \in Terms /\ D \in Terms
    <2>1. e1 \in Terms BY OneFacts, ShiftedType
    <2> HIDE DEF e, e1
    <2>2. e2 \in Terms
        <3>1. ASSUME NEW i \in Nat PROVE o * e[i] + s * e1[i] \in Int
            <4>1. e[i] \in Int /\ e1[i] \in Int BY <1>14, <2>1 DEF Terms
            <4> QED BY <1>10, <4>1
        <3> QED BY <3>1 DEF Terms
    <2> HIDE DEF e2
    <2>3. \A i \in Nat : o * c[i] + m * e2[i] \in Int
        <3> SUFFICES ASSUME NEW i \in Nat PROVE o * c[i] + m * e2[i] \in Int OBVIOUS
        <3>1. c[i] \in Int /\ e2[i] \in Int BY <2>2 DEF Terms
        <3> QED BY <3>1
    <2> QED BY <2>1, <2>2, <2>3 DEF Terms
(* D is f * g - h - s: e1 is the polynomial 1. *)
<1>17. ASSUME NEW x \in Int
       PROVE  /\ PolyAt(a, N, x) \in Int /\ PolyAt(b, N, x) \in Int /\ PolyAt(e, 2 * N, x) \in Int
              /\ PolyAt(D, 2 * N, x)
                   = PolyAt(a, N, x) * PolyAt(b, N, x) - (PolyAt(e, 2 * N, x) + s)
    <2> DEFINE L == 2 * N
    <2>1. /\ o \in Int /\ m \in Int /\ L \in Nat
          /\ \A i \in 0 .. L - 1 : D[i] = o * c[i] + m * e2[i]
          /\ \A i \in 0 .. L - 1 : e2[i] = o * e[i] + s * e1[i]
        <3>1. \A i \in 0 .. 2 * N - 1 : i \in Nat BY <1>1
        <3> QED BY <1>1, <3>1
    <2>0. PolyAt(e1, L, x) = 1
        <3> DEFINE M == L - 1
        <3>1. M \in Nat /\ 1 + M = L BY <1>1, NIsPower
        <3>2. \A i \in Nat : i >= 1 => e1[i] = 0 BY DEF Shifted
        <3>3. e1[0] = 1 BY OneFacts DEF Shifted
        <3> HIDE DEF e1, M
        <3>4. PolyAt(e1, 1 + M, x) = PolyAt(e1, 1, x) BY <1>16, <3>1, <3>2, PolyLonger
        <3>5. PolyAt(e1, 0 + 1, x) = PolyAt(e1, 0, x) + e1[0] * Pow(x, 0) /\ PolyAt(e1, 0, x) = 0
            BY <1>16, PolyStep
        <3>6. Pow(x, 0) = 1 BY PowStep
        <3> QED BY <3>1, <3>3, <3>4, <3>5, <3>6
    <2> HIDE DEF D, o, m, e, e1, e2, L
    <2>2. PolyAt(D, L, x) = o * PolyAt(c, L, x) + m * PolyAt(e2, L, x)
        BY <1>16, <2>1, PolyLinear
    <2>9. PolyAt(e2, L, x) = o * PolyAt(e, L, x) + s * PolyAt(e1, L, x)
        <3>1. e \in Terms /\ e1 \in Terms /\ e2 \in Terms /\ o \in Int /\ s \in Int /\ L \in Nat
            BY <1>10, <1>14, <1>16, <2>1
        <3>2. \A i \in 0 .. L - 1 : e2[i] = o * e[i] + s * e1[i] BY <2>1
        <3>3. \A v1, v2 \in Int :
                (\A i \in 0 .. L - 1 : e2[i] = v1 * e[i] + v2 * e1[i])
                  => PolyAt(e2, L, x) = v1 * PolyAt(e, L, x) + v2 * PolyAt(e1, L, x)
            BY <3>1, PolyLinear
        <3> QED BY <3>1, <3>2, <3>3, Zenon
    <2> USE DEF L
    <2> HIDE DEF a, b
    <2>3. PolyAt(a, N, x) \in Int /\ PolyAt(b, N, x) \in Int /\ PolyAt(e, 2 * N, x) \in Int
        BY <1>1, <1>14, PolyStep
    <2>4. PolyAt(c, 2 * N, x) = PolyAt(a, N, x) * PolyAt(b, N, x) BY <1>1, <1>15
    <2> DEFINE u == PolyAt(a, N, x)
               v == PolyAt(b, N, x)
               w == PolyAt(e, 2 * N, x)
    <2>5. PolyAt(D, 2 * N, x) = o * (u * v) + m * (o * w + s * 1) BY <2>0, <2>2, <2>4, <2>9
    <2>6. u \in Int /\ v \in Int /\ w \in Int BY <2>3
    <2> HIDE DEF u, v, w
    <2>7. u * v \in Int BY <2>6
    <2>8. o * (u * v) + m * (o * w + s * 1) = u * v - (w + s) BY <1>10, <2>6, <2>7 DEF o, m
    <2> QED BY <2>3, <2>5, <2>8 DEF u, v, w
<1> HIDE DEF D, F, G, H
<1>18. ASSUME NEW r \in Int PROVE Verdict(pk, r) <=> Cong(PolyAt(D, 2 * N, r), 0)
    <2> DEFINE u == PolyAt(a, N, r)
               v == PolyAt(b, N, r)
               w == PolyAt(e, 2 * N, r)
               x == FAt(f0, d, r)
               y == GAt(g0, d, r)
               z == HAt(h0, h, r)
    <2>1. x \in Int /\ y \in Int /\ z \in Int BY <1>5, <1>6, <1>9, ValuesInt
    <2>2. Cong(x, u) /\ Cong(y, v)
        <3>1. x = poly_interp_evaluate(F, r) /\ y = poly_interp_evaluate(G, r)
            BY DEF FAt, GAt, F, G, dg
        <3> QED BY <1>1, <1>11, <3>1, InterpEvaluate
    <2>3. Cong(z, w)
        <3>1. z = poly_interp_evaluate(H, r) BY DEF HAt, H
        <3> HIDE DEF K, z
        <3> QED BY <1>1, <1>12, <3>1, InterpEvaluate
    <2> DEFINE ws == w + s
               zs == z + s
    <2>4. u \in Int /\ v \in Int /\ w \in Int /\ PolyAt(D, 2 * N, r) = u * v - ws BY <1>17
    <2>5. Verdict(pk, r) <=> Cong(x * y, zs) BY <1>13
    <2>9. ws \in Int /\ zs \in Int /\ Cong(zs, ws)
        <3> HIDE DEF u, v, w, x, y, z
        <3>1. Cong(s, s) /\ ws \in Int /\ zs \in Int BY <1>10, <2>1, <2>4, CongRefl
        <3> QED BY <1>10, <2>1, <2>3, <2>4, <3>1, CongAdd
    <2> HIDE DEF u, v, w, x, y, z, ws, zs
    <2>6. Cong(x * y, u * v) /\ x * y \in Int /\ u * v \in Int BY <2>1, <2>2, <2>4, CongMul
    <2>7. Cong(x * y, zs) <=> Cong(u * v, ws)
        <3>1. ASSUME Cong(x * y, zs) PROVE Cong(u * v, ws)
            <4>1. Cong(u * v, x * y) BY <2>6, CongSym
            <4>2. Cong(u * v, zs) BY <2>6, <2>9, <3>1, <4>1, CongTrans
            <4> QED BY <2>6, <2>9, <4>2, CongTrans
        <3>2. ASSUME Cong(u * v, ws) PROVE Cong(x * y, zs)
            <4>1. Cong(ws, zs) BY <2>9, CongSym
            <4>2. Cong(x * y, ws) BY <2>6, <2>9, <3>2, CongTrans
            <4> QED BY <2>6, <2>9, <4>1, <4>2, CongTrans
        <3> QED BY <3>1, <3>2
    <2>8. Cong(u * v - ws, 0) <=> Cong(u * v, ws)
        <3> DEFINE p == u * v
                   t == p - ws
        <3>1. p \in Int /\ t \in Int /\ Cong(t, t) BY <2>6, <2>9, CongRefl
        <3>2. Cong(t, p - ws) BY <3>1
        <3> HIDE DEF p, t
        <3>3. Cong(t, 0) <=> Cong(p, ws) BY <2>9, <3>1, <3>2, CongDifference
        <3> QED BY <3>3 DEF p, t
    <2> QED BY <2>4, <2>5, <2>7, <2>8
<1>19. {r \in Field : Verdict(pk, r)} = RootsOf(D, 2 * N) BY <1>18, FieldInt DEF RootsOf
(* At a root of the data or of padding, D is what f * g is there less s. *)
<1>20. \E q \in Int : ~Cong(PolyAt(D, 2 * N, q), 0)
    <2> DEFINE q == Pow(Gen(K, FALSE), 2 * bad)
               x == IF bad <= NumFields THEN d[bad] ELSE 0
               y == IF bad <= NumFields THEN submod(d[bad], 1) ELSE 0
    <2>1. /\ bad \in Nat /\ bad \in 0 .. N - 1 /\ 2 * bad \in 0 .. 2 * N - 1 /\ 2 * bad \in Nat
          /\ 2 * bad + 1 \in 1 .. 2 * N /\ (2 * bad + 1) % 2 = 1 /\ 2 * bad + 1 # 1
          /\ bad + 1 \in 1 .. N /\ bad + 1 # 1 /\ (bad + 1) - 1 = bad
          /\ bad + 1 <= NumFields + 1 <=> bad <= NumFields
          /\ bad <= NumFields => bad \in 1 .. NumFields
        BY <1>1, NIsPower, LogNIs
    <2>2. q \in Int
        <3>1. Gen(K, FALSE) \in Int
            <4>1. FALSE \in BOOLEAN OBVIOUS
            <4> HIDE DEF K
            <4> QED BY <1>1, <4>1, GenIsRoot, FieldInt
        <3> QED BY <2>1, <3>1, PowStep
    <2>3. x \in Int
        <3>1. bad <= NumFields => d[bad] \in Int BY <2>1, FieldInt
        <3> QED BY <3>1
    <2>4. y \in Int
        <3>1. ASSUME bad <= NumFields PROVE submod(d[bad], 1) \in Int
            <4>0. bad \in 1 .. NumFields BY <2>1, <3>1
            <4>1. d[bad] \in Int /\ 1 \in Int BY <1>5, <4>0 DEF Ints
            <4> QED BY <4>1, OpsCong, FieldInt
        <3> QED BY <3>1
    <2>5. F[bad + 1] = x /\ G[bad + 1] = y BY <1>10, <2>1 DEF F, G, PointsOf
    <2>6. H[2 * bad + 1] = 0 BY <2>1 DEF H, EvenPoints
    <2> DEFINE u == PolyAt(a, N, q)
               v == PolyAt(b, N, q)
               w == PolyAt(e, 2 * N, q)
    <2>7. Cong(u, x)
        <3> DEFINE ev == data_polynomial_evals(d, f0)
                   z == ev[2 * bad + 1]
        <3>1. ev \in Ints(2 * N) /\ Cong(z, u) /\ Cong(z, F[bad + 1])
            BY <1>5, <1>6, <2>1, EvalsIs DEF F
        <3>2. z \in Int /\ u \in Int /\ Cong(z, x) BY <1>17, <2>1, <2>2, <2>5, <3>1 DEF Ints
        <3>3. Cong(z, u) BY <3>1
        <3> HIDE DEF z, u, x, q
        <3>4. Cong(u, z) BY <3>2, <3>3, CongSym
        <3> QED BY <2>3, <3>2, <3>4, CongTrans
    <2>8. Cong(v, y)
        <3> DEFINE ev == data_polynomial_evals(dg, g0)
                   z == ev[2 * bad + 1]
        <3>1. ev \in Ints(2 * N) /\ Cong(z, v) /\ Cong(z, G[bad + 1])
            BY <1>6, <1>10, <2>1, EvalsIs DEF G
        <3>2. z \in Int /\ v \in Int /\ Cong(z, y) BY <1>17, <2>1, <2>2, <2>5, <3>1 DEF Ints
        <3>3. Cong(z, v) BY <3>1
        <3> HIDE DEF z, v, y, q
        <3>4. Cong(v, z) BY <3>2, <3>3, CongSym
        <3> QED BY <2>4, <3>2, <3>4, CongTrans
    <2>9. Cong(w, 0)
        <3> DEFINE i == 2 * bad
        <3>1. i \in 0 .. 2 ^ K - 1 /\ H \in Ints(2 ^ K) /\ H[i + 1] = 0 BY <1>1, <1>12, <2>1, <2>6
        <3> HIDE DEF i, K, H
        <3>2. Cong(PolyAt(Ext(poly_fft(H, TRUE)), 2 ^ K, Pow(Gen(K, FALSE), i)), H[i + 1])
            BY <1>1, <3>1, InterpolatesPoints
        <3> QED BY <1>1, <3>1, <3>2 DEF i
    <2>10. u \in Int /\ v \in Int /\ w \in Int /\ PolyAt(D, 2 * N, q) = u * v - (w + s)
        BY <1>17, <2>2
    <2>11. ~Cong(x * y, s) BY DEF FieldProduct, s
    <2>12. ASSUME Cong(PolyAt(D, 2 * N, q), 0) PROVE FALSE
        <3>1. Cong(u * v - (w + s), 0) BY <2>10, <2>12
        <3> HIDE DEF u, v, w, x, y, q
        <3> DEFINE t == u * v - (w + s)
                   ws == w + s
        <3>2. u * v \in Int /\ x * y \in Int /\ ws \in Int /\ t \in Int /\ t + ws = u * v
              /\ 0 \in Int /\ 0 + (0 + s) = s /\ 0 + s \in Int
            BY <1>10, <2>3, <2>4, <2>10
        <3>3. Cong(ws, 0 + s) BY <1>10, <2>9, <2>10, <3>2, CongRefl, CongAdd
        <3>4. Cong(u * v, s)
            <4>1. Cong(t, 0) BY <3>1
            <4> HIDE DEF t, ws
            <4>2. Cong(t + ws, 0 + (0 + s)) BY <3>2, <3>3, <4>1, CongAdd
            <4> QED BY <3>2, <4>2
        <3>5. Cong(u * v, x * y) BY <2>3, <2>4, <2>7, <2>8, <2>10, CongMul
        <3>6. Cong(x * y, u * v) BY <3>2, <3>5, CongSym
        <3>7. Cong(x * y, s) BY <1>10, <3>2, <3>4, <3>6, CongTrans
        <3> QED BY <2>11, <3>7
    <2> QED BY <2>2, <2>12
<1>21. Cardinality(RootsOf(D, 2 * N)) < 2 * N BY <1>1, <1>16, <1>20, FewZeros
<1>22. Cardinality(RootsOf(D, 2 * N)) \in Nat BY ZerosFinite
<1> DEFINE Accepted == {r \in Field : Verdict(pk, r)}
<1>23. Accepted = RootsOf(D, 2 * N) BY <1>19
<1> HIDE DEF Accepted
<1>24. Cardinality(Accepted) <= 2 * N - 1
    <2> DEFINE n == Cardinality(Accepted)
    <2>1. n \in Nat /\ n < 2 * N BY <1>21, <1>22, <1>23
    <2> HIDE DEF n
    <2>2. n <= 2 * N - 1 BY <1>1, <2>1
    <2> QED BY <2>2 DEF n
<1> QED BY <1>24 DEF Accepted

-----------------------------------------------------------------------------
(* The submission *)

(* Packets the client computed from the data, changed or not: what a       *)
(* client that deviates changes leaves the seed and the shares of the data. *)
EncodedWith(rnd) ==
    LET pk == PrioPacketClient_set_data(data, rnd)
    IN  /\ packets \in PacketsType
        /\ packets.B = pk.B
        /\ packets.A.data_shares = pk.A.data_shares
        /\ ~altered => packets = pk

(* The inductive invariant: the packets are those of the data for some     *)
(* draws, and a verdict is that of the packets at the point drawn.         *)
SubmissionInv ==
    /\ data \in [1 .. NumFields -> DataVals]
    /\ packets # <<>> => \E rnd \in Rnd : EncodedWith(rnd)
    /\ verdict # "none" =>
         /\ packets # <<>>
         /\ point \in EvalPoints
         /\ verdict = IF Verdict(packets, point) THEN "valid" ELSE "invalid"

LEMMA DataInts ==
    ASSUME data \in [1 .. NumFields -> DataVals]
    PROVE  data \in Ints(NumFields) /\ \A i \in 1 .. NumFields : data[i] \in Field
<1>1. \A i \in 1 .. NumFields : data[i] \in Field BY ClientAssumption
<1> QED BY <1>1, FieldInt DEF Ints

LEMMA SubmissionInvEncode ==
    ASSUME SubmissionInv, Encode
    PROVE  SubmissionInv'
<1>1. /\ packets = <<>> /\ data' = data /\ verdict' = verdict /\ altered' = altered
      /\ data \in [1 .. NumFields -> DataVals] /\ verdict = "none"
    BY DEF Encode, SubmissionInv
<1>2. PICK rnd \in Rnd : packets' = PrioPacketClient_set_data(data, rnd) BY DEF Encode
<1>3. data \in Ints(NumFields) /\ rnd \in Draws BY <1>1, DataInts, ClientAssumption
<1>4. packets' \in PacketsType BY <1>2, <1>3, ClientIs
<1>5. EncodedWith(rnd)' BY <1>1, <1>2, <1>4 DEF EncodedWith
<1> QED BY <1>1, <1>5 DEF SubmissionInv

LEMMA SubmissionInvAlter ==
    ASSUME SubmissionInv, Alter
    PROVE  SubmissionInv'
<1>1. /\ packets # <<>> /\ data' = data /\ verdict' = verdict /\ verdict = "none"
      /\ altered' = TRUE /\ data \in [1 .. NumFields -> DataVals]
    BY DEF Alter, SubmissionInv
<1>2. PICK rnd \in Rnd : EncodedWith(rnd) BY <1>1, SMTT(30) DEF SubmissionInv
<1>3. PICK z \in Change, x \in Change, y \in [1 .. N -> Change] :
        packets' = [packets EXCEPT !.A.triple.c = addmod(@, z),
                                   !.A.h0 = addmod(@, x),
                                   !.A.h_points = Array(N, LAMBDA j : addmod(@[j], y[j]))]
    BY DEF Alter
<1> DEFINE a == packets.A
           t == [a.triple EXCEPT !.c = addmod(@, z)]
           u == addmod(a.h0, x)
           f == [j \in 1 .. N |-> addmod(a.h_points[j], y[j])]
           hp == <<>> \o f
<1>4. packets \in PacketsType BY <1>2 DEF EncodedWith
<1>5. N \in Nat BY LogNIs
<1>6. u \in Field /\ t \in TripleType
    <2>1. a.h0 \in Int /\ x \in Int BY <1>4, ClientAssumption, FieldInt DEF PacketsType
    <2>2. a.triple \in TripleType BY <1>4 DEF PacketsType
    <2>3. a.triple.c \in Int /\ z \in Int BY <2>2, ClientAssumption, FieldInt DEF TripleType
    <2>4. addmod(a.triple.c, z) \in Field BY <2>3, OpsCong
    <2>5. t \in TripleType BY <2>2, <2>4 DEF TripleType
    <2> QED BY <2>1, <2>5, OpsCong
<1>7. hp \in Elements(N)
    <2>1. ASSUME NEW j \in 1 .. N PROVE addmod(a.h_points[j], y[j]) \in Field
        <3>1. a.h_points \in Elements(N) BY <1>4 DEF PacketsType
        <3>2. a.h_points[j] \in Int /\ y[j] \in Int
            BY <3>1, ClientAssumption, FieldInt DEF Elements
        <3> QED BY <3>2, OpsCong
    <2>2. f \in [1 .. N -> Field] /\ f \in [1 .. N -> Int] BY <2>1, FieldInt
    <2> HIDE DEF f
    <2>3. <<>> \o f = f BY <1>5, <2>2, ArrayIs
    <2> QED BY <2>2, <2>3 DEF Elements
<1>8. packets' = [packets EXCEPT !.A = [@ EXCEPT !.triple = t, !.h0 = u, !.h_points = hp]]
    BY <1>3, <1>4 DEF Array, PacketsType, TripleType
<1> HIDE DEF t, u, f, hp
<1>9. packets' = [A |-> [triple |-> t, f0 |-> a.f0, g0 |-> a.g0, h0 |-> u,
                         data_shares |-> a.data_shares, h_points |-> hp],
                  B |-> packets.B]
    BY <1>4, <1>8 DEF PacketsType
<1>10. packets' \in PacketsType BY <1>4, <1>6, <1>7, <1>9 DEF PacketsType
<1>11. packets'.B = packets.B /\ packets'.A.data_shares = packets.A.data_shares BY <1>9
<1>12. EncodedWith(rnd)' BY <1>1, <1>2, <1>10, <1>11 DEF EncodedWith
<1> QED BY <1>1, <1>12 DEF SubmissionInv

LEMMA SubmissionInvVerify ==
    ASSUME SubmissionInv, Verify
    PROVE  SubmissionInv'
<1>1. /\ packets # <<>> /\ packets' = packets /\ data' = data /\ altered' = altered
      /\ point' \in EvalPoints
      /\ verdict' = IF Verdict(packets, point') THEN "valid" ELSE "invalid"
    BY DEF Verify
<1>2. PICK rnd \in Rnd : EncodedWith(rnd) BY <1>1 DEF SubmissionInv
<1>3. EncodedWith(rnd)' BY <1>1, <1>2 DEF EncodedWith
<1> QED BY <1>1, <1>3 DEF SubmissionInv

LEMMA SubmissionInvAlways == SubmissionSpec => []SubmissionInv
<1>1. SubmissionInit => SubmissionInv BY DEF SubmissionInit, SubmissionInv
<1>2. SubmissionInv /\ [SubmissionNext]_submissionVars => SubmissionInv'
    <2> SUFFICES ASSUME SubmissionInv, [SubmissionNext]_submissionVars PROVE SubmissionInv' OBVIOUS
    <2>1. CASE UNCHANGED submissionVars
        BY <2>1 DEF submissionVars, SubmissionInv, EncodedWith
    <2> QED BY <2>1, SubmissionInvEncode, SubmissionInvAlter, SubmissionInvVerify
        DEF SubmissionNext, Done
<1> QED BY <1>1, <1>2, PTL DEF SubmissionSpec

(* For every number of fields and every draw of the client, what the two   *)
(* servers add up for a submission is what the client put in, whatever it  *)
(* changed in its proof: server B regenerates from the seed just what the  *)
(* client subtracted.                                                      *)
THEOREM SharesAddUpHolds == SubmissionSpec => []SharesAddUp
<1>1. SubmissionInv => SharesAddUp
    <2> SUFFICES ASSUME SubmissionInv, packets # <<>>
                 PROVE  MPArray_addmod(data_share(PRIO_SERVER_A, packets),
                                       data_share(PRIO_SERVER_B, packets)) = data
        BY DEF SharesAddUp
    <2> DEFINE dA == data_share(PRIO_SERVER_A, packets)
               dB == data_share(PRIO_SERVER_B, packets)
    <2>1. PICK rnd \in Rnd : EncodedWith(rnd) BY DEF SubmissionInv
    <2> DEFINE pk == PrioPacketClient_set_data(data, rnd)
    <2>2. /\ data \in [1 .. NumFields -> DataVals] /\ data \in Ints(NumFields)
          /\ \A i \in 1 .. NumFields : data[i] \in Field
        BY DataInts DEF SubmissionInv
    <2>3. \A i \in 1 .. NumFields :
            Cong(data_share(PRIO_SERVER_A, pk)[i] + data_share(PRIO_SERVER_B, pk)[i], data[i])
        BY <2>2, ClientIs, ClientAssumption
    <2>4. dA = data_share(PRIO_SERVER_A, pk) /\ dB = data_share(PRIO_SERVER_B, pk)
        BY <2>1 DEF EncodedWith, data_share
    <2>5. dA \in Elements(NumFields) /\ dB \in Elements(NumFields)
        BY <2>1, ServerReads DEF EncodedWith, Server
    <2> HIDE DEF dA, dB, pk
    <2>6. ASSUME NEW i \in 1 .. NumFields PROVE addmod(dA[i], dB[i]) = data[i]
        <3> DEFINE x == dA[i]
                   y == dB[i]
                   z == data[i]
        <3>1. x \in Int /\ y \in Int /\ z \in Field /\ z \in Int /\ Cong(x + y, z)
            BY <2>2, <2>3, <2>4, <2>5, FieldInt DEF Elements
        <3> HIDE DEF x, y, z
        <3>2. /\ addmod(x, y) \in Field /\ addmod(x, y) \in Int
              /\ Cong(addmod(x, y), x + y) /\ x + y \in Int
            <4>1. x + y \in Int BY <3>1
            <4>2. addmod(x, y) \in Field /\ Cong(addmod(x, y), x + y) BY <3>1, OpsCong
            <4> QED BY <4>1, <4>2, FieldInt
        <3>3. Cong(addmod(x, y), z) BY <3>1, <3>2, CongTrans
        <3>4. addmod(x, y) = z BY <3>1, <3>2, <3>3, FieldCongEq
        <3> QED BY <3>4 DEF x, y, z
    <2>7. DOMAIN dA = 1 .. NumFields BY <2>5 DEF Elements
    <2>8. MPArray_addmod(dA, dB) = [i \in 1 .. NumFields |-> addmod(dA[i], dB[i])]
        BY <2>7 DEF MPArray_addmod
    <2>9. MPArray_addmod(dA, dB) = data BY <2>2, <2>6, <2>8
    <2> QED BY <2>9 DEF dA, dB
<1> QED BY <1>1, SubmissionInvAlways, PTL

(* Completeness, for every number of fields, every choice of the roots and *)
(* every draw of client and servers: a submission whose fields are 0 or 1  *)
(* and whose proof the client left as it computed it is valid, since then  *)
(* f * g = h at all the roots and so everywhere.                           *)
THEOREM HonestValidHolds == SubmissionSpec => []HonestValid
<1>1. SubmissionInv => HonestValid
    <2> SUFFICES ASSUME SubmissionInv, Honest, verdict # "none"
                 PROVE  verdict = "valid"
        BY DEF HonestValid
    <2>1. /\ packets # <<>> /\ ~altered /\ \A i \in 1 .. NumFields : data[i] \in {0, 1}
          /\ data \in Ints(NumFields) /\ point \in EvalPoints
          /\ verdict = IF Verdict(packets, point) THEN "valid" ELSE "invalid"
        BY DataInts DEF Honest, SubmissionInv
    <2>2. PICK rnd \in Rnd : EncodedWith(rnd) BY <2>1 DEF SubmissionInv
    <2>3. packets = PrioPacketClient_set_data(data, rnd) BY <2>1, <2>2 DEF EncodedWith
    <2>4. point \in Int /\ rnd \in Draws
        <3>1. NumFields + 2 \in Int /\ Modulus - 1 \in Int
            BY NumFieldsAssumption, ModulusAssumption
        <3> QED BY <2>1, <3>1, ClientAssumption DEF EvalPoints
    <2>5. Verdict(packets, point) BY <2>1, <2>3, <2>4, HonestVerdict
    <2> QED BY <2>1, <2>5
<1> QED BY <1>1, SubmissionInvAlways, PTL

(* Soundness, for every number of fields and every prime modulus: whatever *)
(* a client puts in its proof and its triple, if some field is not 0 or 1  *)
(* and the data are not Masked, the servers reject at all but at most      *)
(* 2N - 1 of the points of the field, where f * g - h - e happens to       *)
(* vanish.                                                                 *)
THEOREM CheatBoundHolds == SubmissionSpec => []CheatBound
<1>1. SubmissionInv => CheatBound
    <2> SUFFICES ASSUME SubmissionInv, packets # <<>>,
                        NEW bad \in 1 .. NumFields, data[bad] \notin {0, 1}, ~Masked
                 PROVE  Cardinality({r \in Field : Verdict(packets, r)}) <= 2 * N - 1
        BY DEF CheatBound
    <2>1. PICK rnd \in Rnd : EncodedWith(rnd) BY DEF SubmissionInv
    <2> DEFINE pk == PrioPacketClient_set_data(data, rnd)
    <2>2. /\ data \in [1 .. NumFields -> DataVals] /\ data \in Ints(NumFields)
          /\ \A i \in 1 .. NumFields : data[i] \in Field
        BY DataInts DEF SubmissionInv
    <2>3. data \in [1 .. NumFields -> Field] BY <2>2
    <2>4. \A i \in 1 .. NumFields :
            Cong(data_share(PRIO_SERVER_A, pk)[i] + data_share(PRIO_SERVER_B, pk)[i], data[i])
        BY <2>2, ClientIs, ClientAssumption
    <2>5. /\ packets \in PacketsType /\ packets.B = pk.B
          /\ packets.A.data_shares = pk.A.data_shares
        BY <2>1 DEF EncodedWith
    <2>6. /\ data_share(PRIO_SERVER_A, packets) = data_share(PRIO_SERVER_A, pk)
          /\ data_share(PRIO_SERVER_B, packets) = data_share(PRIO_SERVER_B, pk)
        BY <2>5 DEF data_share
    <2> HIDE DEF pk
    <2>8. \A i \in 1 .. NumFields :
            Cong(data_share(PRIO_SERVER_A, packets)[i] + data_share(PRIO_SERVER_B, packets)[i],
                 data[i])
        BY <2>4, <2>6
    (* Some root shows the wrong data: Masked is all that excludes it. *)
    <2>9. \E m \in 1 .. N - 1 : ~Cong(FieldProduct(data, m), TripleError(packets))
        <3> DEFINE e == TripleError(packets)
        <3>1. e \in Field /\ e \in Int BY <2>5, TripleErrorIs
        <3>2. /\ N \in Nat /\ NumFields \in Nat /\ NumFields <= N - 1
              /\ \A m \in 1 .. NumFields : m \in 1 .. N - 1
            BY LogNIs
        <3> HIDE DEF e
        <3>3. CASE N # NumFields + 1 /\ e # 0
            <4> DEFINE m == NumFields + 1
            <4>1. m \in 1 .. N - 1 /\ ~(m <= NumFields) BY <3>2, <3>3
            <4>2. FieldProduct(data, m) = 0 BY <4>1 DEF FieldProduct
            <4>3. 0 \in Field /\ ~Cong(0, e)
                <5>1. 0 \in Field BY ModulusAssumption DEF Field
                <5> QED BY <3>1, <3>3, <5>1, FieldCongEq
            <4> QED BY <4>1, <4>2, <4>3 DEF e
        <3>4. ASSUME NEW m \in 1 .. NumFields,
                     mulmod(data[m], submod(data[m], 1)) # e
              PROVE  \E n \in 1 .. N - 1 : ~Cong(FieldProduct(data, n), e)
            <4> DEFINE x == data[m]
                       y == submod(x, 1)
            <4>1. x \in Int BY <2>2, FieldInt
            <4>2. y \in Int
                <5>1. 1 \in Int OBVIOUS
                <5> HIDE DEF x
                <5> QED BY <4>1, <5>1, OpsCong, FieldInt
            <4>3. FieldProduct(data, m) = x * y BY <3>2 DEF FieldProduct
            <4>4. mulmod(x, y) # e BY <3>4
            <4> HIDE DEF x, y
            <4>5. mulmod(x, y) \in Field /\ mulmod(x, y) \in Int /\ Cong(mulmod(x, y), x * y)
                  /\ x * y \in Int
                <5>1. x * y \in Int BY <4>1, <4>2
                <5> QED BY <4>1, <4>2, <5>1, OpsCong, FieldInt
            <4>6. ~Cong(x * y, e)
                <5>1. Cong(x * y, e) => Cong(mulmod(x, y), e) BY <3>1, <4>5, CongTrans
                <5> QED BY <3>1, <4>4, <4>5, <5>1, FieldCongEq
            <4> QED BY <3>2, <4>3, <4>6
        <3>5. CASE N = NumFields + 1
            <4>1. PICK m \in 1 .. NumFields : mulmod(data[m], submod(data[m], 1)) # e
                BY <3>5 DEF Masked, e
            <4> QED BY <3>4, <4>1 DEF e
        <3>6. CASE e = 0
            <4> DEFINE x == data[bad]
                       y == submod(x, 1)
            <4>1. x \in Field /\ x # 0 /\ x # 1 BY <2>2
            <4>2. 1 \in Field BY ModulusAssumption DEF Field
            <4> HIDE DEF x
            <4>3. y \in Field /\ y # 0 BY <4>1, <4>2, FieldDiffers
            <4>4. mulmod(x, y) # 0 BY <4>1, <4>3, FieldDomain
            <4>5. mulmod(data[bad], submod(data[bad], 1)) # e BY <3>6, <4>4 DEF x
            <4> QED BY <3>4, <4>5 DEF e
        <3> QED BY <3>3, <3>5, <3>6
    <2>10. PICK m \in 1 .. N - 1 : ~Cong(FieldProduct(data, m), TripleError(packets)) BY <2>9
    <2> QED BY <2>3, <2>5, <2>8, <2>10, FewAccept
<1> QED BY <1>1, SubmissionInvAlways, PTL

-----------------------------------------------------------------------------
(* Field elements *)

(* Every element but zero has an inverse: multiplication by it is one to   *)
(* one, and so reaches 1.                                                  *)
LEMMA FieldInverse ==
    ASSUME NEW d \in Field, d # 0
    PROVE  invmod(d) \in Field /\ Cong(d * invmod(d), 1)
<1> DEFINE f == [a \in Field |-> mulmod(d, a)]
<1>1. f \in [Field -> Field] BY FieldDomain
<1>2. ASSUME NEW a \in Field, NEW b \in Field, f[a] = f[b] PROVE a = b
    <2>1. a \in Int /\ b \in Int /\ d \in Int /\ 0 \in Field /\ 0 \in Int
        BY FieldInt, ModulusAssumption DEF Field
    <2> DEFINE c == a - b
               u == d * a
               v == d * b
    <2>2. c \in Int /\ u \in Int /\ v \in Int BY <2>1
    <2>3. d * c = u - v BY <2>1
    <2>4. mulmod(d, a) = mulmod(d, b) /\ mulmod(d, a) \in Int BY <1>2, FieldDomain, FieldInt
    <2>5. Cong(u, v)
        <3>1. Cong(mulmod(d, a), u) /\ Cong(mulmod(d, b), v) BY <2>1, OpsCong
        <3> HIDE DEF u, v
        <3> QED BY <2>2, <2>4, <3>1, CongSym, CongTrans
    <2>6. Cong(u - v, u - v) /\ u - v \in Int BY <2>2, CongRefl
    <2>7. Cong(d * c, 0)
        <3> HIDE DEF u, v, c
        <3> QED BY <2>2, <2>3, <2>5, <2>6, CongDifference
    <2>8. ~Cong(d, 0) BY <2>1, FieldCongEq
    <2>9. Cong(c, 0) BY <2>1, <2>2, <2>7, <2>8, PrimeCong
    <2>10. Cong(a, b)
        <3>1. Cong(c, a - b) BY <2>2, CongRefl
        <3> HIDE DEF c
        <3> QED BY <2>1, <2>2, <2>9, <3>1, CongDifference
    <2> QED BY <2>10, FieldCongEq
<1>3. IsFiniteSet(Field)
    <2>1. 0 \in Int /\ Modulus - 1 \in Int BY ModulusAssumption
    <2> QED BY <2>1, FS_Interval DEF Field
<1>4. f \in Injection(Field, Field) BY <1>1, <1>2 DEF Injection, IsInjective
<1>5. f \in Surjection(Field, Field) BY <1>3, <1>4, FS_Injection
<1>6. 1 \in Field /\ 1 \in Int BY ModulusAssumption DEF Field
<1>7. PICK a \in Field : f[a] = 1 BY <1>5, <1>6 DEF Surjection
<1>8. d \in Int /\ a \in Int BY FieldInt
<1>9. Cong(d * a, 1)
    <2>1. mulmod(d, a) = 1 BY <1>7
    <2>2. d * a \in Int BY <1>8
    <2>3. Cong(mulmod(d, a), d * a) BY <1>8, OpsCong
    <2> QED BY <1>6, <2>1, <2>2, <2>3, CongSym
<1> QED BY <1>8, <1>9, Invertible

-----------------------------------------------------------------------------
(* Lagrange's formula *)

(* A polynomial of m coefficients, and none after them. *)
Ends(p, m) == p \in Terms /\ \A i \in Nat : i >= m => p[i] = 0

LEMMA EndsLonger ==
    ASSUME NEW m \in Nat, NEW p, Ends(p, m)
    PROVE  /\ p \in Terms /\ Ends(p, m + 1)
           /\ \A x \in Int : PolyAt(p, m + 1, x) = PolyAt(p, m, x)
<1>1. 1 \in Nat /\ p \in Terms /\ \A i \in Nat : i >= m => p[i] = 0 BY DEF Ends
<1>2. \A x \in Int : PolyAt(p, m + 1, x) = PolyAt(p, m, x) BY <1>1, PolyLonger
<1>3. \A i \in Nat : i >= m + 1 => i >= m OBVIOUS
<1> QED BY <1>1, <1>2, <1>3 DEF Ends

(* x - w times a polynomial has one coefficient more. *)
LEMMA PolyTimes ==
    ASSUME NEW m \in Nat, NEW p, Ends(p, m), NEW w \in Int
    PROVE  \E q : /\ Ends(q, m + 1)
                  /\ \A x \in Int : PolyAt(q, m + 1, x) = (x - w) * PolyAt(p, m, x)
<1> DEFINE s == [i \in Nat |-> IF i = 0 THEN 0 ELSE p[i - 1]]
           o == 1
           v == -w
           q == [i \in Nat |-> o * s[i] + v * p[i]]
<1>1. p \in Terms /\ \A i \in Nat : p[i] \in Int BY DEF Ends, Terms
<1>2. o \in Int /\ v \in Int OBVIOUS
<1>3. /\ s \in Terms /\ s[0] = 0 /\ \A i \in Nat : s[i] \in Int /\ p[i] = s[i + 1]
      /\ \A i \in Nat : i >= m + 1 => s[i] = 0
    <2>1. ASSUME NEW i \in Nat PROVE s[i] \in Int
        <3>1. i # 0 => i - 1 \in Nat OBVIOUS
        <3> QED BY <1>1, <3>1
    <2>2. ASSUME NEW i \in Nat PROVE p[i] = s[i + 1]
        <3>1. i + 1 \in Nat /\ i + 1 # 0 /\ (i + 1) - 1 = i OBVIOUS
        <3> QED BY <3>1
    <2>3. ASSUME NEW i \in Nat, i >= m + 1 PROVE s[i] = 0
        <3>1. i # 0 /\ i - 1 \in Nat /\ i - 1 >= m BY <2>3
        <3>2. p[i - 1] = 0 BY <3>1 DEF Ends
        <3> QED BY <3>1, <3>2
    <2>4. s \in Terms BY <2>1 DEF Terms
    <2>5. s[0] = 0 OBVIOUS
    <2> HIDE DEF s
    <2> QED BY <2>1, <2>2, <2>3, <2>4, <2>5
<1>4. \A i \in Nat : q[i] = o * s[i] + v * p[i] OBVIOUS
<1>5. q \in Terms /\ \A i \in Nat : i >= m + 1 => q[i] = 0
    <2> HIDE DEF s
    <2>1. \A i \in Nat : o * s[i] + v * p[i] \in Int BY <1>1, <1>2, <1>3
    <2>2. ASSUME NEW i \in Nat, i >= m + 1 PROVE q[i] = 0
        <3>1. s[i] = 0 BY <1>3, <2>2
        <3>2. p[i] = 0
            <4>1. i >= m BY <2>2
            <4> QED BY <4>1 DEF Ends
        <3> QED BY <1>2, <3>1, <3>2
    <2> QED BY <2>1, <2>2 DEF Terms
<1> HIDE DEF q, s, o, v
<1>6. ASSUME NEW x \in Int PROVE PolyAt(q, m + 1, x) = (x - w) * PolyAt(p, m, x)
    <2> DEFINE A == PolyAt(p, m, x)
    <2>1. PolyAt(q, m + 1, x) = o * PolyAt(s, m + 1, x) + v * PolyAt(p, m + 1, x)
        <3>1. m + 1 \in Nat /\ \A i \in 0 .. (m + 1) - 1 : q[i] = o * s[i] + v * p[i] BY <1>4
        <3>2. p \in Terms /\ s \in Terms /\ q \in Terms BY <1>1, <1>3, <1>5
        <3> HIDE DEF A
        <3> QED BY <1>2, <3>1, <3>2, PolyLinear
    <2>2. PolyAt(s, m + 1, x) = s[0] + x * A BY <1>1, <1>3, PolyShift
    <2>3. PolyAt(p, m + 1, x) = A /\ A \in Int BY <1>1, EndsLonger, PolyStep
    <2> HIDE DEF A
    <2>4. PolyAt(q, m + 1, x) = 1 * (0 + x * A) + (-w) * A BY <1>3, <2>1, <2>2, <2>3 DEF o, v
    <2>5. 1 * (0 + x * A) + (-w) * A = (x - w) * A BY <2>3
    <2> QED BY <2>4, <2>5 DEF A
<1> QED BY <1>5, <1>6 DEF Ends

(* The roots of unity of MCPoly are those of the transforms. *)
LEMMA RootIs ==
    ASSUME NEW k \in 0 .. Generator2Order, NEW j \in 1 .. 2 ^ k
    PROVE  /\ root(2 ^ k, j) \in Field /\ root(2 ^ k, j) \in Int
           /\ Cong(root(2 ^ k, j), Pow(Gen(k, FALSE), j - 1))
           /\ Pow(Gen(k, FALSE), j - 1) \in Int
<1>1. k \in Nat /\ 2 ^ k \in Nat BY StepIs, PowerStep
<1>2. omega(2 ^ k) = Gen(k, FALSE) BY DEF omega, Gen, Base
<1> DEFINE w == Gen(k, FALSE)
           n == 2 ^ k
<1>3. w \in Int BY GenIsRoot, FieldInt
<1>4. root(n, j) = exptmod(w, j - 1) BY <1>2 DEF root
<1> HIDE DEF w, n
<1>5. j - 1 \in Nat BY <1>1 DEF n
<1> DEFINE z == Pow(w, j - 1)
<1>6. root(n, j) = z % Modulus /\ z \in Int BY <1>3, <1>4, <1>5, ExptIsPow, PowStep
<1> HIDE DEF z
<1>7. z % Modulus \in Field /\ z % Modulus \in Int /\ Cong(z % Modulus, z) BY <1>6, DivMod, CongMod
<1> QED BY <1>6, <1>7 DEF z, w, n

(* They are as many as they are numbered: the transform tells them apart. *)
LEMMA RootsDiffer ==
    ASSUME NEW k \in 0 .. Generator2Order, NEW i \in 1 .. 2 ^ k, NEW j \in 1 .. 2 ^ k, i # j
    PROVE  root(2 ^ k, i) # root(2 ^ k, j)
<1> DEFINE n == 2 ^ k
           s == i - 1
           m == j - 1
           w == Gen(k, FALSE)
           u == Gen(k, TRUE)
           a == Pow(w, s)
           b == Pow(w, m)
           c == Pow(u, m)
<1> SUFFICES ASSUME root(n, i) = root(n, j) PROVE FALSE OBVIOUS
<1>1. k \in Nat /\ n \in Nat BY StepIs, PowerStep
<1>2. s \in 0 .. n - 1 /\ m \in 0 .. n - 1 /\ s # m
    <2> HIDE DEF n
    <2>1. i \in 1 .. n /\ j \in 1 .. n BY DEF n
    <2> QED BY <1>1, <2>1
<1>3. a \in Int /\ b \in Int /\ c \in Int
    <2>1. w \in Int /\ u \in Int BY GenIsRoot, FieldInt
    <2>2. s \in Nat /\ m \in Nat BY <1>1, <1>2
    <2> QED BY <2>1, <2>2, PowStep
<1>4. Cong(a, b)
    <2>1. Cong(root(n, i), a) /\ Cong(root(n, j), b) /\ root(n, i) \in Int BY RootIs
    <2> HIDE DEF a, b, n
    <2> QED BY <1>3, <2>1, CongSym, CongTrans
<1>5. /\ Cong(PolyAt(One, n, a * c), 0)
      /\ Cong(PolyAt(One, n, b * c), n)
    <2>1. Cong(PolyAt(One, n, a * c), IF s = m THEN n ELSE 0) BY <1>2, Orthogonal
    <2>2. Cong(PolyAt(One, n, b * c), IF m = m THEN n ELSE 0) BY <1>2, Orthogonal
    <2> QED BY <1>2, <2>1, <2>2
<1> HIDE DEF a, b, c, w, u, n
<1> DEFINE A == PolyAt(One, n, a * c)
           B == PolyAt(One, n, b * c)
<1>6. a * c \in Int /\ b * c \in Int BY <1>3
<1>7. A \in Int /\ B \in Int BY <1>1, <1>6, OneFacts, PolyStep
<1>8. Cong(A, B)
    <2>1. Cong(a * c, b * c) BY <1>3, <1>4, CongScale
    <2> DEFINE x == a * c
               y == b * c
    <2>2. x \in Int /\ y \in Int /\ Cong(x, y) BY <1>6, <2>1
    <2> HIDE DEF x, y
    <2>3. ASSUME NEW e \in 0 .. n - 1 PROVE Cong(One[e] * Pow(x, e), One[e] * Pow(y, e))
        <3>1. e \in Nat BY <1>1
        <3>2. Cong(Pow(x, e), Pow(y, e)) BY <2>2, <3>1, PowCong
        <3>3. Pow(x, e) \in Int /\ Pow(y, e) \in Int /\ One[e] = 1 BY <2>2, <3>1, OneFacts, PowStep
        <3> QED BY <3>2, <3>3
    <2>4. Cong(PolyAt(One, n, x), PolyAt(One, n, y)) BY <1>1, <2>2, <2>3, OneFacts, PolyCong
    <2> QED BY <2>4 DEF x, y
<1> HIDE DEF A, B
<1>9. Cong(n, 0)
    <2>1. Cong(A, 0) /\ Cong(B, n) BY <1>5 DEF A, B
    <2>2. 0 \in Int /\ n \in Int BY <1>1
    <2> QED BY <1>7, <1>8, <2>1, <2>2, CongSym, CongTrans
<1>10. invmod(n) \in Int /\ Cong(n * invmod(n), 1) BY <1>1, LengthInverse, FieldInt DEF n
<1> DEFINE v == invmod(n)
<1> HIDE DEF v
<1>11. Cong(n * v, 0 * v)
    <2>1. n \in Int /\ 0 \in Int /\ v \in Int BY <1>1, <1>10 DEF v
    <2> QED BY <1>9, <2>1, CongScale
<1>12. Cong(1, 0)
    <2>1. v \in Int /\ n * v \in Int /\ 0 * v = 0 /\ 0 \in Int /\ 1 \in Int BY <1>1, <1>10 DEF v
    <2>2. Cong(n * v, 1) BY <1>10 DEF v
    <2> QED BY <1>11, <2>1, <2>2, CongSym, CongTrans
<1>13. 1 \in Field /\ 0 \in Field BY ModulusAssumption DEF Field
<1> QED BY <1>12, <1>13, FieldCongEq

(* One factor of the product that vanishes on a set of roots. *)
RootFactor(n, x) == [v \in (1 .. n) \X Field |-> mulmod(v[2], submod(x, root(n, v[1])))]

(* The product of Vanishing, a factor at a time. *)
LEMMA VanishingPick ==
    ASSUME NEW k \in 0 .. Generator2Order, NEW S \in SUBSET (1 .. 2 ^ k), NEW x \in Field
    PROVE  /\ Vanishing(2 ^ k, S, x) \in Field
           /\ S = {} => Vanishing(2 ^ k, S, x) = 1
           /\ S # {} => Vanishing(2 ^ k, S, x) =
                            mulmod(Vanishing(2 ^ k, S \ {Pick(S)}, x), submod(x, root(2 ^ k, Pick(S))))
<1> DEFINE n == 2 ^ k
           U == 1 .. n
           f == RootFactor(n, x)
           F(h, T) == [s \in SUBSET T |-> IF s = {} THEN 1
                         ELSE mulmod(h[s \ {Pick(s)}], submod(x, root(n, Pick(s))))]
           C(T) == CHOOSE h : h = F(h, T)
<1>1. n \in Nat BY StepIs, PowerStep
<1>2. IsFiniteSet(U)
    <2> HIDE DEF n
    <2>1. 1 \in Int /\ n \in Int BY <1>1
    <2> QED BY <2>1, FS_Interval
<1>3. ASSUME NEW T PROVE Vanishing(n, T, x) = C(T)[T]
    BY DEF Vanishing, FoldSet, MapThenFoldSet, Pick
<1>4. FoldType(f, 1, U, Field)
    <2>1. ASSUME NEW i \in U, NEW a \in Field PROVE mulmod(a, submod(x, root(n, i))) \in Field
        BY RootIs, FieldDomain, FieldDiffers
    <2>2. 1 \in Field BY ModulusAssumption DEF Field
    <2> QED BY <2>1, <2>2 DEF FoldType, RootFactor
<1>5. ASSUME NEW i \in U, NEW a \in Field
      PROVE  f[<<i, a>>] = mulmod(a, submod(x, root(n, i)))
    BY DEF RootFactor
<1> HIDE DEF n, f
<1>6. ASSUME NEW T \in SUBSET U
      PROVE  \E g \in [SUBSET T -> Field] :
                Folds(g, f, 1, T, Field) /\ Vanishing(n, T, x) = g[T]
    <2> HIDE DEF U
    <2>1. T \subseteq U /\ IsFiniteSet(T) BY <1>2, <1>6, FS_Subset
    <2>2. PICK g \in [SUBSET T -> Field] : Folds(g, f, 1, T, Field)
        BY <1>4, <2>1, FoldsExist
    <2>3. ASSUME NEW s \in SUBSET T, s # {}
          PROVE  Pick(s) \in U /\ s \ {Pick(s)} \in SUBSET T
        BY <2>1, <2>3, PickIs
    <2>4. g = F(g, T)
        <3>1. ASSUME NEW s \in SUBSET T
              PROVE  g[s] = IF s = {} THEN 1
                            ELSE mulmod(g[s \ {Pick(s)}], submod(x, root(n, Pick(s))))
            <4>1. CASE s = {} BY <2>2, <4>1 DEF Folds
            <4>2. CASE s # {}
                <5>1. Pick(s) \in U /\ g[s \ {Pick(s)}] \in Field BY <2>3, <4>2
                <5>2. g[s] = f[<<Pick(s), g[s \ {Pick(s)}]>>] BY <2>2, <4>2, <5>1 DEF Folds
                <5> QED BY <1>5, <4>2, <5>1, <5>2
            <4> QED BY <4>1, <4>2
        <3> QED BY <3>1
    <2>5. C(T) = F(C(T), T) BY <2>4
    <2> DEFINE c == C(T)
    <2>6. c = F(c, T) /\ Vanishing(n, T, x) = c[T] BY <1>3, <2>5
    <2> HIDE DEF c
    <2>7. Folds(c, f, 1, T, Field)
        <3>1. c[{}] = 1
            <4>1. {} \in SUBSET T OBVIOUS
            <4> QED BY <2>6, <4>1
        <3>2. ASSUME NEW s \in SUBSET T, s # {}, c[s \ {Pick(s)}] \in Field
              PROVE  c[s] = f[<<Pick(s), c[s \ {Pick(s)}]>>]
            <4>1. c[s] = mulmod(c[s \ {Pick(s)}], submod(x, root(n, Pick(s)))) BY <2>6, <3>2
            <4> QED BY <1>5, <2>3, <3>2, <4>1
        <3> QED BY <3>1, <3>2 DEF Folds
    <2>8. \A s \in SUBSET T : c[s] = g[s]
        <3>1. T \subseteq T OBVIOUS
        <3> QED BY <1>4, <2>1, <2>2, <2>7, <3>1, FoldsUnique
    <2> QED BY <2>2, <2>6, <2>8
<1>7. S \in SUBSET U BY DEF n
<1>8. PICK g \in [SUBSET S -> Field] : Folds(g, f, 1, S, Field) /\ Vanishing(n, S, x) = g[S]
    BY <1>6, <1>7
<1>9. Vanishing(n, S, x) \in Field /\ (S = {} => Vanishing(n, S, x) = 1) BY <1>8 DEF Folds
<1>10. ASSUME S # {}
       PROVE  Vanishing(n, S, x) =
                mulmod(Vanishing(n, S \ {Pick(S)}, x), submod(x, root(n, Pick(S))))
    <2> DEFINE T == S \ {Pick(S)}
    <2>1. T \in SUBSET U /\ T \subseteq S /\ Pick(S) \in U BY <1>7, <1>10, PickIs
    <2> HIDE DEF U
    <2>2. PICK h \in [SUBSET T -> Field] : Folds(h, f, 1, T, Field) /\ Vanishing(n, T, x) = h[T]
        BY <1>6, <2>1
    <2>3. IsFiniteSet(T) /\ T \subseteq U BY <1>2, <2>1, FS_Subset
    <2>4. h[T] = g[T] BY <1>4, <1>8, <2>1, <2>2, <2>3, FoldsUnique
    <2>5. g[T] \in Field BY <1>8, <2>1
    <2>6. g[S] = f[<<Pick(S), g[T]>>] BY <1>8, <1>10, <2>5 DEF Folds
    <2> QED BY <1>5, <1>8, <2>1, <2>2, <2>4, <2>5, <2>6
<1> QED BY <1>9, <1>10 DEF n

(* It vanishes at the roots of the set and nowhere else. *)
LEMMA VanishingZeros ==
    ASSUME NEW k \in 0 .. Generator2Order, NEW S \in SUBSET (1 .. 2 ^ k), NEW x \in Field
    PROVE  Vanishing(2 ^ k, S, x) = 0 <=> \E j \in S : x = root(2 ^ k, j)
<1> DEFINE n == 2 ^ k
           H == {s \in SUBSET S : Vanishing(n, s, x) = 0 <=> \E j \in s : x = root(n, j)}
<1>1. n \in Nat BY StepIs, PowerStep
<1>2. IsFiniteSet(S)
    <2>1. S \subseteq 1 .. n OBVIOUS
    <2> HIDE DEF n
    <2>2. IsFiniteSet(1 .. n)
        <3>1. 1 \in Int /\ n \in Int BY <1>1
        <3> QED BY <3>1, FS_Interval
    <2> QED BY <2>1, <2>2, FS_Subset
<1>3. {} \in H
    <2>1. {} \in SUBSET (1 .. n) OBVIOUS
    <2>2. Vanishing(n, {}, x) = 1 BY <2>1, VanishingPick
    <2> QED BY <2>2
<1>4. ASSUME NEW s \in SUBSET S, s # {}, s \ {Pick(s)} \in H PROVE s \in H
    <2> DEFINE t == s \ {Pick(s)}
               e == Pick(s)
               a == Vanishing(n, t, x)
               b == submod(x, root(n, e))
    <2>1. s \in SUBSET (1 .. n) /\ t \in SUBSET (1 .. n) /\ e \in s BY <1>4, PickIs
    <2>2. Vanishing(n, s, x) = mulmod(a, b) /\ a \in Field BY <1>4, <2>1, VanishingPick
    <2>3. b \in Field /\ (b = 0 <=> x = root(n, e))
        <3>1. root(n, e) \in Field BY <2>1, RootIs
        <3> QED BY <3>1, FieldDiffers
    <2>4. a = 0 <=> \E j \in t : x = root(n, j) BY <1>4
    <2> HIDE DEF a, b, n
    <2>5. mulmod(a, b) = 0 <=> a = 0 \/ b = 0 BY <2>2, <2>3, FieldDomain
    <2>6. (\E j \in s : x = root(n, j)) <=> (\E j \in t : x = root(n, j)) \/ x = root(n, e)
        BY <2>1
    <2> QED BY <2>2, <2>3, <2>4, <2>5, <2>6
<1> HIDE DEF H
<1>5. \A s \in SUBSET S : s \in H BY <1>2, <1>3, <1>4, SetInduct
<1>6. S \in H BY <1>5
<1> QED BY <1>6 DEF H

(* It is a polynomial of one coefficient more than the roots. *)
LEMMA VanishingPoly ==
    ASSUME NEW k \in 0 .. Generator2Order, NEW S \in SUBSET (1 .. 2 ^ k)
    PROVE  \E p : /\ Ends(p, Cardinality(S) + 1)
                  /\ \A x \in Field : Cong(Vanishing(2 ^ k, S, x), PolyAt(p, Cardinality(S) + 1, x))
<1> DEFINE n == 2 ^ k
           Is(s, p) == /\ Ends(p, Cardinality(s) + 1)
                       /\ \A x \in Field : Cong(Vanishing(n, s, x), PolyAt(p, Cardinality(s) + 1, x))
           H == {s \in SUBSET S : \E p : Is(s, p)}
<1>1. n \in Nat BY StepIs, PowerStep
<1>2. IsFiniteSet(S)
    <2>1. S \subseteq 1 .. n OBVIOUS
    <2> HIDE DEF n
    <2>2. IsFiniteSet(1 .. n)
        <3>1. 1 \in Int /\ n \in Int BY <1>1
        <3> QED BY <3>1, FS_Interval
    <2> QED BY <2>1, <2>2, FS_Subset
<1>3. {} \in H
    <2> DEFINE p == [i \in Nat |-> IF i = 0 THEN 1 ELSE 0]
    <2>1. p \in Terms /\ p[0] = 1 /\ \A i \in Nat : i >= 1 => p[i] = 0 BY DEF Terms
    <2>2. Cardinality({}) + 1 = 1 /\ 0 + 1 = 1 /\ 0 \in Nat BY FS_EmptySet
    <2> HIDE DEF p
    <2>3. Ends(p, 1) BY <2>1 DEF Ends
    <2>4. ASSUME NEW x \in Field PROVE Cong(Vanishing(n, {}, x), PolyAt(p, 1, x))
        <3>1. Vanishing(n, {}, x) = 1
            <4>1. {} \in SUBSET (1 .. n) OBVIOUS
            <4> QED BY <4>1, VanishingPick
        <3>2. x \in Int BY FieldInt
        <3>3. PolyAt(p, 0, x) = 0 /\ PolyAt(p, 0 + 1, x) = PolyAt(p, 0, x) + p[0] * Pow(x, 0)
            BY <2>1, <2>2, <3>2, PolyStep
        <3>4. Pow(x, 0) = 1 BY <2>2, <3>2, PowStep
        <3>5. PolyAt(p, 1, x) = 1 BY <2>1, <3>3, <3>4
        <3>6. 1 \in Int OBVIOUS
        <3> QED BY <3>1, <3>5, <3>6, CongRefl
    <2>5. Is({}, p) BY <2>2, <2>3, <2>4
    <2> HIDE DEF Is
    <2> QED BY <2>5
<1>4. ASSUME NEW s \in SUBSET S, s # {}, s \ {Pick(s)} \in H PROVE s \in H
    <2> DEFINE t == s \ {Pick(s)}
               e == Pick(s)
               m == Cardinality(t) + 1
               w == root(n, e)
    <2>1. s \in SUBSET (1 .. n) /\ t \in SUBSET (1 .. n) /\ e \in s BY <1>4, PickIs
    <2>2. PICK p : Is(t, p) BY <1>4
    <2>3. m \in Nat /\ Cardinality(s) + 1 = m + 1
        <3>1. IsFiniteSet(s) BY <1>2, FS_Subset
        <3>2. Cardinality(s) \in Nat \ {0} /\ Cardinality(t) = Cardinality(s) - 1
            BY <2>1, <3>1, OneLess
        <3> QED BY <3>2
    <2>4. w \in Field /\ w \in Int BY <2>1, RootIs
    <2>5. Ends(p, m) BY <2>2
    <2>6. \A x \in Field : Cong(Vanishing(n, t, x), PolyAt(p, m, x)) BY <2>2
    <2>7. \A x \in Field : /\ Vanishing(n, s, x) = mulmod(Vanishing(n, t, x), submod(x, w))
                           /\ Vanishing(n, t, x) \in Field
        BY <1>4, <2>1, VanishingPick
    <2> HIDE DEF m, w, n, t
    <2>8. PICK q : /\ Ends(q, m + 1)
                   /\ \A x \in Int : PolyAt(q, m + 1, x) = (x - w) * PolyAt(p, m, x)
        BY <2>3, <2>4, <2>5, PolyTimes
    <2>9. ASSUME NEW x \in Field PROVE Cong(Vanishing(n, s, x), PolyAt(q, m + 1, x))
        <3> DEFINE A == PolyAt(p, m, x)
                   a == Vanishing(n, t, x)
                   b == submod(x, w)
                   d == x - w
        <3>1. x \in Int /\ p \in Terms BY <2>5, FieldInt DEF Ends
        <3>2. A \in Int /\ a \in Field /\ a \in Int BY <2>3, <2>7, <3>1, PolyStep, FieldInt
        <3>3. b \in Int /\ Cong(b, d) /\ d \in Int
            <4>1. submod(x, w) \in Field /\ Cong(submod(x, w), x - w) BY <2>4, <3>1, OpsCong
            <4>2. x - w \in Int BY <2>4, <3>1
            <4> QED BY <4>1, <4>2, FieldInt
        <3>4. Cong(a, A) BY <2>6
        <3>5. Vanishing(n, s, x) = mulmod(a, b) BY <2>7
        <3>6. PolyAt(q, m + 1, x) = d * A BY <2>8, <3>1
        <3> HIDE DEF A, a, b, d
        <3>7. Cong(mulmod(a, b), A * d) BY <3>2, <3>3, <3>4, OpsCong2
        <3>8. A * d = d * A BY <3>2, <3>3
        <3> QED BY <3>5, <3>6, <3>7, <3>8
    <2>10. Is(s, q) BY <2>3, <2>8, <2>9
    <2> HIDE DEF Is
    <2> QED BY <2>10
<1> HIDE DEF H
<1>5. \A s \in SUBSET S : s \in H BY <1>2, <1>3, <1>4, SetInduct
<1>6. S \in H BY <1>5
<1> QED BY <1>6 DEF H

(* The recursion of fft_recurse keeps to the field. *)
LEMMA FFTElements ==
    ASSUME NEW k \in 0 .. Generator2Order, NEW r \in Ints(2 ^ k), NEW y \in Elements(2 ^ k)
    PROVE  y \in Ints(2 ^ k) /\ fft_recurse[<<r, y>>] \in Elements(2 ^ k)
<1> DEFINE Keeps(i) == \A s \in Ints(2 ^ i), z \in Elements(2 ^ i) :
                           fft_recurse[<<s, z>>] \in Elements(2 ^ i)
           P == {i \in Nat : i <= Generator2Order => Keeps(i)}
<1>1. \A i, z : z \in Elements(i) => z \in Ints(i) BY FieldInt DEF Elements, Ints
<1>2. ASSUME NEW i \in 0 .. Generator2Order, NEW s \in Ints(2 ^ i), NEW z \in Elements(2 ^ i)
      PROVE  fft_recurse[<<s, z>>] = Level(fft_recurse, <<s, z>>)
    <2>1. <<s, z>> \in fft_input BY <1>1, InputIs
    <2>2. fft_recurse = LevelMap(fft_recurse) BY FFTFixed
    <2>3. LevelMap(fft_recurse)[<<s, z>>] = Level(fft_recurse, <<s, z>>) BY <2>1 DEF LevelMap
    <2> QED BY <2>2, <2>3
<1>3. 0 \in P
    <2> SUFFICES ASSUME NEW s \in Ints(2 ^ 0), NEW z \in Elements(2 ^ 0)
                 PROVE  fft_recurse[<<s, z>>] \in Elements(2 ^ 0)
        OBVIOUS
    <2>1. 0 \in 0 .. Generator2Order /\ z \in Ints(2 ^ 0) BY <1>1, GeneratorAssumption
    <2>2. fft_recurse[<<s, z>>] = Level(fft_recurse, <<s, z>>) BY <1>2, <2>1, Zenon
    <2>3. Level(fft_recurse, <<s, z>>) = z BY <1>1, LevelLast, Zenon
    <2> QED BY <2>2, <2>3
<1>4. ASSUME NEW i \in Nat, i \in P PROVE i + 1 \in P
    <2> DEFINE j == i + 1
               h == 2 ^ (j - 1)
    <2> SUFFICES ASSUME j <= Generator2Order, NEW s \in Ints(2 ^ j), NEW z \in Elements(2 ^ j)
                 PROVE  fft_recurse[<<s, z>>] \in Elements(2 ^ j)
        OBVIOUS
    <2>1. j \in 1 .. Generator2Order /\ j \in 0 .. Generator2Order /\ j - 1 = i
        BY GeneratorAssumption
    <2>2. Keeps(j - 1)
        <3> HIDE DEF Keeps
        <3>1. i <= Generator2Order BY GeneratorAssumption
        <3>2. Keeps(i) BY <1>4, <3>1
        <3> QED BY <2>1, <3>2
    <2> HIDE DEF j
    <2>3. z \in Ints(2 ^ j) BY <1>1
    <2>4. h \in Nat /\ 2 ^ j = 2 * h
        BY <2>1, <2>3, LevelUp
    <2>5. fft_recurse[<<s, z>>] = Butterfly(fft_recurse, s, z, h)
        <3>1. Level(fft_recurse, <<s, z>>) = Butterfly(fft_recurse, s, z, h) BY <2>1, <2>3, LevelUp
        <3> QED BY <1>2, <2>1, <3>1
    <2>6. \A u \in Ints(h), v \in Elements(h) : fft_recurse[<<u, v>>] \in Elements(h) BY <2>2
    <2> HIDE DEF h
    <2>7. s \in Ints(2 * h) /\ z \in Ints(2 * h) BY <2>3, <2>4
    <2>8. HalfRoots(s, h) \in Ints(h) BY <2>4, <2>7, HalvesType
    <2>9. HalfSums(z, h) \in Elements(h) /\ HalfDiffs(s, z, h) \in Elements(h)
        <3>1. ASSUME NEW m \in 1 .. h
              PROVE  addmod(z[m], z[m + h]) \in Field /\ mulmod(submod(z[m], z[m + h]), s[m]) \in Field
            <4>1. m \in 1 .. 2 * h /\ m + h \in 1 .. 2 * h BY <2>4
            <4>2. z[m] \in Int /\ z[m + h] \in Int /\ s[m] \in Int BY <2>7, <4>1 DEF Ints
            <4>3. submod(z[m], z[m + h]) \in Int BY <4>2, OpsCong, FieldInt
            <4> QED BY <4>2, <4>3, OpsCong
        <3> QED BY <3>1 DEF HalfSums, HalfDiffs, Elements
    <2> DEFINE e == fft_recurse[<<HalfRoots(s, h), HalfSums(z, h)>>]
               o == fft_recurse[<<HalfRoots(s, h), HalfDiffs(s, z, h)>>]
    <2>10. e \in Elements(h) /\ o \in Elements(h) BY <2>6, <2>8, <2>9
    <2>11. fft_recurse[<<s, z>>] = Weave(e, o, 2 * h) BY <2>5 DEF Butterfly
    <2> HIDE DEF e, o
    <2>12. Weave(e, o, 2 * h) \in Elements(2 * h)
        <3>1. ASSUME NEW m \in 1 .. 2 * h
              PROVE  (IF m % 2 = 1 THEN e[(m + 1) \div 2] ELSE o[m \div 2]) \in Field
            <4>1. CASE m % 2 = 1
                <5>1. (m + 1) \div 2 \in 1 .. h BY <2>4, <4>1
                <5> QED BY <2>10, <4>1, <5>1 DEF Elements
            <4>2. CASE m % 2 # 1
                <5>1. m \div 2 \in 1 .. h BY <2>4, <4>2
                <5> QED BY <2>10, <4>2, <5>1 DEF Elements
            <4> QED BY <4>1, <4>2
        <3> QED BY <3>1 DEF Weave, Elements
    <2> QED BY <2>4, <2>11, <2>12
<1> HIDE DEF P
<1>5. k \in Nat /\ k <= Generator2Order BY GeneratorAssumption
<1>6. k \in P BY <1>3, <1>4, <1>5, NatInduct
<1> QED BY <1>1, <1>5, <1>6 DEF P

(* The sum over an interval, from its first element. *)
LEMMA SetSumInterval ==
    ASSUME NEW n \in Nat, NEW f \in Terms, NEW g, \A i \in 1 .. n : g[i] = f[i - 1]
    PROVE  SetSum(g, 1 .. n) = Sigma(f, n)
<1> DEFINE P == {m \in Nat : m <= n => SetSum(g, 1 .. m) = Sigma(f, m)}
<1>1. ASSUME NEW m \in Nat
      PROVE  /\ IsFiniteSet(1 .. m) /\ Sigma(f, 0) = 0 /\ Sigma(f, m + 1) = Sigma(f, m) + f[m]
             /\ Sigma(f, m) \in Int /\ f[m] \in Int
    <2>1. 1 \in Int /\ m \in Int OBVIOUS
    <2> QED BY <2>1, FS_Interval, SigmaStep DEF Terms
<1>2. 0 \in P
    <2>1. 1 .. 0 = {} /\ 0 \in Nat OBVIOUS
    <2>2. SetSum(g, 1 .. 0) = 0 BY <1>1, <2>1, SetSumPick
    <2> QED BY <1>1, <2>1, <2>2
<1>3. ASSUME NEW m \in Nat, m \in P PROVE m + 1 \in P
    <2> DEFINE l == m + 1
               S == 1 .. l
    <2> SUFFICES ASSUME l <= n PROVE SetSum(g, S) = Sigma(f, l) OBVIOUS
    <2>1. \A i \in S : g[i] \in Int
        <3> SUFFICES ASSUME NEW i \in S PROVE g[i] \in Int OBVIOUS
        <3>1. i \in 1 .. n /\ i - 1 \in Nat OBVIOUS
        <3> QED BY <1>1, <3>1
    <2>2. l \in S /\ S \ {l} = 1 .. m /\ g[l] = f[m] /\ l \in Nat /\ m <= n
        <3>1. l \in 1 .. n /\ l - 1 = m OBVIOUS
        <3> QED BY <3>1
    <2>3. IsFiniteSet(S) BY <1>1, <2>2
    <2> HIDE DEF S, l
    <2>4. SetSum(g, S) = g[l] + SetSum(g, S \ {l}) BY <2>1, <2>2, <2>3, SetSumAny
    <2>5. SetSum(g, 1 .. m) = Sigma(f, m) BY <1>3, <2>2
    <2>6. Sigma(f, l) = Sigma(f, m) + f[m] BY <1>1 DEF l
    <2>7. SetSum(g, S) = f[m] + Sigma(f, m) BY <2>2, <2>4, <2>5
    <2>8. Sigma(f, m) \in Int /\ f[m] \in Int BY <1>1
    <2> DEFINE a == f[m]
               b == Sigma(f, m)
    <2>9. a \in Int /\ b \in Int /\ SetSum(g, S) = a + b /\ Sigma(f, l) = b + a
        BY <2>6, <2>7, <2>8
    <2> HIDE DEF a, b
    <2> QED BY <2>9
<1> HIDE DEF P
<1>4. n \in P BY <1>2, <1>3, NatInduct
<1> QED BY <1>4 DEF P

(* PolyValue is the value of the polynomial, reduced. *)
LEMMA PolyValueIs ==
    ASSUME NEW n \in Nat, NEW y \in Elements(n), NEW x \in Int
    PROVE  PolyValue(y, x) \in Field /\ Cong(PolyValue(y, x), PolyAt(Ext(y), n, x))
<1> DEFINE S == DOMAIN y
           f == [i \in 1 .. n |-> y[i] * exptmod(x, i - 1)]
           B1(g) == [s \in SUBSET S |-> IF s = {} THEN 0
                       ELSE y[Pick(s)] * exptmod(x, Pick(s) - 1) + g[s \ {Pick(s)}]]
           B2(g) == [s \in SUBSET S |-> IF s = {} THEN 0 ELSE f[Pick(s)] + g[s \ {Pick(s)}]]
<1>1. S = 1 .. n /\ y \in Ints(n) BY FieldInt DEF Elements, Ints
<1>2. PolyValue(y, x) = ((CHOOSE g : g = B1(g))[S]) % Modulus
    BY DEF PolyValue, MapThenSumSet, MapThenFoldSet, Pick
<1>3. SetSum(f, S) = (CHOOSE g : g = B2(g))[S] BY DEF SetSum
<1>4. \A i \in S : f[i] = y[i] * exptmod(x, i - 1) BY <1>1
<1>5. ASSUME NEW g PROVE B1(g) = B2(g)
    <2> HIDE DEF S, f
    <2>1. ASSUME NEW s \in SUBSET S, s # {}
          PROVE  y[Pick(s)] * exptmod(x, Pick(s) - 1) = f[Pick(s)]
        <3>1. Pick(s) \in S BY <2>1, PickIs
        <3> QED BY <1>4, <3>1
    <2> QED BY <2>1
<1> HIDE DEF B1, B2, S
<1>6. (CHOOSE g : g = B1(g)) = (CHOOSE g : g = B2(g)) BY <1>5
<1>7. PolyValue(y, x) = SetSum(f, 1 .. n) % Modulus
    <2>1. PolyValue(y, x) = SetSum(f, S) % Modulus BY <1>2, <1>3, <1>6
    <2> QED BY <1>1, <2>1
<1> DEFINE p == Ext(y)
           a == [i \in Nat |-> IF i < n THEN f[i + 1] ELSE 0]
<1>8. p \in Terms /\ \A i \in 0 .. n - 1 : p[i] = y[i + 1] /\ y[i + 1] \in Int BY <1>1, ExtType
<1>9. ASSUME NEW i \in Nat, i < n
      PROVE  /\ f[i + 1] = y[i + 1] * exptmod(x, i) /\ y[i + 1] \in Int
             /\ exptmod(x, i) = Pow(x, i) % Modulus /\ Pow(x, i) \in Int
             /\ exptmod(x, i) \in Int /\ p[i] = y[i + 1]
    <2>1. i + 1 \in 1 .. n /\ (i + 1) - 1 = i /\ i \in 0 .. n - 1 BY <1>9
    <2>2. exptmod(x, i) = Pow(x, i) % Modulus /\ Pow(x, i) \in Int BY ExptIsPow, PowStep
    <2>3. Pow(x, i) % Modulus \in Int BY <2>2, CongMod
    <2> HIDE DEF p
    <2> QED BY <1>8, <2>1, <2>2, <2>3
<1> HIDE DEF f, p
<1>10. a \in Terms
    <2>1. ASSUME NEW i \in Nat, i < n PROVE f[i + 1] \in Int
        <3> DEFINE u == y[i + 1]
                   v == exptmod(x, i)
        <3>1. f[i + 1] = u * v /\ u \in Int /\ v \in Int BY <1>9, <2>1
        <3> HIDE DEF u, v
        <3> QED BY <3>1
    <2> QED BY <2>1 DEF Terms
<1>11. \A i \in 1 .. n : f[i] = a[i - 1]
    <2> SUFFICES ASSUME NEW i \in 1 .. n PROVE f[i] = a[i - 1] OBVIOUS
    <2>1. i - 1 \in Nat /\ i - 1 < n /\ (i - 1) + 1 = i OBVIOUS
    <2> QED BY <2>1
<1>12. \A i \in 0 .. n - 1 : a[i] = f[i + 1] /\ i \in Nat /\ i < n OBVIOUS
<1> HIDE DEF a
<1>13. SetSum(f, 1 .. n) = Sigma(a, n) BY <1>10, <1>11, SetSumInterval
<1> DEFINE t == PolyTerms(p, x)
<1>14. t \in Terms /\ \A i \in Nat : t[i] = p[i] * Pow(x, i) BY <1>8, PolyTermsType
<1>15. ASSUME NEW i \in 0 .. n - 1 PROVE Cong(a[i], t[i])
    <2> DEFINE u == y[i + 1]
               v == exptmod(x, i)
               z == Pow(x, i)
    <2>1. /\ a[i] = u * v /\ t[i] = u * z /\ u \in Int /\ v \in Int /\ z \in Int
          /\ v = z % Modulus
        BY <1>9, <1>12, <1>14
    <2> HIDE DEF u, v, z, t
    <2>2. Cong(v, z) BY <2>1, CongMod
    <2>3. Cong(u * v, u * z) BY <2>1, <2>2, CongScale
    <2> QED BY <2>1, <2>3
<1> HIDE DEF t
<1>16. Cong(Sigma(a, n), Sigma(t, n)) BY <1>10, <1>14, <1>15, SigmaCong
<1>17. Sigma(a, n) \in Int /\ Sigma(t, n) \in Int BY <1>10, <1>14, SigmaStep
<1> DEFINE A == Sigma(a, n)
<1>18. PolyValue(y, x) = A % Modulus /\ A \in Int BY <1>7, <1>13, <1>17
<1> HIDE DEF A
<1>19. A % Modulus \in Field /\ Cong(A % Modulus, A) BY <1>18, DivMod, CongMod
<1>20. Cong(A % Modulus, Sigma(t, n))
    <2>1. A % Modulus \in Int BY <1>19, FieldInt
    <2>2. Cong(A, Sigma(t, n)) BY <1>16 DEF A
    <2> QED BY <1>17, <1>18, <1>19, <2>1, <2>2, CongTrans
<1> QED BY <1>18, <1>19, <1>20 DEF t, p, PolyAt

(* The terms of Lagrange's formula. *)
LagrangeTerms(y, n, x) ==
    [i \in 1 .. n |-> y[i] * mulmod(Vanishing(n, (1 .. n) \ {i}, x),
                                    invmod(Vanishing(n, (1 .. n) \ {i}, root(n, i))))]

LEMMA LagrangeIs ==
    ASSUME NEW n \in Nat, NEW y \in Elements(n), NEW x
    PROVE  Lagrange(y, x) = SetSum(LagrangeTerms(y, n, x), 1 .. n) % Modulus
<1> DEFINE S == 1 .. n
           f == LagrangeTerms(y, n, x)
           T(i) == y[i] * mulmod(Vanishing(n, S \ {i}, x),
                                 invmod(Vanishing(n, S \ {i}, root(n, i))))
           B1(g) == [s \in SUBSET S |-> IF s = {} THEN 0 ELSE T(Pick(s)) + g[s \ {Pick(s)}]]
           B2(g) == [s \in SUBSET S |-> IF s = {} THEN 0 ELSE f[Pick(s)] + g[s \ {Pick(s)}]]
<1>1. Len(y) = n
    <2>1. y \in [1 .. n -> Int] BY FieldInt DEF Elements
    <2> QED BY <2>1, ArrayIs
<1>2. Lagrange(y, x) = ((CHOOSE g : g = B1(g))[S]) % Modulus
    BY <1>1 DEF Lagrange, MapThenSumSet, MapThenFoldSet, Pick
<1>3. SetSum(f, S) = (CHOOSE g : g = B2(g))[S] BY DEF SetSum
<1>4. \A i \in S : f[i] = T(i) BY DEF LagrangeTerms
<1>5. ASSUME NEW g PROVE B1(g) = B2(g)
    <2> HIDE DEF S, f, T
    <2>1. ASSUME NEW s \in SUBSET S, s # {}
          PROVE  T(Pick(s)) = f[Pick(s)]
        <3>1. Pick(s) \in S BY <2>1, PickIs
        <3> QED BY <1>4, <3>1
    <2> QED BY <2>1
<1> HIDE DEF B1, B2, S
<1>6. (CHOOSE g : g = B1(g)) = (CHOOSE g : g = B2(g)) BY <1>5
<1>7. Lagrange(y, x) = SetSum(f, S) % Modulus BY <1>2, <1>3, <1>6
<1> QED BY <1>7 DEF S

(* Each is a polynomial with a coefficient per point, which takes the      *)
(* point's value at its own root and vanishes at the others.               *)
LEMMA LagrangeTermIs ==
    ASSUME NEW k \in 0 .. Generator2Order, NEW y \in Elements(2 ^ k), NEW i \in 1 .. 2 ^ k
    PROVE  /\ \E p \in Terms : \A x \in Field :
                Cong(LagrangeTerms(y, 2 ^ k, x)[i], PolyAt(p, 2 ^ k, x))
           /\ \A x \in Field : LagrangeTerms(y, 2 ^ k, x)[i] \in Int
           /\ \A j \in 1 .. 2 ^ k : Cong(LagrangeTerms(y, 2 ^ k, root(2 ^ k, j))[i],
                                         IF j = i THEN y[i] ELSE 0)
<1> DEFINE n == 2 ^ k
           S == (1 .. n) \ {i}
           d == Vanishing(n, S, root(n, i))
           v == invmod(d)
           c == y[i]
           b == c * v
<1>1. n \in Nat BY StepIs, PowerStep
<1>2. S \in SUBSET (1 .. n) /\ i \in 1 .. n OBVIOUS
<1>3. d \in Field /\ d # 0
    <2>1. root(n, i) \in Field BY RootIs
    <2>2. \A j \in S : root(n, i) # root(n, j) BY RootsDiffer
    <2>3. d \in Field BY <1>2, <2>1, VanishingPick
    <2>4. d = 0 <=> \E j \in S : root(n, i) = root(n, j) BY <1>2, <2>1, VanishingZeros
    <2> QED BY <2>2, <2>3, <2>4
<1>4. v \in Int /\ v \in Field /\ Cong(d * v, 1) /\ d \in Int
    <2> HIDE DEF d
    <2> QED BY <1>3, FieldInverse, FieldInt
<1>5. c \in Int BY FieldInt DEF Elements
<1>6. ASSUME NEW x \in Field
      PROVE  /\ Vanishing(n, S, x) \in Int
             /\ LagrangeTerms(y, n, x)[i] = c * mulmod(Vanishing(n, S, x), v)
             /\ Cong(LagrangeTerms(y, n, x)[i], b * Vanishing(n, S, x))
             /\ LagrangeTerms(y, n, x)[i] \in Int
    <2> DEFINE a == Vanishing(n, S, x)
    <2>1. a \in Int BY <1>2, VanishingPick, FieldInt
    <2>2. LagrangeTerms(y, n, x)[i] = c * mulmod(a, v) BY DEF LagrangeTerms
    <2> HIDE DEF a, v, c
    <2>3. mulmod(a, v) \in Int /\ Cong(mulmod(a, v), a * v) BY <1>4, <2>1, OpsCong, FieldInt
    <2>4. a * v \in Int /\ c * (a * v) = (c * v) * a BY <1>4, <1>5, <2>1
    <2>5. Cong(c * mulmod(a, v), c * (a * v)) BY <1>5, <2>3, <2>4, CongScale
    <2>6. c * mulmod(a, v) \in Int BY <1>5, <2>3
    <2> QED BY <2>1, <2>2, <2>4, <2>5, <2>6 DEF a
<1>7. PICK p : /\ Ends(p, Cardinality(S) + 1)
               /\ \A x \in Field : Cong(Vanishing(n, S, x), PolyAt(p, Cardinality(S) + 1, x))
    BY <1>2, VanishingPoly
<1>8. Cardinality(S) + 1 = n
    <2> HIDE DEF n
    <2>1. 1 \in Int /\ n \in Int BY <1>1
    <2>2. IsFiniteSet(1 .. n) /\ Cardinality(1 .. n) = n
        <3>1. 1 .. n # {} /\ 1 <= n BY <1>1, <1>2
        <3> QED BY <1>1, <2>1, <3>1, FS_Interval
    <2>3. Cardinality(S) = Cardinality(1 .. n) - 1 BY <1>2, <2>2, OneLess
    <2> QED BY <1>1, <2>2, <2>3
<1>9. p \in Terms /\ \A x \in Field : Cong(Vanishing(n, S, x), PolyAt(p, n, x))
    <2>1. p \in Terms BY <1>7 DEF Ends
    <2>2. \A x \in Field : Cong(Vanishing(n, S, x), PolyAt(p, Cardinality(S) + 1, x)) BY <1>7
    <2> QED BY <1>8, <2>1, <2>2
<1> HIDE DEF d, v, c, S, n
<1>10. b \in Int BY <1>4, <1>5
<1> HIDE DEF b
<1> DEFINE q == [m \in Nat |-> b * p[m]]
<1>11. q \in Terms /\ \A m \in 0 .. n - 1 : q[m] = b * p[m]
    <2>1. \A m \in Nat : p[m] \in Int BY <1>9 DEF Terms
    <2>2. \A m \in Nat : b * p[m] \in Int BY <1>10, <2>1
    <2> QED BY <2>2 DEF Terms
<1> HIDE DEF q
<1>12. ASSUME NEW x \in Field PROVE Cong(LagrangeTerms(y, n, x)[i], PolyAt(q, n, x))
    <2> DEFINE a == Vanishing(n, S, x)
               A == PolyAt(p, n, x)
               L == LagrangeTerms(y, n, x)[i]
    <2>1. x \in Int BY FieldInt
    <2>2. a \in Int /\ A \in Int /\ Cong(a, A) /\ L \in Int /\ Cong(L, b * a)
        BY <1>1, <1>6, <1>9, <2>1, PolyStep
    <2>3. PolyAt(q, n, x) = b * A BY <1>1, <1>9, <1>10, <1>11, <2>1, PolyScale
    <2> HIDE DEF a, A, L
    <2>4. Cong(b * a, b * A) BY <1>10, <2>2, CongScale
    <2>5. b * a \in Int /\ b * A \in Int BY <1>10, <2>2
    <2>6. Cong(L, b * A) BY <2>2, <2>4, <2>5, CongTrans
    <2> QED BY <2>3, <2>6 DEF L
<1>13. ASSUME NEW j \in 1 .. n
       PROVE  Cong(LagrangeTerms(y, n, root(n, j))[i], IF j = i THEN c ELSE 0)
    <2> DEFINE L == LagrangeTerms(y, n, root(n, j))[i]
    <2>1. root(n, j) \in Field BY RootIs DEF n
    <2>2. CASE j = i
        <3>1. L = c * mulmod(d, v) BY <1>6, <2>1, <2>2 DEF d
        <3> DEFINE e == mulmod(d, v)
        <3>2. e \in Int /\ Cong(e, d * v) BY <1>4, OpsCong, FieldInt
        <3>3. d * v \in Int /\ 1 \in Int /\ c * 1 = c BY <1>4, <1>5
        <3> HIDE DEF e
        <3>4. Cong(e, 1) BY <1>4, <3>2, <3>3, CongTrans
        <3>5. Cong(c * e, c * 1) BY <1>5, <3>2, <3>3, <3>4, CongScale
        <3> QED BY <2>2, <3>1, <3>3, <3>5 DEF e
    <2>3. CASE j # i
        <3>1. j \in S BY <2>3 DEF S
        <3>2. Vanishing(n, S, root(n, j)) = 0
            <4>1. S \in SUBSET (1 .. 2 ^ k) BY <1>2 DEF n
            <4>2. Vanishing(n, S, root(n, j)) = 0 <=> \E m \in S : root(n, j) = root(n, m)
                BY <2>1, <4>1, VanishingZeros DEF n
            <4> QED BY <3>1, <4>2
        <3>3. b * 0 = 0 BY <1>10
        <3>4. Cong(L, b * 0) BY <1>6, <2>1, <3>2
        <3> QED BY <2>3, <3>3, <3>4
    <2> QED BY <2>2, <2>3
<1> QED BY <1>6, <1>11, <1>12, <1>13 DEF n, c

(* Their sum is a polynomial with as many coefficients, *)
LEMMA LagrangePoly ==
    ASSUME NEW k \in 0 .. Generator2Order, NEW y \in Elements(2 ^ k)
    PROVE  \E p \in Terms : \A x \in Field :
             /\ SetSum(LagrangeTerms(y, 2 ^ k, x), 1 .. 2 ^ k) \in Int
             /\ Cong(SetSum(LagrangeTerms(y, 2 ^ k, x), 1 .. 2 ^ k), PolyAt(p, 2 ^ k, x))
<1> DEFINE n == 2 ^ k
           S == 1 .. n
           f(x) == LagrangeTerms(y, n, x)
           Is(s, p) == \A x \in Field : Cong(SetSum(f(x), s), PolyAt(p, n, x))
           H == {s \in SUBSET S : \E p \in Terms : Is(s, p)}
<1>1. n \in Nat BY StepIs, PowerStep
<1>2. IsFiniteSet(S)
    <2> HIDE DEF n
    <2>1. 1 \in Int /\ n \in Int BY <1>1
    <2> QED BY <2>1, FS_Interval
<1>3. \A x \in Field : \A i \in S : f(x)[i] \in Int BY LagrangeTermIs
<1>4. ASSUME NEW i \in S
      PROVE  \E q \in Terms : \A x \in Field : Cong(f(x)[i], PolyAt(q, n, x))
    BY LagrangeTermIs
<1> HIDE DEF n, f
<1>5. ASSUME NEW s \in SUBSET S, NEW x \in Field
      PROVE  /\ SetSum(f(x), s) \in Int
             /\ s = {} => SetSum(f(x), s) = 0
             /\ s # {} => SetSum(f(x), s) = f(x)[Pick(s)] + SetSum(f(x), s \ {Pick(s)})
    <2> DEFINE g == f(x)
    <2>1. IsFiniteSet(s) /\ \A i \in s : g[i] \in Int BY <1>2, <1>3, FS_Subset
    <2> HIDE DEF g
    <2>2. /\ SetSum(g, s) \in Int
          /\ s = {} => SetSum(g, s) = 0
          /\ s # {} => SetSum(g, s) = g[Pick(s)] + SetSum(g, s \ {Pick(s)})
        BY <2>1, SetSumPick
    <2> QED BY <2>2 DEF g
<1>6. {} \in H
    <2> DEFINE z == [i \in Nat |-> 0]
    <2>1. z \in Terms /\ \A i \in Nat : z[i] = 0 BY DEF Terms
    <2> HIDE DEF z
    <2>2. ASSUME NEW x \in Field PROVE Cong(SetSum(f(x), {}), PolyAt(z, n, x))
        <3>1. SetSum(f(x), {}) = 0
            <4>1. {} \in SUBSET S OBVIOUS
            <4> QED BY <1>5, <4>1
        <3>2. PolyAt(z, n, x) = 0
            <4>1. x \in Int BY FieldInt
            <4> QED BY <1>1, <2>1, <4>1, PolyZero
        <3>3. 0 \in Int OBVIOUS
        <3> QED BY <3>1, <3>2, <3>3, CongRefl
    <2>3. Is({}, z) BY <2>2
    <2> HIDE DEF Is
    <2> QED BY <2>1, <2>3
<1>7. ASSUME NEW s \in SUBSET S, s # {}, s \ {Pick(s)} \in H PROVE s \in H
    <2> DEFINE t == s \ {Pick(s)}
               e == Pick(s)
               o == 1
    <2>1. e \in S /\ t \in SUBSET S BY <1>7, PickIs
    <2>2. PICK p \in Terms : Is(t, p) BY <1>7
    <2>3. PICK q \in Terms : \A x \in Field : Cong(f(x)[e], PolyAt(q, n, x)) BY <1>4, <2>1
    <2> DEFINE r == [i \in Nat |-> o * q[i] + o * p[i]]
    <2>4. r \in Terms /\ \A i \in 0 .. n - 1 : r[i] = o * q[i] + o * p[i]
        <3>1. \A i \in Nat : q[i] \in Int /\ p[i] \in Int BY DEF Terms
        <3>2. \A i \in Nat : o * q[i] + o * p[i] \in Int BY <3>1
        <3> QED BY <3>2 DEF Terms
    <2> HIDE DEF r
    <2>5. ASSUME NEW x \in Field PROVE Cong(SetSum(f(x), s), PolyAt(r, n, x))
        <3> DEFINE A == PolyAt(q, n, x)
                   B == PolyAt(p, n, x)
                   a == f(x)[e]
                   b == SetSum(f(x), t)
        <3>1. x \in Int BY FieldInt
        <3>2. A \in Int /\ B \in Int BY <1>1, <3>1, PolyStep
        <3>3. a \in Int /\ b \in Int BY <1>3, <1>5, <2>1
        <3>4. Cong(a, A) /\ Cong(b, B) BY <2>2, <2>3
        <3>5. SetSum(f(x), s) = a + b BY <1>5, <1>7
        <3>6. PolyAt(r, n, x) = o * A + o * B
            <4>1. o \in Int OBVIOUS
            <4> HIDE DEF o
            <4> QED BY <1>1, <2>4, <3>1, <4>1, PolyLinear DEF o
        <3> HIDE DEF A, B, a, b
        <3>7. Cong(a + b, A + B) BY <3>2, <3>3, <3>4, CongAdd
        <3>8. o * A + o * B = A + B BY <3>2
        <3> QED BY <3>5, <3>6, <3>7, <3>8
    <2>6. Is(s, r) BY <2>5
    <2> HIDE DEF Is
    <2> QED BY <2>4, <2>6
<1> HIDE DEF H, S
<1>8. \A s \in SUBSET S : s \in H BY <1>2, <1>6, <1>7, SetInduct
<1>9. S \in H BY <1>8
<1>10. PICK p \in Terms : Is(S, p) BY <1>9 DEF H
<1>11. \A x \in Field : SetSum(f(x), S) \in Int BY <1>5
<1> QED BY <1>10, <1>11 DEF S, n, f

(* and takes the points' values at the roots. *)
LEMMA LagrangeAtRoot ==
    ASSUME NEW k \in 0 .. Generator2Order, NEW y \in Elements(2 ^ k), NEW j \in 1 .. 2 ^ k
    PROVE  Cong(SetSum(LagrangeTerms(y, 2 ^ k, root(2 ^ k, j)), 1 .. 2 ^ k), y[j])
<1> DEFINE n == 2 ^ k
           S == 1 .. n
           f == LagrangeTerms(y, n, root(n, j))
           R == S \ {j}
           H == {s \in SUBSET R : Cong(SetSum(f, s), 0)}
<1>1. n \in Nat BY StepIs, PowerStep
<1>2. IsFiniteSet(S)
    <2> HIDE DEF n
    <2>1. 1 \in Int /\ n \in Int BY <1>1
    <2> QED BY <2>1, FS_Interval
<1>3. root(n, j) \in Field BY RootIs
<1>4. \A i \in S : f[i] \in Int /\ Cong(f[i], IF j = i THEN y[i] ELSE 0) BY <1>3, LagrangeTermIs
<1>5. j \in S /\ y[j] \in Int BY FieldInt DEF Elements
<1> HIDE DEF n, S, f
<1>6. IsFiniteSet(R) /\ R \subseteq S BY <1>2, FS_Subset
<1>7. ASSUME NEW s \in SUBSET R PROVE IsFiniteSet(s) /\ \A i \in s : f[i] \in Int
    BY <1>4, <1>6, FS_Subset
<1>8. {} \in H
    <2>1. {} \in SUBSET R /\ 0 \in Int OBVIOUS
    <2>2. SetSum(f, {}) = 0 BY <1>7, <2>1, SetSumPick
    <2> QED BY <2>1, <2>2, CongRefl
<1>9. ASSUME NEW s \in SUBSET R, s # {}, s \ {Pick(s)} \in H PROVE s \in H
    <2> DEFINE t == s \ {Pick(s)}
               e == Pick(s)
               a == f[e]
               b == SetSum(f, t)
    <2>1. e \in s /\ t \in SUBSET R BY <1>9, PickIs
    <2>2. e \in S /\ e # j BY <2>1
    <2>3. a \in Int /\ Cong(a, 0) BY <1>4, <2>2
    <2>4. b \in Int /\ Cong(b, 0)
        <3>1. b \in Int BY <1>7, <2>1, SetSumPick
        <3> QED BY <1>9, <3>1
    <2>5. SetSum(f, s) = a + b BY <1>7, <1>9, SetSumPick
    <2> HIDE DEF a, b
    <2>6. Cong(a + b, 0 + 0)
        <3>1. 0 \in Int OBVIOUS
        <3> QED BY <2>3, <2>4, <3>1, CongAdd
    <2>7. 0 + 0 = 0 OBVIOUS
    <2> QED BY <2>5, <2>6, <2>7
<1> HIDE DEF H
<1>10. \A s \in SUBSET R : s \in H BY <1>6, <1>8, <1>9, SetInduct
<1>11. R \in H BY <1>10
<1> DEFINE a == f[j]
           b == SetSum(f, R)
           c == y[j]
<1>12. Cong(b, 0) BY <1>11 DEF H
<1>13. b \in Int
    <2>1. R \in SUBSET R OBVIOUS
    <2> HIDE DEF R
    <2> QED BY <1>7, <2>1, SetSumPick
<1>14. a \in Int /\ Cong(a, c) /\ c \in Int BY <1>4, <1>5
<1>15. SetSum(f, S) = a + b BY <1>2, <1>4, <1>5, SetSumAny
<1> HIDE DEF a, b, c
<1>16. Cong(a + b, c + 0)
    <2>1. 0 \in Int OBVIOUS
    <2> QED BY <1>12, <1>13, <1>14, <2>1, CongAdd
<1>17. c + 0 = c BY <1>14
<1>18. Cong(SetSum(f, S), c) BY <1>15, <1>16, <1>17
<1> QED BY <1>18 DEF f, S, n, c

(* poly_interp_evaluate returns the value of Lagrange's formula. *)
THEOREM InterpolatesLagrange ==
    ASSUME NEW k \in 0 .. Generator2Order, NEW y \in Elements(2 ^ k), NEW x \in Field
    PROVE  poly_interp_evaluate(y, x) = Lagrange(y, x)
<1> DEFINE n == 2 ^ k
           w == Gen(k, FALSE)
           T(z) == SetSum(LagrangeTerms(y, n, z), 1 .. n)
           c == poly_fft(y, TRUE)
<1>1. n \in Nat /\ y \in Ints(n) /\ x \in Int
    <2>1. n \in Nat BY StepIs, PowerStep
    <2>2. y \in Ints(n) BY FieldInt DEF Elements, Ints
    <2> QED BY <2>1, <2>2, FieldInt
<1>2. PICK p \in Terms : \A z \in Field : T(z) \in Int /\ Cong(T(z), PolyAt(p, n, z))
    BY LagrangePoly
<1>3. ASSUME NEW j \in 0 .. n - 1 PROVE Cong(y[j + 1], PolyAt(p, n, Pow(w, j)))
    <2> DEFINE i == j + 1
               r == root(n, i)
               u == Pow(w, j)
               A == PolyAt(p, n, r)
               B == PolyAt(p, n, u)
               b == y[i]
    <2>0. i \in 1 .. n /\ i - 1 = j /\ j \in Nat BY <1>1
    <2>1. r \in Field /\ r \in Int /\ Cong(r, u) /\ u \in Int
        <3> HIDE DEF i
        <3> QED BY <2>0, RootIs
    <2>2. Cong(T(r), b) BY <2>0, LagrangeAtRoot
    <2>3. T(r) \in Int /\ Cong(T(r), A) BY <1>2, <2>1
    <2> HIDE DEF i, u, r, n, w
    <2>4. A \in Int /\ B \in Int BY <1>1, <2>1, PolyStep
    <2>5. b \in Int BY <1>1, <2>0 DEF Ints
    <2>6. Cong(A, B)
        <3>1. ASSUME NEW e \in 0 .. n - 1 PROVE Cong(p[e] * Pow(r, e), p[e] * Pow(u, e))
            <4>1. e \in Nat BY <1>1
            <4>2. Cong(Pow(r, e), Pow(u, e)) BY <2>1, <4>1, PowCong
            <4>3. Pow(r, e) \in Int /\ Pow(u, e) \in Int /\ p[e] \in Int
                BY <2>1, <4>1, PowStep DEF Terms
            <4> QED BY <4>2, <4>3, CongScale
        <3> QED BY <1>1, <2>1, <3>1, PolyCong
    <2> DEFINE t == T(r)
    <2> HIDE DEF A, B, b, t
    <2>7. Cong(b, B) BY <2>2, <2>3, <2>4, <2>5, <2>6, CongSym, CongTrans DEF t
    <2> QED BY <2>7 DEF b, B, u, i
<1>4. Cong(PolyAt(Ext(c), n, x), PolyAt(p, n, x)) BY <1>1, <1>3, InterpolationUnique
<1>5. poly_interp_evaluate(y, x) \in Field /\ Cong(poly_interp_evaluate(y, x), PolyAt(Ext(c), n, x))
    BY <1>1, InterpEvaluate
<1>6. Lagrange(y, x) = T(x) % Modulus BY <1>1, LagrangeIs
<1>7. Ext(c) \in Terms
    <2>1. c \in Ints(n) BY <1>1, InverseIs
    <2> HIDE DEF c, n
    <2> QED BY <1>1, <2>1, ExtType
<1> DEFINE A == PolyAt(Ext(c), n, x)
           B == PolyAt(p, n, x)
           t == T(x)
           v == poly_interp_evaluate(y, x)
<1>8. A \in Int /\ B \in Int
    <2> HIDE DEF c, n
    <2> QED BY <1>1, <1>7, PolyStep
<1>9. t \in Int /\ Cong(t, B) BY <1>2
<1>10. v \in Field /\ v \in Int /\ Cong(v, A) /\ Cong(A, B) BY <1>4, <1>5, FieldInt
<1>11. Lagrange(y, x) = t % Modulus BY <1>6
<1> HIDE DEF A, B, t, v
<1>12. t % Modulus \in Field /\ t % Modulus \in Int /\ Cong(t % Modulus, t) BY <1>9, DivMod, CongMod
<1>13. Cong(v, t % Modulus) BY <1>8, <1>9, <1>10, <1>12, CongSym, CongTrans
<1>14. v = t % Modulus BY <1>10, <1>12, <1>13, FieldCongEq
<1> QED BY <1>11, <1>14 DEF v

(* poly_fft returns the values at the roots of unity, reduced. *)
THEOREM TransformsEvaluate ==
    ASSUME NEW k \in 0 .. Generator2Order, NEW y \in Elements(2 ^ k), NEW j \in 1 .. 2 ^ k
    PROVE  poly_fft(y, FALSE)[j] = PolyValue(y, root(2 ^ k, j))
<1> DEFINE n == 2 ^ k
           w == Gen(k, FALSE)
           r == root(n, j)
           u == Pow(w, j - 1)
           p == Ext(y)
           v == poly_fft(y, FALSE)[j]
           e == PolyValue(y, r)
           A == PolyAt(p, n, u)
           B == PolyAt(p, n, r)
<1>1. n \in Nat /\ y \in Ints(n)
    <2>1. n \in Nat BY StepIs, PowerStep
    <2>2. y \in Ints(n) BY FieldInt DEF Elements, Ints
    <2> QED BY <2>1, <2>2
<1>2. r \in Field /\ r \in Int /\ Cong(r, u) /\ u \in Int BY RootIs
<1>3. e \in Field /\ Cong(e, B) BY <1>1, <1>2, PolyValueIs
<1>4. v \in Field
    <2> DEFINE s == poly_fft_get_roots(n, FALSE)
    <2>1. s \in Ints(n) BY RootsTable DEF RootTable
    <2>2. Len(y) = n BY <1>1, ArrayIs DEF Ints
    <2>3. poly_fft(y, FALSE) = fft_recurse[<<s, y>>] BY <2>2 DEF poly_fft, fft_interpolate_raw
    <2> HIDE DEF s
    <2>4. fft_recurse[<<s, y>>] \in Elements(n) BY <2>1, FFTElements
    <2> QED BY <2>3, <2>4 DEF Elements
<1>5. Cong(v, A)
    <2> DEFINE i == j - 1
    <2>1. i \in 0 .. n - 1 /\ i + 1 = j BY <1>1
    <2>2. \A m \in 0 .. n - 1 : Cong(poly_fft(y, FALSE)[m + 1], PolyAt(p, n, Pow(w, m)))
        BY <1>1, TransformIs
    <2>3. Cong(poly_fft(y, FALSE)[i + 1], PolyAt(p, n, Pow(w, i))) BY <2>1, <2>2
    <2> QED BY <2>1, <2>3
<1>6. p \in Terms
    <2> HIDE DEF n
    <2> QED BY <1>1, ExtType
<1> HIDE DEF n, w, r, u, p, v, e
<1>7. A \in Int /\ B \in Int BY <1>1, <1>2, <1>6, PolyStep
<1>8. Cong(B, A)
    <2>1. ASSUME NEW m \in 0 .. n - 1 PROVE Cong(p[m] * Pow(r, m), p[m] * Pow(u, m))
        <3>1. m \in Nat BY <1>1
        <3>2. Cong(Pow(r, m), Pow(u, m)) BY <1>2, <3>1, PowCong
        <3>3. Pow(r, m) \in Int /\ Pow(u, m) \in Int /\ p[m] \in Int
            BY <1>2, <1>6, <3>1, PowStep DEF Terms
        <3> QED BY <3>2, <3>3, CongScale
    <2> QED BY <1>1, <1>2, <1>6, <2>1, PolyCong
<1> HIDE DEF A, B
<1>9. v \in Int /\ e \in Int BY <1>3, <1>4, FieldInt
<1>10. Cong(v, e) BY <1>3, <1>5, <1>7, <1>8, <1>9, CongSym, CongTrans
<1> QED BY <1>3, <1>4, <1>10, FieldCongEq DEF v, e, n, r

(* The lengths poly_fft accepts are powers of two. *)
LEMMA DivisorOfPower ==
    ASSUME NEW g \in Nat, NEW n \in Nat \ {0}, 2 ^ g % n = 0
    PROVE  \E k \in 0 .. g : n = 2 ^ k
<1> DEFINE P == {a \in Nat : \A m \in Nat \ {0} : 2 ^ a % m = 0 => \E k \in 0 .. a : m = 2 ^ k}
<1>1. 0 \in P
    <2> SUFFICES ASSUME NEW m \in Nat \ {0}, 2 ^ 0 % m = 0 PROVE \E k \in 0 .. 0 : m = 2 ^ k OBVIOUS
    <2>1. 2 ^ 0 = 1 OBVIOUS
    <2>2. m = 1
        <3>1. m > 1 => 1 % m = 1 OBVIOUS
        <3> QED BY <2>1, <3>1
    <2> QED BY <2>1, <2>2
<1>2. ASSUME NEW a \in Nat, a \in P PROVE a + 1 \in P
    <2> SUFFICES ASSUME NEW m \in Nat \ {0}, 2 ^ (a + 1) % m = 0
                 PROVE  \E k \in 0 .. a + 1 : m = 2 ^ k
        OBVIOUS
    <2> DEFINE e == 2 ^ a
    <2>1. e \in Nat /\ e > 0 /\ 2 ^ (a + 1) = 2 * e BY PowerStep, PowerPositive
    <2>2. \A l \in Nat \ {0} : e % l = 0 => \E k \in 0 .. a : l = 2 ^ k BY <1>2
    <2> HIDE DEF e
    <2> DEFINE q == (2 * e) \div m
               r == m \div 2
               s == q \div 2
    <2>3. q \in Nat /\ 2 * e = m * q
        <3>1. (2 * e) % m = 0 BY <2>1
        <3> QED BY <2>1, <3>1
    <2> HIDE DEF q
    <2>4. r \in Nat /\ s \in Nat BY <2>3
    <2>5. CASE m = 2 * r
        <3>1. r # 0 BY <2>4, <2>5
        <3> HIDE DEF r
        <3>2. e = r * q
            <4>1. m * q = 2 * (r * q) /\ r * q \in Nat BY <2>3, <2>4, <2>5
            <4> QED BY <2>1, <2>3, <4>1
        <3>3. (r * q) % r = 0 BY <2>3, <2>4, <3>1
        <3>4. e % r = 0 BY <3>2, <3>3
        <3>5. PICK k \in 0 .. a : r = 2 ^ k BY <2>2, <2>4, <3>1, <3>4
        <3>6. k + 1 \in 0 .. a + 1 /\ k \in Nat OBVIOUS
        <3>7. 2 ^ (k + 1) = 2 * 2 ^ k BY <3>6, PowerStep
        <3> QED BY <2>5, <3>5, <3>6, <3>7
    <2>6. CASE m = 2 * r + 1
        <3> HIDE DEF r
        <3>1. q = 2 * s
            <4>1. q = 2 * s \/ q = 2 * s + 1 BY <2>3
            <4> HIDE DEF s
            <4> SUFFICES ASSUME q = 2 * s + 1 PROVE FALSE BY <4>1
            <4>2. m * q = 2 * (r * q + s) + 1 /\ r * q + s \in Nat BY <2>3, <2>4, <2>6
            <4> DEFINE b == r * q + s
            <4>3. b \in Nat /\ 2 * e = 2 * b + 1 BY <2>3, <4>2
            <4> HIDE DEF b
            <4> QED BY <2>1, <4>3
        <3> HIDE DEF s
        <3>2. e = m * s
            <4>1. m * q = 2 * (m * s) /\ m * s \in Nat BY <2>4, <3>1
            <4> QED BY <2>1, <2>3, <4>1
        <3>3. (m * s) % m = 0 BY <2>4
        <3>4. e % m = 0 BY <3>2, <3>3
        <3>5. PICK k \in 0 .. a : m = 2 ^ k BY <2>2, <3>4
        <3>6. k \in 0 .. a + 1 OBVIOUS
        <3> QED BY <3>5, <3>6
    <2>7. m = 2 * r \/ m = 2 * r + 1 OBVIOUS
    <2> QED BY <2>5, <2>6, <2>7
<1> HIDE DEF P
<1>3. g \in P BY <1>1, <1>2, NatInduct
<1> QED BY <1>3 DEF P

(* What the process that runs the transforms keeps true. *)
PolyInv ==
    /\ \E k \in 0 .. Generator2Order : points \in Elements(2 ^ k)
    /\ at \in Field
    /\ result # <<>> => result = [fft    |-> poly_fft(points, FALSE),
                                  interp |-> poly_interp_evaluate(points, at)]

LEMMA PolyInvAlways == PolySpec => []PolyInv
<1>1. PolyInit => PolyInv
    <2> SUFFICES ASSUME PolyInit PROVE PolyInv OBVIOUS
    <2>1. PICK n \in Lengths : points \in [1 .. n -> PointVals] BY DEF PolyInit
    <2>2. n \in Nat \ {0} /\ n_roots % n = 0 BY <2>1, Roots DEF Lengths, poly_fft_accepts
    <2>3. Generator2Order \in Nat BY GeneratorAssumption
    <2>4. PICK k \in 0 .. Generator2Order : n = 2 ^ k BY <2>2, <2>3, DivisorOfPower DEF n_roots
    <2>5. points \in Elements(2 ^ k) BY <2>1, <2>4, PolyAssumption DEF Elements
    <2> QED BY <2>5, PolyAssumption DEF PolyInit, PolyInv
<1>2. PolyInv /\ [PolyNext]_polyVars => PolyInv'
    <2> SUFFICES ASSUME PolyInv, [PolyNext]_polyVars PROVE PolyInv' OBVIOUS
    <2>1. CASE Compute BY <2>1 DEF Compute, PolyInv
    <2>2. CASE Computed BY <2>2 DEF Computed, PolyInv, polyVars
    <2>3. CASE UNCHANGED polyVars BY <2>3 DEF PolyInv, polyVars
    <2> QED BY <2>1, <2>2, <2>3 DEF PolyNext
<1> QED BY <1>1, <1>2, PTL DEF PolySpec

(* For every field, every length poly_fft accepts, and all points: the FFT *)
(* of poly.c evaluates at the roots of unity, and poly_interp_evaluate is  *)
(* Lagrange interpolation through them.                                    *)
THEOREM TransformsExactHolds == PolySpec => []TransformsExact
<1>1. PolyInv => TransformsExact
    <2> SUFFICES ASSUME PolyInv, result # <<>>
                 PROVE  /\ \A j \in 1 .. Len(points) :
                              result.fft[j] = PolyValue(points, root(Len(points), j))
                        /\ result.interp = Lagrange(points, at)
        BY DEF TransformsExact, FFTIsEvaluation, InterpIsLagrange
    <2>1. PICK k \in 0 .. Generator2Order : points \in Elements(2 ^ k) BY DEF PolyInv
    <2>2. Len(points) = 2 ^ k
        <3>1. points \in [1 .. 2 ^ k -> Int] BY <2>1, FieldInt DEF Elements
        <3>2. 2 ^ k \in Nat BY StepIs, PowerStep
        <3> QED BY <3>1, <3>2, ArrayIs
    <2>3. /\ result.fft = poly_fft(points, FALSE)
          /\ result.interp = poly_interp_evaluate(points, at)
          /\ at \in Field
        <3>1. /\ at \in Field
              /\ result = [fft    |-> poly_fft(points, FALSE),
                           interp |-> poly_interp_evaluate(points, at)]
            BY DEF PolyInv
        <3> QED BY <3>1
    <2>4. result.interp = Lagrange(points, at) BY <2>1, <2>3, InterpolatesLagrange
    <2>5. \A j \in 1 .. 2 ^ k : poly_fft(points, FALSE)[j] = PolyValue(points, root(2 ^ k, j))
        BY <2>1, TransformsEvaluate
    <2> QED BY <2>2, <2>3, <2>4, <2>5
<1> QED BY <1>1, PolyInvAlways, PTL

-----------------------------------------------------------------------------
(* The bounds of a configuration *)

(* The bounds of an int are powers of two. *)
LEMMA IntBounds ==
    /\ 2 ^ (IntWidth - 1) \in Nat /\ 2 ^ (IntWidth - 1) > 0
    /\ 2 ^ IntWidth = 2 * 2 ^ (IntWidth - 1)
    /\ Int_w \subseteq Int
<1>1. IntWidth - 1 \in Nat /\ (IntWidth - 1) + 1 = IntWidth BY ConfigAssumption
<1>2. 2 ^ (IntWidth - 1) \in Nat /\ 2 ^ (IntWidth - 1) > 0 BY <1>1, PowerPositive
<1>3. 2 ^ IntWidth = 2 * 2 ^ (IntWidth - 1) BY <1>1, PowerStep
<1> QED BY <1>2, <1>3 DEF Int_w

(* A product that fits an int is computed exactly. *)
LEMMA ProductExact ==
    ASSUME NEW x \in Int, NEW y \in Int, x * y \in Int_w
    PROVE  int_mul(x, y) = x * y
<1> DEFINE h == 2 ^ (IntWidth - 1)
           z == x * y
           w == 2 ^ IntWidth
<1>1. h \in Nat /\ h > 0 /\ w = 2 * h BY IntBounds
<1>2. z \in -h .. h - 1 BY DEF Int_w
<1>3. int_mul(x, y) = ((z + h) % w) - h BY DEF int_mul
<1> HIDE DEF h, z, w
<1>4. z + h \in 0 .. w - 1 /\ w \in Nat /\ w > 0 BY <1>1, <1>2
<1>5. (z + h) % w = z + h BY <1>4
<1> QED BY <1>1, <1>2, <1>3, <1>5 DEF z

-----------------------------------------------------------------------------
(* What every accepted configuration satisfies, whichever call made it. *)
Accepted(c) == /\ c \in [ok : BOOLEAN, num_data_fields : Int]
               /\ c.ok => c.num_data_fields <= PrioConfig_maxDataFields

(* The object is the answer to the last request. *)
Answered ==
    /\ Accepted(cfg)
    /\ request.call = "new_uint" =>
        /\ request.n \in Int_w /\ request.prec \in Int_w
        /\ cfg = PrioConfig_new_uint(request.n, request.prec)

LEMMA NewAccepted ==
    ASSUME NEW n \in Int
    PROVE  Accepted(PrioConfig_new(n)) /\ Accepted(NoConfig)
    BY DEF Accepted, PrioConfig_new, NoConfig

(* The product is an int, whether it overflowed or not. *)
LEMMA NewUIntAccepted ==
    ASSUME NEW n \in Int, NEW prec \in Int
    PROVE  Accepted(PrioConfig_new_uint(n, prec))
<1> DEFINE h == 2 ^ (IntWidth - 1)
           w == 2 ^ IntWidth
           z == n * prec + h
<1>1. h \in Int /\ w \in Nat /\ w > 0 /\ z \in Int BY IntBounds
<1>2. int_mul(n, prec) = (z % w) - h BY DEF int_mul
<1> HIDE DEF h, w, z
<1>3. int_mul(n, prec) \in Int BY <1>1, <1>2
<1> QED BY <1>3, NewAccepted DEF PrioConfig_new_uint

LEMMA AnsweredAlways == ConfigSpec => []Answered
<1>1. ConfigInit => Answered
    <2>1. Accepted(NoConfig) BY NewAccepted
    <2> QED BY <2>1 DEF ConfigInit, Answered
<1>2. Answered /\ [ConfigNext]_configVars => Answered'
    <2> SUFFICES ASSUME Answered, [ConfigNext]_configVars PROVE Answered' OBVIOUS
    <2>1. CASE New
        <3>1. PICK n \in Int_w : /\ request' = [call |-> "new", n |-> n, prec |-> 0]
                                 /\ cfg' = PrioConfig_new(n)
            BY <2>1 DEF New
        <3>2. Accepted(cfg') BY <3>1, IntBounds, NewAccepted
        <3> QED BY <3>1, <3>2 DEF Answered, Accepted
    <2>2. CASE NewUInt
        <3>1. PICK n \in Int_w, prec \in Int_w :
                /\ request' = [call |-> "new_uint", n |-> n, prec |-> prec]
                /\ cfg' = PrioConfig_new_uint(n, prec)
            BY <2>2 DEF NewUInt
        <3>2. Accepted(cfg') BY <3>1, IntBounds, NewUIntAccepted
        <3> QED BY <3>1, <3>2 DEF Answered, Accepted
    <2>3. CASE Clear
        <3>1. Accepted(cfg') BY <2>3, NewAccepted DEF Clear
        <3> QED BY <2>3, <3>1 DEF Clear, Answered, Accepted
    <2>4. CASE UNCHANGED configVars
        BY <2>4 DEF configVars, Answered, Accepted
    <2> QED BY <2>1, <2>2, <2>3, <2>4 DEF ConfigNext
<1> QED BY <1>1, <1>2, PTL DEF ConfigSpec

(* Every transform that client.c and server.c run under an accepted        *)
(* configuration passes the length checks of poly_fft.                     *)
THEOREM TransformsFitHolds == ConfigSpec => []TransformsFit
<1>1. Answered => TransformsFit
    <2> SUFFICES ASSUME Answered, cfg.ok, cfg.num_data_fields >= 0
                 PROVE  LET bigN == next_power_of_two(cfg.num_data_fields + 1)
                        IN  /\ poly_fft_accepts(bigN) /\ poly_fft_accepts(2 * bigN)
                            /\ cfg.num_data_fields + 1 <= bigN
        BY DEF TransformsFit
    <2>1. cfg.num_data_fields \in Nat /\ cfg.num_data_fields <= PrioConfig_maxDataFields
        BY DEF Answered, Accepted
    <2> QED BY <2>1, LengthsAccepted
<1> QED BY <1>1, AnsweredAlways, PTL

(* Dividing by the precision is exact on what its multiples are, and a    *)
(* product is within the bound when the factor is within the quotient.     *)
LEMMA QuotientBound ==
    ASSUME NEW n \in Int, NEW p \in Nat, p > 0, NEW m \in Nat
    PROVE  /\ n * p <= m <=> n <= m \div p
           /\ (n * p) \div p = n
<1> DEFINE q == m \div p
           r == m % p
<1>1. q \in Int /\ r \in 0 .. p - 1 /\ m = p * q + r OBVIOUS
<1> HIDE DEF q, r
<1>2. ASSUME n <= q PROVE n * p <= m
    <2>1. n * p <= q * p BY <1>1, <1>2
    <2> QED BY <1>1, <2>1
<1>3. ASSUME n >= q + 1 PROVE n * p > m
    <2>1. n * p >= (q + 1) * p BY <1>1, <1>3
    <2>2. (q + 1) * p = p * q + p BY <1>1
    <2> QED BY <1>1, <2>1, <2>2
<1>4. (n * p) \div p = n OBVIOUS
<1> QED BY <1>1, <1>2, <1>3, <1>4 DEF q

(* PrioConfig_new_uint accepts exactly the numbers of integers up to       *)
(* PrioConfig_maxUIntEntries, and PrioConfig_numUIntEntries reads them     *)
(* back, while the number of bits fits an int.                             *)
THEOREM UIntBoundExactHolds == ConfigSpec => []UIntBoundExact
<1>1. Answered => UIntBoundExact
    <2> DEFINE n == request.n
               p == request.prec
               m == PrioConfig_maxDataFields
    <2> SUFFICES ASSUME Answered, request.call = "new_uint", PrecInRange(p),
                        n > 0, n * p \in Int_w
                 PROVE  /\ cfg.ok <=> n <= PrioConfig_maxUIntEntries(p)
                        /\ cfg.ok => PrioConfig_numUIntEntries(cfg, p) = n
        BY DEF UIntBoundExact
    <2>1. n \in Int /\ p \in Int /\ cfg = PrioConfig_new_uint(n, p)
        BY IntBounds DEF Answered
    <2>2. p \in Nat /\ p > 0 BY <2>1 DEF PrecInRange
    <2>3. int_mul(n, p) = n * p BY <2>1, ProductExact
    <2>4. cfg = PrioConfig_new(n * p) BY <2>1, <2>3 DEF PrioConfig_new_uint
    <2>5. m \in Nat /\ n_roots > 1 BY Roots
    <2> HIDE DEF n, p, m
    <2>6. (n * p <= m <=> n <= m \div p) /\ (n * p) \div p = n
        BY <2>1, <2>2, <2>5, QuotientBound
    <2>7. cfg.ok <=> n * p <= m BY <2>4, <2>5 DEF PrioConfig_new, NoConfig, m
    <2>8. PrioConfig_maxUIntEntries(p) = m \div p
        BY DEF PrioConfig_maxUIntEntries, m
    <2>9. ASSUME cfg.ok PROVE PrioConfig_numUIntEntries(cfg, p) = n
        <3>1. cfg.num_data_fields = n * p BY <2>4, <2>9 DEF PrioConfig_new, NoConfig
        <3>2. n * p >= 0 BY <2>1, <2>2
        <3> QED BY <2>6, <3>1, <3>2 DEF PrioConfig_numUIntEntries, int_div
    <2> QED BY <2>6, <2>7, <2>8, <2>9
<1> QED BY <1>1, AnsweredAlways, PTL
-----------------------------------------------------------------------------
(* Sums of integers (PrioUInt) *)

(* Field (u - 1) * prec + b is a data field. *)
LEMMA FieldOfBit ==
    /\ num_uints \in Nat /\ Prec \in Nat /\ Prec > 0 /\ NumFields \in Nat
    /\ \A u \in 1 .. num_uints, b \in 1 .. Prec : (u - 1) * Prec + b \in 1 .. NumFields
<1>1. Prec \in Nat /\ Prec > 0 /\ NumFields \in Nat
    BY UIntAssumption, NumFieldsAssumption
<1> DEFINE q == NumFields \div Prec
           r == NumFields % Prec
<1>2. q \in Nat /\ r \in 0 .. Prec - 1 /\ NumFields = Prec * q + r BY <1>1
<1>3. num_uints = q BY DEF num_uints
<1> HIDE DEF q, r
<1>4. ASSUME NEW u \in 1 .. q, NEW b \in 1 .. Prec
      PROVE  (u - 1) * Prec + b \in 1 .. NumFields
    <2>1. (u - 1) * Prec + Prec = u * Prec /\ (u - 1) * Prec \in Nat BY <1>1, <1>2
    <2>2. u * Prec <= q * Prec
        <3>1. u \in Nat /\ u <= q BY <1>2
        <3>2. (q - u) * Prec \in Nat /\ q - u \in Nat BY <1>1, <1>2, <3>1
        <3>3. q * Prec = u * Prec + (q - u) * Prec BY <1>1, <1>2, <3>1
        <3>4. u * Prec \in Nat BY <1>1, <3>1
        <3> QED BY <3>2, <3>3, <3>4
    <2> DEFINE x == (u - 1) * Prec
               y == u * Prec
               z == q * Prec
    <2>3. NumFields = z + r /\ z \in Nat BY <1>1, <1>2
    <2>4. y \in Nat /\ x \in Nat /\ x + Prec = y /\ y <= z BY <1>1, <2>1, <2>2
    <2> HIDE DEF x, y, z
    <2>5. x + b \in 1 .. NumFields BY <1>1, <1>2, <2>3, <2>4
    <2> QED BY <2>5 DEF x
<1> QED BY <1>1, <1>2, <1>3, <1>4

(* The summands of weighed. *)
Weights(d, u) == [i \in Nat |-> IF i < Prec THEN d[(u - 1) * Prec + (i + 1)] * 2 ^ (Prec - (i + 1)) ELSE 0]

LEMMA WeightsAre ==
    ASSUME NEW d \in Ints(NumFields), NEW u \in 1 .. num_uints
    PROVE  /\ Weights(d, u) \in Terms
           /\ \A b \in 1 .. Prec :
                /\ b - 1 \in Nat /\ d[(u - 1) * Prec + b] \in Int /\ 2 ^ (Prec - b) \in Nat
                /\ Weights(d, u)[b - 1] = d[(u - 1) * Prec + b] * 2 ^ (Prec - b)
<1>1. ASSUME NEW i \in Nat, i < Prec
      PROVE  /\ d[(u - 1) * Prec + (i + 1)] \in Int /\ 2 ^ (Prec - (i + 1)) \in Nat
             /\ d[(u - 1) * Prec + (i + 1)] * 2 ^ (Prec - (i + 1)) \in Int
    <2>1. i + 1 \in 1 .. Prec /\ Prec - (i + 1) \in Nat BY <1>1, FieldOfBit
    <2>2. (u - 1) * Prec + (i + 1) \in 1 .. NumFields BY <2>1, FieldOfBit
    <2>3. 2 ^ (Prec - (i + 1)) \in Nat BY <2>1, PowerStep
    <2> DEFINE f == (u - 1) * Prec + (i + 1)
               w == 2 ^ (Prec - (i + 1))
    <2>4. f \in 1 .. NumFields /\ w \in Nat BY <2>2, <2>3
    <2> HIDE DEF f, w
    <2>5. d[f] \in Int /\ d[f] * w \in Int BY <2>4 DEF Ints
    <2> QED BY <2>3, <2>5 DEF f, w
<1>2. Weights(d, u) \in Terms BY <1>1 DEF Weights, Terms
<1>3. ASSUME NEW b \in 1 .. Prec
      PROVE  /\ b - 1 \in Nat /\ d[(u - 1) * Prec + b] \in Int /\ 2 ^ (Prec - b) \in Nat
             /\ Weights(d, u)[b - 1] = d[(u - 1) * Prec + b] * 2 ^ (Prec - b)
    <2>1. b - 1 \in Nat /\ b - 1 < Prec /\ (b - 1) + 1 = b BY FieldOfBit
    <2>2. Weights(d, u)[b - 1] = d[(u - 1) * Prec + b] * 2 ^ (Prec - b) BY <2>1 DEF Weights
    <2> QED BY <1>1, <2>1, <2>2
<1> QED BY <1>2, <1>3

(* weighed computes the sum, reduced. *)
LEMMA WeighedIs ==
    ASSUME NEW d \in Ints(NumFields), NEW u \in 1 .. num_uints
    PROVE  /\ Sigma(Weights(d, u), Prec) \in Int
           /\ weighed(d, u) = Sigma(Weights(d, u), Prec) % Modulus
           /\ weighed(d, u) \in Field
<1> DEFINE w == Weights(d, u)
           D(b) == d[(u - 1) * Prec + b]
           Body(h) == [b \in 0 .. Prec |->
                          IF b = 0 THEN 0 ELSE addmod(h[b - 1], D(b) * 2 ^ (Prec - b))]
           S == CHOOSE h : h = Body(h)
           e == [b \in 0 .. Prec |-> Sigma(w, b) % Modulus]
<1>1. w \in Terms BY WeightsAre
<1>2. \A b \in 1 .. Prec : /\ b - 1 \in Nat /\ D(b) * 2 ^ (Prec - b) \in Int
                           /\ w[b - 1] = D(b) * 2 ^ (Prec - b)
    <2> SUFFICES ASSUME NEW b \in 1 .. Prec
                 PROVE  /\ b - 1 \in Nat /\ D(b) * 2 ^ (Prec - b) \in Int
                        /\ w[b - 1] = D(b) * 2 ^ (Prec - b)
        OBVIOUS
    <2>1. b - 1 \in Nat /\ w[b - 1] = D(b) * 2 ^ (Prec - b) BY WeightsAre
    <2>2. w[b - 1] \in Int BY <1>1, <2>1 DEF Terms
    <2> QED BY <2>1, <2>2
<1>3. weighed(d, u) = S[Prec] BY DEF weighed
<1> HIDE DEF w, D
<1>4. \A b \in Nat : Sigma(w, b) \in Int BY <1>1, SigmaStep
<1>5. ASSUME NEW b \in 1 .. Prec
      PROVE  Sigma(w, b) % Modulus = addmod(Sigma(w, b - 1) % Modulus, D(b) * 2 ^ (Prec - b))
    <2> DEFINE s == Sigma(w, b - 1)
               x == D(b) * 2 ^ (Prec - b)
               m == s % Modulus
    <2>1. b - 1 \in Nat /\ (b - 1) + 1 = b /\ x \in Int /\ w[b - 1] = x BY <1>2
    <2>2. Sigma(w, b) = s + x /\ s \in Int BY <1>1, <2>1, SigmaStep
    <2> HIDE DEF s, x
    <2>3. m \in Int /\ Cong(m, s) BY <2>2, CongMod
    <2> HIDE DEF m
    <2>4. Cong(m + x, s + x) /\ m + x \in Int /\ s + x \in Int
        BY <2>1, <2>2, <2>3, CongRefl, CongAdd
    <2>5. (m + x) % Modulus = (s + x) % Modulus BY <2>4, CongEq
    <2>6. addmod(m, x) = (m + x) % Modulus BY DEF addmod
    <2> QED BY <2>2, <2>5, <2>6 DEF s, x, m
<1>6. e = Body(e)
    <2>1. ASSUME NEW b \in 0 .. Prec
          PROVE  e[b] = IF b = 0 THEN 0 ELSE addmod(e[b - 1], D(b) * 2 ^ (Prec - b))
        <3>1. CASE b = 0
            <4>1. Sigma(w, 0) = 0 /\ 0 % Modulus = 0 BY <1>1, SigmaStep, ModulusAssumption
            <4> QED BY <3>1, <4>1
        <3>2. CASE b # 0
            <4>1. b \in 1 .. Prec /\ b - 1 \in 0 .. Prec BY <3>2, FieldOfBit
            <4>2. e[b - 1] = Sigma(w, b - 1) % Modulus /\ e[b] = Sigma(w, b) % Modulus BY <4>1
            <4> HIDE DEF e
            <4> QED BY <1>5, <3>2, <4>1, <4>2
        <3> QED BY <3>1, <3>2
    <2> QED BY <2>1
<1>7. S = Body(S) BY <1>6
<1> HIDE DEF S
<1> DEFINE P == {b \in Nat : b <= Prec => S[b] = Sigma(w, b) % Modulus}
<1>8. 0 \in P
    <2>1. Sigma(w, 0) = 0 /\ 0 % Modulus = 0 BY <1>1, SigmaStep, ModulusAssumption
    <2>2. 0 \in 0 .. Prec BY FieldOfBit
    <2>3. S[0] = 0 BY <1>7, <2>2
    <2> QED BY <2>1, <2>3
<1>9. ASSUME NEW b \in Nat, b \in P PROVE b + 1 \in P
    <2> SUFFICES ASSUME b + 1 <= Prec PROVE S[b + 1] = Sigma(w, b + 1) % Modulus OBVIOUS
    <2>1. b + 1 \in 1 .. Prec /\ b + 1 \in 0 .. Prec /\ b + 1 # 0 /\ (b + 1) - 1 = b /\ b <= Prec
        BY FieldOfBit
    <2>2. S[b + 1] = addmod(S[b], D(b + 1) * 2 ^ (Prec - (b + 1))) BY <1>7, <2>1
    <2>3. S[b] = Sigma(w, b) % Modulus BY <1>9, <2>1
    <2>4. Sigma(w, b + 1) % Modulus
            = addmod(Sigma(w, (b + 1) - 1) % Modulus, D(b + 1) * 2 ^ (Prec - (b + 1)))
        BY <1>5, <2>1
    <2> QED BY <2>1, <2>2, <2>3, <2>4
<1> HIDE DEF P
<1>10. Prec \in Nat BY FieldOfBit
<1>11. Prec \in P BY <1>8, <1>9, <1>10, NatInduct
<1>12. weighed(d, u) = Sigma(w, Prec) % Modulus BY <1>3, <1>11 DEF P
<1>13. Sigma(w, Prec) \in Int BY <1>4, <1>10
<1>14. weighed(d, u) \in Field BY <1>12, <1>13, DivMod
<1> QED BY <1>12, <1>13, <1>14 DEF w

(* Weighing the sum of two arrays gives the sum of both weighed. *)
LEMMA WeighedAdds ==
    ASSUME NEW d \in Ints(NumFields), NEW e \in Ints(NumFields), NEW g \in Ints(NumFields),
           \A f \in 1 .. NumFields : Cong(d[f], e[f] + g[f]),
           NEW u \in 1 .. num_uints
    PROVE  Cong(weighed(d, u), weighed(e, u) + weighed(g, u))
<1> DEFINE x == Weights(d, u)
           y == Weights(e, u)
           z == Weights(g, u)
           s == [i \in Nat |-> 1 * y[i] + 1 * z[i]]
<1>1. x \in Terms /\ y \in Terms /\ z \in Terms BY WeightsAre
<1>2. Prec \in Nat BY FieldOfBit
<1>3. ASSUME NEW i \in 0 .. Prec - 1 PROVE Cong(x[i], 1 * y[i] + 1 * z[i])
    <2> DEFINE b == i + 1
               f == (u - 1) * Prec + b
               w == 2 ^ (Prec - b)
    <2>1. b \in 1 .. Prec /\ b - 1 = i BY <1>2
    <2> HIDE DEF b
    <2>2. f \in 1 .. NumFields BY <2>1, FieldOfBit
    <2>3. x[i] = d[f] * w /\ y[i] = e[f] * w /\ z[i] = g[f] * w /\ w \in Nat
          /\ d[f] \in Int /\ e[f] \in Int /\ g[f] \in Int
        <3>1. x[b - 1] = d[f] * w /\ w \in Nat /\ d[f] \in Int BY <2>1, WeightsAre
        <3>2. y[b - 1] = e[f] * w /\ e[f] \in Int BY <2>1, WeightsAre
        <3>3. z[b - 1] = g[f] * w /\ g[f] \in Int BY <2>1, WeightsAre
        <3> QED BY <2>1, <3>1, <3>2, <3>3
    <2>4. Cong(d[f], e[f] + g[f]) BY <2>2
    <2> HIDE DEF f, w, x, y, z
    <2>5. e[f] + g[f] \in Int /\ w \in Int BY <2>3
    <2>6. Cong(d[f] * w, (e[f] + g[f]) * w) BY <2>3, <2>4, <2>5, CongScale
    <2>7. (e[f] + g[f]) * w = 1 * (e[f] * w) + 1 * (g[f] * w) BY <2>3
    <2> QED BY <2>3, <2>6, <2>7
<1> HIDE DEF x, y, z
<1>4. s \in Terms
    <2>1. ASSUME NEW i \in Nat PROVE 1 * y[i] + 1 * z[i] \in Int BY <1>1 DEF Terms
    <2> QED BY <2>1 DEF Terms
<1>5. \A i \in 0 .. Prec - 1 : s[i] = 1 * y[i] + 1 * z[i] BY <1>2
<1>6. \A i \in 0 .. Prec - 1 : Cong(x[i], s[i]) BY <1>3, <1>5
<1> HIDE DEF s
<1> DEFINE X == Sigma(x, Prec)
           Y == Sigma(y, Prec)
           Z == Sigma(z, Prec)
<1>7. Cong(X, Sigma(s, Prec)) BY <1>1, <1>2, <1>4, <1>6, SigmaCong
<1>8. Sigma(s, Prec) = 1 * Y + 1 * Z BY <1>1, <1>2, <1>4, <1>5, SigmaLinear
<1>9. X \in Int /\ weighed(d, u) = X % Modulus /\ weighed(d, u) \in Int
    BY WeighedIs, FieldInt DEF x
<1>10. Y \in Int /\ weighed(e, u) = Y % Modulus /\ weighed(e, u) \in Int
    BY WeighedIs, FieldInt DEF y
<1>11. Z \in Int /\ weighed(g, u) = Z % Modulus /\ weighed(g, u) \in Int
    BY WeighedIs, FieldInt DEF z
<1> DEFINE p == weighed(d, u)
           q == weighed(e, u)
           r == weighed(g, u)
<1>12. Cong(p, X) /\ Cong(q, Y) /\ Cong(r, Z) BY <1>9, <1>10, <1>11, CongMod
<1>13. p \in Int /\ q \in Int /\ r \in Int BY <1>9, <1>10, <1>11
<1> HIDE DEF X, Y, Z, p, q, r
<1>14. 1 * Y + 1 * Z = Y + Z /\ Y + Z \in Int /\ q + r \in Int BY <1>10, <1>11, <1>13
<1>15. Cong(X, Y + Z) BY <1>7, <1>8, <1>14
<1>16. Cong(q + r, Y + Z) BY <1>10, <1>11, <1>12, <1>13, CongAdd
<1>17. Cong(Y + Z, q + r) BY <1>14, <1>16, CongSym
<1>18. Cong(p, Y + Z) BY <1>9, <1>12, <1>13, <1>14, <1>15, CongTrans
<1>19. Cong(p, q + r) BY <1>13, <1>14, <1>17, <1>18, CongTrans
<1> QED BY <1>19 DEF p, q, r

(* The quotient by a power of two has the quotient by the next one and one *)
(* bit more.                                                               *)
LEMMA HalfQuotient ==
    ASSUME NEW x \in Nat, NEW w \in Nat, w > 0
    PROVE  /\ x \div w \in Nat /\ (x \div w) % 2 \in 0 .. 1
           /\ x \div w = 2 * (x \div (2 * w)) + ((x \div w) % 2)
<1> DEFINE q == x \div w
           r == x % w
           p == q \div 2
           b == q % 2
<1>1. q \in Nat /\ r \in 0 .. w - 1 /\ x = w * q + r OBVIOUS
<1>2. p \in Nat /\ b \in 0 .. 1 /\ q = 2 * p + b BY <1>1
<1> HIDE DEF q, r, p, b
<1> DEFINE t == b * w + r
           v == 2 * w
<1>3. t \in 0 .. v - 1
    <2>1. CASE b = 0
        <3>1. b * w = 0 BY <2>1
        <3> QED BY <1>1, <3>1
    <2>2. CASE b = 1
        <3>1. b * w = w BY <2>2
        <3> QED BY <1>1, <3>1
    <2> QED BY <1>2, <2>1, <2>2
<1>4. x = v * p + t
    <2>1. w * (2 * p + b) = (2 * w) * p + b * w BY <1>2
    <2> QED BY <1>1, <1>2, <2>1
<1>5. v \in Nat /\ v > 0 OBVIOUS
<1> HIDE DEF t, v
<1>6. x \div v = p
    <2> DEFINE k == x \div v
               l == x % v
    <2>1. k \in Nat /\ l \in 0 .. v - 1 /\ x = v * k + l BY <1>5
    <2> HIDE DEF k, l
    <2>2. v * (k - p) = t - l
        <3>1. v * (k - p) = v * k - v * p /\ v * k \in Int /\ v * p \in Int BY <1>2, <1>5, <2>1
        <3> QED BY <1>3, <1>4, <2>1, <3>1
    <2>3. t - l < v /\ t - l > -v BY <1>3, <1>5, <2>1
    <2>4. CASE k - p >= 1
        <3>1. v * (k - p) >= v BY <1>2, <1>5, <2>1, <2>4
        <3> QED BY <1>3, <1>5, <2>1, <2>2, <2>3, <3>1
    <2>5. CASE k - p <= -1
        <3>1. v * (k - p) <= -v BY <1>2, <1>5, <2>1, <2>5
        <3> QED BY <1>3, <1>5, <2>1, <2>2, <2>3, <3>1
    <2> QED BY <1>2, <2>1, <2>4, <2>5 DEF k
<1> QED BY <1>1, <1>2, <1>6 DEF q, b, v

(* The bits of an integer, weighed, are the integer. *)
LEMMA BitsWeigh ==
    ASSUME NEW d \in Ints(NumFields), NEW u \in 1 .. num_uints, NEW x \in Int,
           long_to_bool(x).ok,
           \A b \in 1 .. Prec : d[(u - 1) * Prec + b] = long_to_bool(x).bits[b]
    PROVE  weighed(d, u) = x % Modulus
<1> DEFINE w == Weights(d, u)
           Q(b) == x \div 2 ^ (Prec - b)
           W(b) == 2 ^ (Prec - b)
<1>1. Prec \in Nat /\ w \in Terms BY FieldOfBit, WeightsAre
<1>2. x \in Nat /\ x < 2 ^ Prec
    <2> DEFINE y == 2 ^ Prec
    <2>1. y \in Nat BY <1>1, PowerStep
    <2>2. x <= y - 1 /\ 0 <= x BY DEF long_to_bool
    <2> HIDE DEF y
    <2>3. x \in Nat /\ x < y BY <2>1, <2>2
    <2> QED BY <2>3 DEF y
<1>3. ASSUME NEW b \in 1 .. Prec
      PROVE  /\ b - 1 \in Nat /\ w[b - 1] = (Q(b) % 2) * W(b)
             /\ Q(b) = 2 * Q(b - 1) + (Q(b) % 2) /\ W(b - 1) = 2 * W(b)
             /\ Q(b) \in Nat /\ Q(b - 1) \in Nat /\ W(b) \in Nat /\ Q(b) % 2 \in 0 .. 1
    <2>1. b - 1 \in Nat /\ w[b - 1] = d[(u - 1) * Prec + b] * W(b) BY WeightsAre
    <2>2. d[(u - 1) * Prec + b] = Q(b) % 2 BY DEF long_to_bool
    <2>3. Prec - b \in Nat /\ Prec - (b - 1) = (Prec - b) + 1 BY <1>1
    <2>4. W(b) \in Nat /\ W(b) > 0 /\ W(b - 1) = 2 * W(b) BY <2>3, PowerStep, PowerPositive
    <2> HIDE DEF W
    <2>5. /\ x \div W(b) \in Nat /\ (x \div W(b)) % 2 \in 0 .. 1
          /\ x \div W(b) = 2 * (x \div (2 * W(b))) + ((x \div W(b)) % 2)
        BY <1>2, <2>4, HalfQuotient
    <2>6. Q(b) = x \div W(b) /\ Q(b - 1) = x \div (2 * W(b)) BY <2>4 DEF W
    <2>7. 2 * W(b) \in Nat /\ 2 * W(b) > 0 BY <2>4
    <2>8. x \div (2 * W(b)) \in Nat BY <1>2, <2>7
    <2> HIDE DEF Q, w
    <2> QED BY <2>1, <2>2, <2>4, <2>5, <2>6, <2>8
<1> HIDE DEF w
<1> DEFINE P == {b \in Nat : b <= Prec => Sigma(w, b) = Q(b) * W(b)}
<1>4. 0 \in P
    <2>1. Sigma(w, 0) = 0 BY <1>1, SigmaStep
    <2>2. Prec - 0 = Prec /\ 2 ^ Prec \in Nat /\ 2 ^ Prec > 0 BY <1>1, PowerStep, PowerPositive
    <2> DEFINE y == 2 ^ Prec
    <2>3. y \in Nat /\ x < y BY <1>2, <2>2
    <2> HIDE DEF y
    <2>4. x \div y = 0 BY <1>2, <2>3
    <2>5. Q(0) = 0 /\ W(0) \in Nat BY <2>2, <2>4 DEF y
    <2> HIDE DEF Q, W
    <2>6. Q(0) * W(0) = 0 BY <2>5
    <2> QED BY <2>1, <2>6
<1> HIDE DEF Q, W, P
<1>5. ASSUME NEW b \in Nat, b \in P PROVE b + 1 \in P
    <2> SUFFICES ASSUME b + 1 <= Prec PROVE Sigma(w, b + 1) = Q(b + 1) * W(b + 1)
        BY DEF P
    <2>1. b + 1 \in 1 .. Prec /\ (b + 1) - 1 = b BY <1>1
    <2> DEFINE p == Q(b)
               q == Q(b + 1)
               c == Q(b + 1) % 2
               v == W(b + 1)
    <2>2. /\ w[b] = c * v /\ q = 2 * p + c /\ W(b) = 2 * v
          /\ q \in Nat /\ p \in Nat /\ v \in Nat /\ c \in 0 .. 1
        <3>1. /\ w[(b + 1) - 1] = c * v /\ q = 2 * Q((b + 1) - 1) + c /\ W((b + 1) - 1) = 2 * v
              /\ q \in Nat /\ Q((b + 1) - 1) \in Nat /\ v \in Nat /\ c \in 0 .. 1
            BY <1>3, <2>1
        <3> HIDE DEF q, c, v
        <3> QED BY <2>1, <3>1
    <2>3. Sigma(w, b + 1) = Sigma(w, b) + w[b] BY <1>1, SigmaStep
    <2>4. Sigma(w, b) = p * W(b)
        <3>1. b <= Prec BY <1>1
        <3> HIDE DEF p
        <3>2. Sigma(w, b) = Q(b) * W(b) BY <1>5, <3>1 DEF P
        <3> QED BY <3>2 DEF p
    <2> HIDE DEF p, q, c, v
    <2>5. p * (2 * v) + c * v = (2 * p + c) * v BY <2>2
    <2> QED BY <2>2, <2>3, <2>4, <2>5 DEF q, v
<1>6. Prec \in P BY <1>1, <1>4, <1>5, NatInduct
<1>7. Sigma(w, Prec) = x
    <2>1. Prec - Prec = 0 /\ 2 ^ 0 = 1 /\ x \div 1 = x BY <1>1, <1>2
    <2>2. Q(Prec) = x /\ W(Prec) = 1 BY <2>1 DEF Q, W
    <2> QED BY <1>1, <1>2, <1>6, <2>2 DEF P
<1> QED BY <1>7, WeighedIs DEF w

(* The integer and the bit of a data field. *)
LEMMA BitOfField ==
    ASSUME NEW u \in Nat, u > 0, NEW b \in 1 .. Prec
    PROVE  /\ ((((u - 1) * Prec + b) - 1) \div Prec) + 1 = u
           /\ ((((u - 1) * Prec + b) - 1) % Prec) + 1 = b
<1>1. Prec \in Nat /\ Prec > 0 BY FieldOfBit
<1> DEFINE z == ((u - 1) * Prec + b) - 1
           q == z \div Prec
           r == z % Prec
           p == u - 1
           s == b - 1
<1>2. p \in Nat /\ s \in 0 .. Prec - 1 BY <1>1
<1>3. z = Prec * p + s /\ z \in Nat
    <2>1. (u - 1) * Prec = Prec * p /\ Prec * p \in Nat BY <1>1, <1>2
    <2> QED BY <1>1, <1>2, <2>1
<1> HIDE DEF z, p, s
<1>4. q \in Int /\ r \in 0 .. Prec - 1 /\ z = Prec * q + r BY <1>1, <1>3
<1> HIDE DEF q, r
<1>5. Prec * (q - p) = s - r
    <2>1. Prec * (q - p) = Prec * q - Prec * p /\ Prec * q \in Int /\ Prec * p \in Int
        BY <1>1, <1>2, <1>4
    <2> QED BY <1>2, <1>3, <1>4, <2>1
<1>6. q = p
    <2>1. CASE q - p >= 1
        <3>1. Prec * (q - p) >= Prec BY <1>1, <1>2, <1>4, <2>1
        <3> QED BY <1>1, <1>2, <1>4, <1>5, <3>1
    <2>2. CASE q - p <= -1
        <3>1. Prec * (q - p) <= -Prec BY <1>1, <1>2, <1>4, <2>2
        <3> QED BY <1>1, <1>2, <1>4, <1>5, <3>1
    <2> QED BY <1>2, <1>4, <2>1, <2>2
<1>7. r = s
    <2>1. Prec * (q - p) = 0 BY <1>1, <1>2, <1>6
    <2> QED BY <1>2, <1>4, <1>5, <2>1
<1> QED BY <1>1, <1>6, <1>7 DEF q, r, z, p, s

(* What is encoded weighs as much as the integers. *)
LEMMA EncodedWeighs ==
    ASSUME NEW xs \in [1 .. num_uints -> Int], PrioClient_encode_uint(xs).rv # "failure"
    PROVE  /\ PrioClient_encode_uint(xs).bits \in Ints(NumFields)
           /\ \A u \in 1 .. num_uints :
                xs[u] \in Nat /\ weighed(PrioClient_encode_uint(xs).bits, u) = xs[u] % Modulus
<1> DEFINE bits == PrioClient_encode_uint(xs).bits
           B == [f \in 1 .. NumFields |->
                   long_to_bool(xs[((f - 1) \div Prec) + 1]).bits[((f - 1) % Prec) + 1]]
<1>1. NumFields = Prec * num_uints /\ \A i \in 1 .. num_uints : long_to_bool(xs[i]).ok
    BY DEF PrioClient_encode_uint
<1>2. bits = <<>> \o B BY <1>1 DEF PrioClient_encode_uint, Array
<1>3. Prec \in Nat /\ Prec > 0 /\ num_uints \in Nat /\ NumFields \in Nat BY FieldOfBit
<1>4. ASSUME NEW x \in Int, long_to_bool(x).ok, NEW b \in 1 .. Prec
      PROVE  x \in Nat /\ long_to_bool(x).bits[b] \in Int
    <2>1. 2 ^ (Prec - b) \in Nat /\ 2 ^ (Prec - b) > 0
        <3>1. Prec - b \in Nat BY <1>3
        <3> QED BY <3>1, PowerStep, PowerPositive
    <2>2. 0 <= x BY <1>4 DEF long_to_bool
    <2> DEFINE w == 2 ^ (Prec - b)
    <2>3. long_to_bool(x).bits[b] = (x \div w) % 2 BY DEF long_to_bool
    <2>4. w \in Nat /\ w > 0 BY <2>1
    <2> HIDE DEF w
    <2>5. (x \div w) % 2 \in Int BY <2>2, <2>4
    <2> QED BY <2>2, <2>3, <2>5
<1>5. ASSUME NEW f \in 1 .. NumFields
      PROVE  ((f - 1) \div Prec) + 1 \in 1 .. num_uints /\ ((f - 1) % Prec) + 1 \in 1 .. Prec
    <2> DEFINE q == (f - 1) \div Prec
               r == (f - 1) % Prec
    <2>1. q \in Nat /\ r \in 0 .. Prec - 1 /\ f - 1 = Prec * q + r BY <1>3
    <2> HIDE DEF q, r
    <2>2. q < num_uints
        <3> SUFFICES ASSUME q >= num_uints PROVE FALSE BY <1>3, <2>1
        <3>1. Prec * q >= Prec * num_uints BY <1>3, <2>1
        <3>2. Prec * q \in Nat BY <1>3, <2>1
        <3> QED BY <1>1, <1>3, <2>1, <3>1, <3>2
    <2>3. q + 1 \in 1 .. num_uints /\ r + 1 \in 1 .. Prec BY <1>3, <2>1, <2>2
    <2> QED BY <2>3 DEF q, r
<1>6. B \in [1 .. NumFields -> Int]
    <2>1. ASSUME NEW f \in 1 .. NumFields PROVE B[f] \in Int
        <3> DEFINE u == ((f - 1) \div Prec) + 1
                   b == ((f - 1) % Prec) + 1
        <3>1. u \in 1 .. num_uints /\ b \in 1 .. Prec BY <1>5
        <3>2. B[f] = long_to_bool(xs[u]).bits[b] OBVIOUS
        <3> HIDE DEF u, b, B
        <3>3. xs[u] \in Int /\ long_to_bool(xs[u]).ok BY <1>1, <3>1
        <3> QED BY <1>4, <3>1, <3>2, <3>3
    <2> QED BY <2>1
<1>7. bits = B BY <1>2, <1>3, <1>6, ArrayIs
<1>8. ASSUME NEW u \in 1 .. num_uints
      PROVE  xs[u] \in Nat /\ weighed(B, u) = xs[u] % Modulus
    <2>1. xs[u] \in Int /\ long_to_bool(xs[u]).ok BY <1>1
    <2>2. ASSUME NEW b \in 1 .. Prec
          PROVE  B[(u - 1) * Prec + b] = long_to_bool(xs[u]).bits[b]
        <3> DEFINE f == (u - 1) * Prec + b
        <3>1. f \in 1 .. NumFields BY FieldOfBit
        <3>2. u \in Nat /\ u > 0 BY <1>3
        <3>3. ((f - 1) \div Prec) + 1 = u /\ ((f - 1) % Prec) + 1 = b BY <3>2, BitOfField
        <3> HIDE DEF f
        <3>4. B[f] = long_to_bool(xs[u]).bits[b] BY <3>1, <3>3
        <3> QED BY <3>4 DEF f
    <2>3. xs[u] \in Nat
        <3>1. 1 \in 1 .. Prec BY <1>3
        <3> QED BY <1>4, <2>1, <3>1
    <2> HIDE DEF B
    <2> QED BY <1>6, <2>1, <2>2, <2>3, BitsWeigh DEF Ints
<1> HIDE DEF B
<1> QED BY <1>6, <1>7, <1>8 DEF Ints

-----------------------------------------------------------------------------
(* The shares of the servers, weighed, add up to the sums so far; the      *)
(* total shares are those of the present data until the caller goes on.    *)
UIntInv ==
    /\ pc \in {"collect", "totals"} /\ clients \in 0 .. MaxClients
    /\ truth \in [1 .. num_uints -> Nat]
    /\ dataA \in [1 .. NumFields -> Field] /\ dataB \in [1 .. NumFields -> Field]
    /\ \A u \in 1 .. num_uints : Cong(weighed(dataA, u) + weighed(dataB, u), truth[u])
    /\ pc = "totals" =>
        /\ tA = PrioTotalShare_set_data_uint(PRIO_SERVER_A, dataA)
        /\ tB = PrioTotalShare_set_data_uint(PRIO_SERVER_B, dataB)
    /\ SumsExact

(* The first total: no integers, all counts zero. *)
LEMMA ZeroWeighs ==
    ASSUME NEW u \in 1 .. num_uints
    PROVE  /\ MPArray_new(NumFields) \in [1 .. NumFields -> Field]
           /\ Cong(weighed(MPArray_new(NumFields), u) + weighed(MPArray_new(NumFields), u), 0)
<1> DEFINE z == MPArray_new(NumFields)
           w == weighed(z, u)
<1>1. 0 \in Field BY ModulusAssumption DEF Field
<1>2. z \in [1 .. NumFields -> Field] /\ \A f \in 1 .. NumFields : z[f] = 0
    BY <1>1 DEF MPArray_new
<1> HIDE DEF z
<1>3. z \in Ints(NumFields) BY <1>2, FieldInt DEF Ints
<1>4. \A f \in 1 .. NumFields : Cong(z[f], z[f] + z[f])
    <2>1. Cong(0, 0) BY CongRefl
    <2> QED BY <1>2, <2>1
<1>5. Cong(w, w + w) BY <1>3, <1>4, WeighedAdds
<1>6. w \in Int BY <1>3, WeighedIs, FieldInt
<1> HIDE DEF w
<1>7. PICK k \in Int : w = (w + w) + Modulus * k BY <1>5 DEF Cong
<1>8. w + w = 0 + Modulus * (-(k + k))
    <2>1. Modulus * (-(k + k)) = -(Modulus * k) - (Modulus * k) /\ Modulus * k \in Int
        BY ModulusAssumption
    <2> QED BY <1>6, <1>7, <2>1
<1>9. Cong(w + w, 0) BY <1>8 DEF Cong
<1> QED BY <1>2, <1>9 DEF z, w

LEMMA UIntInit == Init => UIntInv
<1> SUFFICES ASSUME Init PROVE UIntInv OBVIOUS
<1>1. /\ pc = "collect" /\ clients = 0 /\ truth = Zeros
      /\ dataA = MPArray_new(NumFields) /\ dataB = MPArray_new(NumFields)
      /\ final.rv = "none"
    BY DEF Init
<1>2. truth \in [1 .. num_uints -> Nat] /\ \A u \in 1 .. num_uints : truth[u] = 0
    BY <1>1 DEF Zeros
<1>3. \A u \in 1 .. num_uints : Cong(weighed(dataA, u) + weighed(dataB, u), truth[u])
    BY <1>1, <1>2, ZeroWeighs
<1>4. dataA \in [1 .. NumFields -> Field] /\ dataB \in [1 .. NumFields -> Field]
    <2>1. 0 \in Field BY ModulusAssumption DEF Field
    <2> QED BY <1>1, <2>1 DEF MPArray_new
<1>5. clients \in 0 .. MaxClients BY <1>1, UIntAssumption
<1>6. SumsExact BY <1>1 DEF SumsExact
<1> QED BY <1>1, <1>2, <1>3, <1>4, <1>5, <1>6 DEF UIntInv

LEMMA FourInts ==
    \A p, q, r, s \in Int : /\ p + r \in Int /\ q + s \in Int /\ r + s \in Int /\ p + q \in Int
                           /\ (p + r) + (q + s) = (p + q) + (r + s)
                           /\ (p + r) + (q + s) \in Int
OBVIOUS

(* One client: x is added to both sides of the congruence. *)
LEMMA SubmitSums ==
    ASSUME UIntInv, NEW xs \in [1 .. num_uints -> Int], NEW r \in [1 .. NumFields -> Field],
           PrioClient_encode_uint(xs).rv # "failure",
           NEW m, m = [f \in 1 .. NumFields |->
                          submod(PrioClient_encode_uint(xs).bits[f], r[f])],
           NEW a, a = MPArray_addmod(dataA, m),
           NEW b, b = MPArray_addmod(dataB, r)
    PROVE  /\ <<>> \o m = m
           /\ a \in [1 .. NumFields -> Field] /\ b \in [1 .. NumFields -> Field]
           /\ \A u \in 1 .. num_uints :
                /\ truth[u] + xs[u] \in Nat
                /\ Cong(weighed(a, u) + weighed(b, u), truth[u] + xs[u])
<1> DEFINE bits == PrioClient_encode_uint(xs).bits
<1>1. bits \in Ints(NumFields) /\ NumFields \in Nat BY EncodedWeighs, FieldOfBit
<1>2. ASSUME NEW u \in 1 .. num_uints
      PROVE  xs[u] \in Nat /\ weighed(bits, u) = xs[u] % Modulus
    BY EncodedWeighs
<1>3. m = [f \in 1 .. NumFields |-> submod(bits[f], r[f])] OBVIOUS
<1>4. dataA \in [1 .. NumFields -> Field] /\ dataB \in [1 .. NumFields -> Field] BY DEF UIntInv
<1> HIDE DEF bits
<1>5. ASSUME NEW f \in 1 .. NumFields
      PROVE  m[f] \in Field /\ Cong(bits[f], m[f] + r[f])
    <2> DEFINE x == bits[f]
               y == r[f]
               z == submod(x, y)
    <2>1. x \in Int /\ y \in Int BY <1>1, FieldInt DEF Ints
    <2>2. z \in Field /\ z \in Int /\ Cong(z, x - y) BY <2>1, OpsCong, FieldInt
    <2>3. m[f] = z BY <1>3
    <2> HIDE DEF x, y, z
    <2>4. Cong(z + y, (x - y) + y)
        <3>1. x - y \in Int BY <2>1
        <3> QED BY <2>1, <2>2, <3>1, CongRefl, CongAdd
    <2>5. (x - y) + y = x /\ z + y \in Int BY <2>1, <2>2
    <2>6. Cong(x, z + y) BY <2>1, <2>4, <2>5, CongSym
    <2> QED BY <2>2, <2>3, <2>6 DEF x, y
<1>6. m \in [1 .. NumFields -> Field] BY <1>3, <1>5
<1>7. <<>> \o m = m BY <1>1, <1>6, FieldInt, ArrayIs
<1>8. a = MPArray_addmod(dataA, m) OBVIOUS
<1>9. a \in [1 .. NumFields -> Field] /\ b \in [1 .. NumFields -> Field]
    <2>1. NumFields \in Nat BY <1>1
    <2> QED BY <1>4, <1>6, <1>8, <2>1, ArrayAdds
<1>10. /\ \A f \in 1 .. NumFields : Cong(a[f], dataA[f] + m[f])
       /\ \A f \in 1 .. NumFields : Cong(b[f], dataB[f] + r[f])
    <2>1. ASSUME NEW x \in [1 .. NumFields -> Field], NEW y \in [1 .. NumFields -> Field],
                 NEW f \in 1 .. NumFields
          PROVE  Cong(MPArray_addmod(x, y)[f], x[f] + y[f])
        <3>1. x[f] \in Int /\ y[f] \in Int BY FieldInt
        <3>2. MPArray_addmod(x, y)[f] = addmod(x[f], y[f]) BY DEF MPArray_addmod
        <3> QED BY <3>1, <3>2, OpsCong
    <2> QED BY <1>4, <1>6, <1>8, <2>1
<1>11. /\ a \in Ints(NumFields) /\ b \in Ints(NumFields) /\ m \in Ints(NumFields)
       /\ r \in Ints(NumFields) /\ dataA \in Ints(NumFields) /\ dataB \in Ints(NumFields)
    <2>1. \A x \in [1 .. NumFields -> Field] : x \in Ints(NumFields) BY FieldInt DEF Ints
    <2> QED BY <1>4, <1>6, <1>9, <2>1
<1>12. ASSUME NEW u \in 1 .. num_uints
       PROVE  /\ truth[u] + xs[u] \in Nat
              /\ Cong(weighed(a, u) + weighed(b, u), truth[u] + xs[u])
    <2> DEFINE wa == weighed(dataA, u)
               wb == weighed(dataB, u)
               wm == weighed(m, u)
               wr == weighed(r, u)
               wx == weighed(bits, u)
               na == weighed(a, u)
               nb == weighed(b, u)
               t  == truth[u]
               x  == xs[u]
    <2>1. /\ wa \in Int /\ wb \in Int /\ wm \in Int /\ wr \in Int /\ wx \in Int
          /\ na \in Int /\ nb \in Int
        BY <1>1, <1>11, WeighedIs, FieldInt
    <2>2. t \in Nat /\ Cong(wa + wb, t) BY DEF UIntInv
    <2>3. x \in Nat BY <1>2
    <2>4. Cong(wx, x)
        <3>1. wx = x % Modulus BY <1>2
        <3> QED BY <2>3, <3>1, CongMod
    <2>5. Cong(na, wa + wm) BY <1>10, <1>11, WeighedAdds
    <2>6. Cong(nb, wb + wr) BY <1>10, <1>11, WeighedAdds
    <2>7. Cong(wx, wm + wr) BY <1>1, <1>5, <1>11, WeighedAdds
    <2> HIDE DEF wa, wb, wm, wr, wx, na, nb, t, x
    <2>8. /\ wa + wm \in Int /\ wb + wr \in Int /\ wm + wr \in Int /\ wa + wb \in Int
          /\ na + nb \in Int /\ t + x \in Nat
          /\ (wa + wm) + (wb + wr) = (wa + wb) + (wm + wr)
          /\ (wa + wm) + (wb + wr) \in Int
        <3>1. /\ wa \in Int /\ wb \in Int /\ wm \in Int /\ wr \in Int
              /\ na \in Int /\ nb \in Int /\ t \in Nat /\ x \in Nat
            BY <2>1, <2>2, <2>3
        <3>2. na + nb \in Int /\ t + x \in Nat BY <3>1
        <3> QED BY <3>1, <3>2, FourInts
    <2>9. Cong(na + nb, (wa + wm) + (wb + wr)) BY <2>1, <2>5, <2>6, <2>8, CongAdd
    <2>10. Cong(wm + wr, x)
        <3>1. Cong(wm + wr, wx) BY <2>1, <2>7, <2>8, CongSym
        <3>2. wm + wr \in Int /\ wx \in Int /\ x \in Int BY <2>1, <2>3, <2>8
        <3> QED BY <2>4, <3>1, <3>2, CongTrans
    <2>11. Cong((wa + wb) + (wm + wr), t + x) BY <2>2, <2>3, <2>8, <2>10, CongAdd
    <2>12. Cong(na + nb, (wa + wb) + (wm + wr)) BY <2>8, <2>9
    <2>13. Cong(na + nb, t + x) BY <2>8, <2>11, <2>12, CongTrans
    <2> QED BY <2>8, <2>13 DEF na, nb, t, x
<1> QED BY <1>7, <1>9, <1>12

(* The total shares: one reduced element for each integer. *)
LEMMA TotalIs ==
    ASSUME NEW d \in [1 .. NumFields -> Field], NEW idx
    PROVE  LET t == PrioTotalShare_set_data_uint(idx, d)
           IN  /\ t.idx = idx /\ Len(t.data_shares) = num_uints
               /\ DOMAIN t.data_shares = 1 .. num_uints
               /\ \A u \in 1 .. num_uints :
                    t.data_shares[u] = weighed(d, u) /\ t.data_shares[u] \in Field
<1> DEFINE t == PrioTotalShare_set_data_uint(idx, d)
           w == [u \in 1 .. num_uints |-> weighed(d, u)]
<1>1. t.idx = idx /\ t.data_shares = <<>> \o w BY DEF PrioTotalShare_set_data_uint, Array
<1>2. d \in Ints(NumFields) /\ num_uints \in Nat BY FieldInt, FieldOfBit DEF Ints
<1>3. \A u \in 1 .. num_uints : w[u] = weighed(d, u) /\ w[u] \in Field BY <1>2, WeighedIs
<1>4. w \in [1 .. num_uints -> Int] BY <1>3, FieldInt
<1>5. <<>> \o w = w /\ Len(w) = num_uints BY <1>2, <1>4, ArrayIs
<1> HIDE DEF w, t
<1>6. t.data_shares = w BY <1>1, <1>5
<1> QED BY <1>1, <1>3, <1>4, <1>5, <1>6 DEF t

(* PrioTotalShare_final_uint on the total shares of the servers. *)
LEMMA FinalIs ==
    ASSUME UIntInv, pc = "totals", NEW output,
           \A u \in 1 .. num_uints : truth[u] < Modulus
    PROVE  LET f == PrioTotalShare_final_uint(output, tA, tB)
           IN  /\ f.rv = "success" => f.output = truth
               /\ f.rv = "failure" <=> \E u \in 1 .. num_uints : truth[u] >= DigitBound
<1> DEFINE a == tA.data_shares
           b == tB.data_shares
           sum == MPArray_addmod(a, b)
           f == PrioTotalShare_final_uint(output, tA, tB)
<1>1. /\ tA = PrioTotalShare_set_data_uint(PRIO_SERVER_A, dataA)
      /\ tB = PrioTotalShare_set_data_uint(PRIO_SERVER_B, dataB)
      /\ dataA \in [1 .. NumFields -> Field] /\ dataB \in [1 .. NumFields -> Field]
      /\ truth \in [1 .. num_uints -> Nat]
    BY DEF UIntInv
<1>2. /\ tA.idx = PRIO_SERVER_A /\ Len(a) = num_uints /\ DOMAIN a = 1 .. num_uints
      /\ \A u \in 1 .. num_uints : a[u] = weighed(dataA, u) /\ a[u] \in Field
    BY <1>1, TotalIs
<1>3. /\ tB.idx = PRIO_SERVER_B /\ Len(b) = num_uints
      /\ \A u \in 1 .. num_uints : b[u] = weighed(dataB, u) /\ b[u] \in Field
    BY <1>1, TotalIs
<1>4. ASSUME NEW u \in 1 .. num_uints PROVE sum[u] = truth[u]
    <2>1. sum[u] = addmod(a[u], b[u]) BY <1>2 DEF MPArray_addmod
    <2> DEFINE x == a[u]
               y == b[u]
               t == truth[u]
    <2>2. x \in Int /\ y \in Int BY <1>2, <1>3, FieldInt
    <2>3. Cong(x + y, t) /\ t \in Nat /\ t < Modulus BY <1>2, <1>3 DEF UIntInv
    <2> HIDE DEF x, y, t
    <2>4. (x + y) % Modulus = t % Modulus
        <3>1. x + y \in Int /\ t \in Int BY <2>2, <2>3
        <3> QED BY <2>3, <3>1, CongEq
    <2>5. t % Modulus = t BY <2>3, ModulusAssumption
    <2>6. addmod(x, y) = t BY <2>4, <2>5 DEF addmod
    <2> QED BY <2>1, <2>6 DEF x, y, t
<1> DEFINE fits(i) == \A j \in 1 .. i : sum[j] < DigitBound
<1>5. f = [rv     |-> IF fits(num_uints) THEN "success" ELSE "failure",
           output |-> [i \in 1 .. num_uints |-> IF fits(i) THEN sum[i] ELSE output[i]]]
    BY <1>2, <1>3 DEF PrioTotalShare_final_uint
<1> HIDE DEF f, sum
<1>6. num_uints \in Nat BY FieldOfBit
<1>7. fits(num_uints) => \A i \in 1 .. num_uints : fits(i)
    <2> SUFFICES ASSUME fits(num_uints), NEW i \in 1 .. num_uints PROVE fits(i) OBVIOUS
    <2>1. \A j \in 1 .. i : j \in 1 .. num_uints BY <1>6
    <2> QED BY <2>1
<1>8. fits(num_uints) <=> ~ \E u \in 1 .. num_uints : truth[u] >= DigitBound
    <2>1. DigitBound \in Nat /\ \A u \in 1 .. num_uints : truth[u] \in Nat
        BY <1>1, UIntAssumption
    <2> QED BY <1>4, <2>1
<1> HIDE DEF fits
<1>9. f.rv = "success" => f.output = truth
    <2> SUFFICES ASSUME f.rv = "success" PROVE f.output = truth OBVIOUS
    <2>1. fits(num_uints) BY <1>5
    <2>2. \A i \in 1 .. num_uints : fits(i) BY <1>7, <2>1
    <2>3. f.output = [i \in 1 .. num_uints |-> sum[i]] BY <1>5, <2>2
    <2> QED BY <1>1, <1>4, <2>3
<1>10. f.rv = "failure" <=> ~fits(num_uints) BY <1>5
<1> QED BY <1>8, <1>9, <1>10 DEF f

LEMMA SubmitInv ==
    ASSUME UIntInv, Submit
    PROVE  UIntInv'
<1>1. PICK xs \in [1 .. num_uints -> Inputs] :
        LET enc == PrioClient_encode_uint(xs)
            r   == Mask[clients + 1]
        IN  IF enc.rv = "failure" THEN UNCHANGED <<truth, dataA, dataB>>
            ELSE /\ truth' = [i \in 1 .. num_uints |-> truth[i] + xs[i]]
                 /\ dataA' = MPArray_addmod(dataA, Array(NumFields, LAMBDA f :
                                                submod(enc.bits[f], r[f])))
                 /\ dataB' = MPArray_addmod(dataB, r)
    BY DEF Submit
<1>2. /\ pc = "collect" /\ pc' = "collect" /\ clients' = clients + 1 /\ clients < MaxClients
      /\ final' = final /\ tA' = tA /\ tB' = tB
    BY DEF Submit
<1>3. clients + 1 \in 1 .. MaxClients /\ clients' \in 0 .. MaxClients
    BY <1>2, UIntAssumption DEF UIntInv
<1>4. SumsExact' BY <1>2 DEF UIntInv, SumsExact
<1>5. CASE PrioClient_encode_uint(xs).rv = "failure"
    <2>1. truth' = truth /\ dataA' = dataA /\ dataB' = dataB BY <1>1, <1>5
    <2> QED BY <1>2, <1>3, <1>4, <2>1 DEF UIntInv
<1>6. CASE PrioClient_encode_uint(xs).rv # "failure"
    <2> DEFINE r == Mask[clients + 1]
               bits == PrioClient_encode_uint(xs).bits
               m == [f \in 1 .. NumFields |-> submod(bits[f], r[f])]
               a == MPArray_addmod(dataA, m)
               b == MPArray_addmod(dataB, r)
    <2>1. xs \in [1 .. num_uints -> Int] /\ r \in [1 .. NumFields -> Field]
        BY <1>3, UIntAssumption
    <2>2. /\ truth' = [i \in 1 .. num_uints |-> truth[i] + xs[i]]
          /\ dataA' = MPArray_addmod(dataA, <<>> \o m) /\ dataB' = b
        BY <1>1, <1>6 DEF Array
    <2>3. /\ <<>> \o m = m
          /\ a \in [1 .. NumFields -> Field] /\ b \in [1 .. NumFields -> Field]
          /\ \A u \in 1 .. num_uints :
               /\ truth[u] + xs[u] \in Nat
               /\ Cong(weighed(a, u) + weighed(b, u), truth[u] + xs[u])
        <3> HIDE DEF r
        <3> QED BY <1>6, <2>1, SubmitSums
    <2> HIDE DEF m, b, r
    <2>4. dataA' = a BY <2>2, <2>3
    <2> HIDE DEF a
    <2>5. truth' \in [1 .. num_uints -> Nat] BY <2>2, <2>3
    <2>6. \A u \in 1 .. num_uints : Cong(weighed(dataA', u) + weighed(dataB', u), truth'[u])
        BY <2>2, <2>3, <2>4
    <2> QED BY <1>2, <1>3, <1>4, <2>2, <2>3, <2>4, <2>5, <2>6 DEF UIntInv
<1> QED BY <1>5, <1>6

LEMMA FinalInv ==
    ASSUME UIntInv, Final
    PROVE  UIntInv'
<1>1. /\ pc = "totals" /\ pc' = "collect"
      /\ final' = IF sent = "failure" THEN [final EXCEPT !.rv = "none"]
                  ELSE LET res == PrioTotalShare_final_uint(final.output, tA, tB)
                       IN  [rv |-> res.rv, output |-> res.output, sums |-> truth]
      /\ clients' = clients /\ truth' = truth /\ dataA' = dataA /\ dataB' = dataB
    BY DEF Final
<1>2. SumsExact'
    <2>1. CASE sent = "failure"
        <3>1. final'.rv = "none" BY <1>1, <2>1
        <3> QED BY <3>1 DEF SumsExact
    <2>2. CASE sent # "failure"
        <3> DEFINE f == PrioTotalShare_final_uint(final.output, tA, tB)
        <3>1. final' = [rv |-> f.rv, output |-> f.output, sums |-> truth] BY <1>1, <2>2
        <3>2. /\ (\A u \in 1 .. num_uints : truth[u] < Modulus) =>
                   /\ f.rv = "success" => f.output = truth
                   /\ f.rv = "failure" <=> \E u \in 1 .. num_uints : truth[u] >= DigitBound
            BY <1>1, FinalIs
        <3> HIDE DEF f
        <3> QED BY <3>1, <3>2 DEF SumsExact
    <2> QED BY <2>1, <2>2
<1> QED BY <1>1, <1>2 DEF UIntInv

(* Whatever integers the clients submit and however often the totals are   *)
(* taken, PrioTotalShare_final_uint returns the sums of the integers that  *)
(* PrioClient_encode_uint encoded, and fails exactly when one needs more   *)
(* than a digit.                                                           *)
THEOREM SumsExactHolds == Spec => []SumsExact
<1>1. UIntInv /\ [Next]_vars => UIntInv'
    <2> SUFFICES ASSUME UIntInv, [Next]_vars PROVE UIntInv' OBVIOUS
    <2>1. CASE Submit BY <2>1, SubmitInv
    <2>2. CASE SetTotals BY <2>2 DEF SetTotals, UIntInv, SumsExact
    <2>3. CASE HandOver BY <2>3 DEF HandOver, UIntInv, SumsExact
    <2>4. CASE SendTotal BY <2>4 DEF SendTotal, UIntInv, SumsExact
    <2>5. CASE Final BY <2>5, FinalInv
    <2>6. CASE UNCHANGED vars BY <2>6 DEF vars, UIntInv, SumsExact
    <2> QED BY <2>1, <2>2, <2>3, <2>4, <2>5, <2>6 DEF Next
<1>2. UIntInv => SumsExact BY DEF UIntInv
<1> QED BY <1>1, <1>2, UIntInit, PTL DEF Spec

=============================================================================
