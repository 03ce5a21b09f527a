--------------------------- MODULE PrioSnipProofs ---------------------------
(***************************************************************************)
(* Theorems about what a submission is made of and checked with, for every *)
(* modulus, every generator of roots of unity and every length.            *)
(*                                                                         *)
(* What the second round of the exchange computes: the reconstructed       *)
(* output is f(r)g(r) - h(r).  The argument is carried out in the          *)
(* congruence modulo Modulus: each reduced operation is congruent to the   *)
(* integer operation, and the integer identity is                          *)
(* (d + a)(e + b) = de + db + ea + ab.                                     *)
(*                                                                         *)
(* The polynomials of prio/poly.c: what next_power_of_two computes, which  *)
(* lengths poly_fft accepts, that the recursion of fft_recurse evaluates a *)
(* polynomial at the roots of unity, that the inverse transform and        *)
(* Horner's rule are what they should be, and what compute_shares of       *)
(* prio/server.c makes of a submission.                                    *)
(***************************************************************************)
EXTENDS PrioSnip, NumberProofs

-----------------------------------------------------------------------------
(* Congruence *)

Cong(x, y) == \E k \in Int : x = y + Modulus * k

(* Integer division by the modulus. *)
LEMMA DivMod ==
    ASSUME NEW x \in Int
    PROVE  /\ x \div Modulus \in Int
           /\ x % Modulus \in Field
           /\ x = Modulus * (x \div Modulus) + (x % Modulus)
<1>1. x \div Modulus \in Int /\ x % Modulus \in Field
    BY ModulusAssumption DEF Field
<1>2. x = Modulus * (x \div Modulus) + (x % Modulus)
    BY ModulusAssumption
<1> QED BY <1>1, <1>2

(* A value is congruent to its residue. *)
LEMMA CongMod ==
    ASSUME NEW x \in Int
    PROVE  x % Modulus \in Int /\ Cong(x % Modulus, x)
<1>1. x \div Modulus \in Int /\ x % Modulus \in Int
    BY DivMod, ModulusAssumption DEF Field
<1>2. x % Modulus = x + Modulus * (-(x \div Modulus))
    BY DivMod, <1>1, ModulusAssumption
<1> QED BY <1>1, <1>2 DEF Cong

(* A multiple of the modulus smaller than it is zero. *)
LEMMA SmallMultiple ==
    ASSUME NEW z \in Int, Modulus * z < Modulus, Modulus * z > -Modulus
    PROVE  z = 0
<1>1. CASE z >= 1
    <2>1. Modulus * z >= Modulus BY <1>1, ModulusAssumption
    <2> QED BY <2>1, ModulusAssumption
<1>2. CASE z <= -1
    <2>1. Modulus * z <= -Modulus BY <1>2, ModulusAssumption
    <2> QED BY <2>1, ModulusAssumption
<1> QED BY <1>1, <1>2

(* Congruent values have the same residue. *)
LEMMA CongEq ==
    ASSUME NEW x \in Int, NEW y \in Int, Cong(x, y)
    PROVE  x % Modulus = y % Modulus
<1>1. PICK k \in Int : x = y + Modulus * k BY DEF Cong
<1> DEFINE qx == x \div Modulus
           qy == y \div Modulus
           rx == x % Modulus
           ry == y % Modulus
<1>2. qx \in Int /\ rx \in Field /\ x = Modulus * qx + rx BY DivMod
<1>3. qy \in Int /\ ry \in Field /\ y = Modulus * qy + ry BY DivMod
<1> HIDE DEF qx, qy, rx, ry
<1>4. rx - ry = Modulus * (qy + k - qx)
    BY <1>1, <1>2, <1>3, ModulusAssumption DEF Field
<1>5. rx - ry < Modulus /\ rx - ry > -Modulus
    BY <1>2, <1>3, ModulusAssumption DEF Field
<1>6. qy + k - qx = 0
    BY <1>2, <1>3, <1>4, <1>5, SmallMultiple
<1>7. rx = ry BY <1>2, <1>3, <1>4, <1>6, ModulusAssumption DEF Field
<1> QED BY <1>7 DEF rx, ry

(* Congruence is reflexive, *)
LEMMA CongRefl ==
    ASSUME NEW x \in Int
    PROVE  Cong(x, x)
<1>1. x = x + Modulus * 0 BY ModulusAssumption
<1> QED BY <1>1 DEF Cong

(* symmetric, *)
LEMMA CongSym ==
    ASSUME NEW x \in Int, NEW y \in Int, Cong(x, y)
    PROVE  Cong(y, x)
<1>1. PICK k \in Int : x = y + Modulus * k BY DEF Cong
<1>2. y = x + Modulus * (-k) BY <1>1, ModulusAssumption
<1> QED BY <1>2 DEF Cong

(* and transitive. *)
LEMMA CongTrans ==
    ASSUME NEW x \in Int, NEW y \in Int, NEW z \in Int, Cong(x, y), Cong(y, z)
    PROVE  Cong(x, z)
<1>1. PICK k \in Int : x = y + Modulus * k BY DEF Cong
<1>2. PICK l \in Int : y = z + Modulus * l BY DEF Cong
<1>3. x = z + Modulus * (k + l) BY <1>1, <1>2, ModulusAssumption
<1> QED BY <1>3 DEF Cong

(* Sums and differences of congruent values are congruent, *)
LEMMA CongAdd ==
    ASSUME NEW x \in Int, NEW y \in Int, NEW u \in Int, NEW v \in Int,
           Cong(x, y), Cong(u, v)
    PROVE  Cong(x + u, y + v) /\ Cong(x - u, y - v)
<1>1. PICK k \in Int : x = y + Modulus * k BY DEF Cong
<1>2. PICK l \in Int : u = v + Modulus * l BY DEF Cong
<1>3. x + u = (y + v) + Modulus * (k + l) BY <1>1, <1>2, ModulusAssumption
<1>4. x - u = (y - v) + Modulus * (k - l) BY <1>1, <1>2, ModulusAssumption
<1> QED BY <1>3, <1>4 DEF Cong

(* and so are products. *)
LEMMA CongMul ==
    ASSUME NEW x \in Int, NEW y \in Int, NEW u \in Int, NEW v \in Int,
           Cong(x, y), Cong(u, v)
    PROVE  Cong(x * u, y * v)
<1>1. PICK k \in Int : x = y + Modulus * k BY DEF Cong
<1>2. PICK l \in Int : u = v + Modulus * l BY DEF Cong
<1> DEFINE m == y * l + k * v + Modulus * k * l
<1>3. m \in Int BY ModulusAssumption
<1>4. x * u = (y + Modulus * k) * (v + Modulus * l) BY <1>1, <1>2
<1>5. (y + Modulus * k) * (v + Modulus * l) = y * v + Modulus * m BY ModulusAssumption
<1> QED BY <1>3, <1>4, <1>5 DEF Cong

-----------------------------------------------------------------------------
(* The reduced operations stay in the field and are congruent to the       *)
(* integer ones.                                                           *)
LEMMA OpsCong ==
    ASSUME NEW x \in Int, NEW y \in Int
    PROVE  /\ addmod(x, y) \in Field /\ Cong(addmod(x, y), x + y)
           /\ submod(x, y) \in Field /\ Cong(submod(x, y), x - y)
           /\ mulmod(x, y) \in Field /\ Cong(mulmod(x, y), x * y)
<1>1. x + y \in Int /\ x - y \in Int /\ x * y \in Int
    OBVIOUS
<1>2. (x + y) % Modulus \in Field /\ (x - y) % Modulus \in Field /\ (x * y) % Modulus \in Field
    BY <1>1, DivMod
<1>3. Cong((x + y) % Modulus, x + y) /\ Cong((x - y) % Modulus, x - y)
      /\ Cong((x * y) % Modulus, x * y)
    BY <1>1, CongMod
<1> QED BY <1>2, <1>3 DEF addmod, submod, mulmod

(* Field elements are integers. *)
LEMMA FieldInt == Field \subseteq Int
    BY DEF Field

(* The inverse of two that PrioConfig_new computes. *)
LEMMA Inv2 == inv2 \in Field /\ Cong(2 * inv2, 1)
<1> DEFINE h == (Modulus + 1) \div 2
<1>1. h \in Field /\ 2 * h = Modulus + 1
    BY ModulusAssumption DEF Field
<1>2. (Modulus + 1) % Modulus = 1 % Modulus
    BY ModulusAssumption
<1>3. mulmod(2, h) = 1 % Modulus
    BY <1>1, <1>2 DEF mulmod
<1>4. inv2 \in Field /\ mulmod(2, inv2) = 1 % Modulus
    BY <1>1, <1>3 DEF inv2, invmod
<1>5. inv2 \in Int /\ 2 \in Int BY <1>4, FieldInt
<1>6. Cong(mulmod(2, inv2), 2 * inv2) /\ mulmod(2, inv2) \in Int
    BY <1>5, OpsCong, FieldInt, Zenon
<1>7. Cong(1 % Modulus, 1) BY CongMod
<1>8. Cong(2 * inv2, mulmod(2, inv2)) BY <1>5, <1>6, CongSym
<1>9. Cong(2 * inv2, 1) BY <1>4, <1>5, <1>6, <1>7, <1>8, CongTrans
<1> QED BY <1>4, <1>9

(* The operations applied to representatives. *)
LEMMA OpsCong2 ==
    ASSUME NEW x \in Int, NEW y \in Int, NEW u \in Int, NEW v \in Int,
           Cong(x, u), Cong(y, v)
    PROVE  /\ addmod(x, y) \in Int /\ Cong(addmod(x, y), u + v)
           /\ submod(x, y) \in Int /\ Cong(submod(x, y), u - v)
           /\ mulmod(x, y) \in Int /\ Cong(mulmod(x, y), u * v)
<1>1. /\ addmod(x, y) \in Int /\ Cong(addmod(x, y), x + y)
      /\ submod(x, y) \in Int /\ Cong(submod(x, y), x - y)
      /\ mulmod(x, y) \in Int /\ Cong(mulmod(x, y), x * y)
    BY OpsCong, FieldInt, Zenon
<1>2. Cong(x + y, u + v) /\ Cong(x - y, u - v) /\ Cong(x * y, u * v)
    BY CongAdd, CongMul, Zenon
<1>3. /\ x + y \in Int /\ u + v \in Int /\ x - y \in Int /\ u - v \in Int
      /\ x * y \in Int /\ u * v \in Int
    OBVIOUS
<1> QED BY <1>1, <1>2, <1>3, CongTrans, Zenon

(* The chain of operations of PrioPacketVerify2_set_data. *)
LEMMA Verify2Arith ==
    ASSUME NEW D \in Int, NEW E \in Int, NEW w \in Int,
           NEW a \in Int, NEW b \in Int, NEW c \in Int, NEW h \in Int
    PROVE  LET out == submod(addmod(addmod(addmod(mulmod(mulmod(D, E), w), mulmod(D, b)),
                                           mulmod(E, a)), c), h)
           IN  /\ out \in Field
               /\ Cong(out, (D * E) * w + D * b + E * a + c - h)
<1> DEFINE m0 == mulmod(D, E)
           m1 == mulmod(m0, w)
           m2 == mulmod(D, b)
           m3 == mulmod(E, a)
           t2 == addmod(m1, m2)
           t3 == addmod(t2, m3)
           t4 == addmod(t3, c)
           i1 == (D * E) * w
           i2 == D * b
           i3 == E * a
<1>0. /\ Cong(D, D) /\ Cong(E, E) /\ Cong(w, w)
      /\ Cong(a, a) /\ Cong(b, b) /\ Cong(c, c) /\ Cong(h, h)
    BY CongRefl
<1>1. D * E \in Int /\ i1 \in Int /\ i2 \in Int /\ i3 \in Int
    OBVIOUS
<1>2. m0 \in Int /\ Cong(m0, D * E) BY <1>0, OpsCong2, Zenon
<1>3. m1 \in Int /\ Cong(m1, i1) BY <1>0, <1>1, <1>2, OpsCong2, Zenon
<1>4. m2 \in Int /\ Cong(m2, i2) BY <1>0, OpsCong2, Zenon
<1>5. m3 \in Int /\ Cong(m3, i3) BY <1>0, OpsCong2, Zenon
<1> HIDE DEF m0, m1, m2, m3, i1, i2, i3
<1>6. t2 \in Int /\ Cong(t2, i1 + i2) BY <1>1, <1>3, <1>4, OpsCong2, Zenon
<1>7. i1 + i2 \in Int /\ i1 + i2 + i3 \in Int /\ i1 + i2 + i3 + c \in Int BY <1>1
<1>8. t3 \in Int /\ Cong(t3, i1 + i2 + i3) BY <1>1, <1>5, <1>6, <1>7, OpsCong2, Zenon
<1>9. t4 \in Int /\ Cong(t4, i1 + i2 + i3 + c) BY <1>0, <1>7, <1>8, OpsCong2, Zenon
<1> DEFINE i4 == i1 + i2 + i3 + c
<1>10. i4 \in Int /\ Cong(t4, i4) BY <1>7, <1>9
<1> HIDE DEF t4, i4
<1>11. submod(t4, h) \in Field BY <1>9, OpsCong, Zenon
<1>12. Cong(submod(t4, h), i4 - h) BY <1>0, <1>9, <1>10, OpsCong2, Zenon
<1> QED BY <1>11, <1>12 DEF t4, i4, m0, m1, m2, m3, i1, i2, i3

SharesType == [fR : Field, gR : Field, hR : Field]
TripleType == [a : Field, b : Field, c : Field]

(* The first packet: [d] = [f(r)] - [a], [e] = [g(r)] - [b]. *)
LEMMA Verify1Cong ==
    ASSUME NEW sh \in SharesType, NEW t \in TripleType
    PROVE  LET p == PrioPacketVerify1_set_data(sh, t)
           IN  /\ p \in [d : Field, e : Field]
               /\ Cong(p.d, sh.fR - t.a) /\ Cong(p.e, sh.gR - t.b)
<1>1. sh.fR \in Int /\ sh.gR \in Int /\ t.a \in Int /\ t.b \in Int
    BY FieldInt DEF SharesType, TripleType
<1> QED BY <1>1, OpsCong DEF PrioPacketVerify1_set_data

(* The second packet, for any first packets. *)
LEMMA Verify2Cong ==
    ASSUME NEW sh \in SharesType, NEW t \in TripleType,
           NEW p \in [d : Field, e : Field], NEW q \in [d : Field, e : Field]
    PROVE  LET D   == addmod(p.d, q.d)
               E   == addmod(p.e, q.e)
               out == PrioPacketVerify2_set_data(sh, t, p, q)
           IN  /\ out \in Field
               /\ Cong(out, (D * E) * inv2 + D * t.b + E * t.a + t.c - sh.hR)
<1>1. t.a \in Int /\ t.b \in Int /\ t.c \in Int /\ sh.hR \in Int
    BY FieldInt DEF SharesType, TripleType
<1>2. p.d \in Int /\ p.e \in Int /\ q.d \in Int /\ q.e \in Int BY FieldInt
<1>3. addmod(p.d, q.d) \in Int /\ addmod(p.e, q.e) \in Int BY <1>2, OpsCong, FieldInt
<1>4. inv2 \in Int BY Inv2, FieldInt
<1> QED BY <1>1, <1>3, <1>4, Verify2Arith, Zenon DEF PrioPacketVerify2_set_data

(* The integer identity behind the check. *)
LEMMA BeaverProduct ==
    ASSUME NEW D \in Int, NEW E \in Int, NEW a \in Int, NEW b \in Int
    PROVE  (D + a) * (E + b) = D * E + D * b + E * a + a * b
    OBVIOUS

(* Congruences modulo the modulus are enough for it: 2w = 1 and c = ab.    *)
LEMMA BeaverCong ==
    ASSUME NEW D \in Int, NEW E \in Int, NEW w \in Int, NEW a \in Int, NEW b \in Int,
           NEW c \in Int, NEW h \in Int, Cong(2 * w, 1), Cong(c, a * b)
    PROVE  Cong((2 * w) * (D * E) + D * b + E * a + c - h, (D + a) * (E + b) - h)
<1>1. PICK k \in Int : 2 * w = 1 + Modulus * k BY DEF Cong
<1>2. PICK l \in Int : c = a * b + Modulus * l BY DEF Cong
<1> DEFINE z == D * E
<1>3. z \in Int /\ a * b \in Int /\ D * b \in Int /\ E * a \in Int /\ k * z \in Int OBVIOUS
<1>4. (2 * w) * z = z + Modulus * (k * z)
    <2>1. (2 * w) * z = (1 + Modulus * k) * z BY <1>1
    <2>2. (1 + Modulus * k) * z = z + Modulus * (k * z) BY <1>3, ModulusAssumption
    <2> QED BY <2>1, <2>2
<1>5. (D + a) * (E + b) = z + D * b + E * a + a * b BY BeaverProduct
<1> HIDE DEF z
<1>6. (2 * w) * z + D * b + E * a + c - h
        = ((D + a) * (E + b) - h) + (Modulus * (k * z) + Modulus * l)
    BY <1>2, <1>3, <1>4, <1>5, ModulusAssumption
<1>7. Modulus * (k * z) + Modulus * l = Modulus * (k * z + l)
    BY <1>3, ModulusAssumption
<1>8. k * z + l \in Int BY <1>3
<1> QED BY <1>6, <1>7, <1>8 DEF Cong, z

(* Adding arrays of field elements gives one. *)
LEMMA ArrayAdds ==
    ASSUME NEW n \in Nat, NEW a \in [1 .. n -> Field], NEW x \in [1 .. n -> Field]
    PROVE  MPArray_addmod(a, x) \in [1 .. n -> Field]
<1>1. ASSUME NEW i \in 1 .. n PROVE addmod(a[i], x[i]) \in Field
    <2>1. a[i] \in Int /\ x[i] \in Int BY FieldInt
    <2> QED BY <2>1, OpsCong
<1> QED BY <1>1 DEF MPArray_addmod

(* Field elements are equal when they are congruent. *)
LEMMA FieldCongEq ==
    ASSUME NEW x \in Field, NEW y \in Field
    PROVE  x = y <=> Cong(x, y)
<1>1. x \in Int /\ y \in Int /\ x % Modulus = x /\ y % Modulus = y
    BY ModulusAssumption DEF Field
<1>2. Cong(x, x) BY <1>1, CongRefl
<1>3. Cong(x, y) => x % Modulus = y % Modulus BY <1>1, CongEq
<1> QED BY <1>1, <1>2, <1>3

(* u is congruent to x y - z: u is zero in the field just when x y = z.    *)
LEMMA CongDifference ==
    ASSUME NEW u \in Int, NEW v \in Int, NEW z \in Int, Cong(u, v - z)
    PROVE  Cong(u, 0) <=> Cong(v, z)
<1>1. PICK k \in Int : u = (v - z) + Modulus * k BY DEF Cong
<1>2. ASSUME Cong(u, 0) PROVE Cong(v, z)
    <2>1. PICK l \in Int : u = 0 + Modulus * l BY <1>2 DEF Cong
    <2>2. v = z + Modulus * (l - k) BY <1>1, <2>1, ModulusAssumption
    <2> QED BY <2>2 DEF Cong
<1>3. ASSUME Cong(v, z) PROVE Cong(u, 0)
    <2>1. PICK l \in Int : v = z + Modulus * l BY <1>3 DEF Cong
    <2>2. u = 0 + Modulus * (l + k) BY <1>1, <2>1, ModulusAssumption
    <2> QED BY <2>2 DEF Cong
<1> QED BY <1>2, <1>3

(* The masked value D opens to f - a, so D + a is f. *)
LEMMA Unmask ==
    ASSUME NEW dA \in Int, NEW dB \in Int, NEW fA \in Int, NEW fB \in Int,
           NEW aA \in Int, NEW aB \in Int, Cong(dA, fA - aA), Cong(dB, fB - aB)
    PROVE  /\ addmod(dA, dB) \in Int
           /\ Cong(addmod(dA, dB) + (aA + aB), fA + fB)
<1> DEFINE x == fA - aA
           y == fB - aB
           d == addmod(dA, dB)
           a == aA + aB
<1>1. x \in Int /\ y \in Int /\ x + y \in Int /\ a \in Int OBVIOUS
<1>2. (x + y) + a = fA + fB OBVIOUS
<1> HIDE DEF x, y, a
<1>3. d \in Int /\ Cong(d, x + y) BY <1>1, OpsCong2, Zenon DEF x, y
<1>4. Cong(a, a) BY <1>1, CongRefl
<1> HIDE DEF d
<1>5. Cong(d + a, (x + y) + a) BY <1>1, <1>3, <1>4, CongAdd, Zenon
<1> QED BY <1>2, <1>3, <1>5 DEF d, a

(* What a reconstructed value is congruent to. *)
LEMMA Reconstruct ==
    ASSUME NEW fA \in Int, NEW fB \in Int, NEW gA \in Int, NEW gB \in Int,
           NEW hA \in Int, NEW hB \in Int
    PROVE  mulmod(addmod(fA, fB), addmod(gA, gB)) = addmod(hA, hB)
             <=> Cong((fA + fB) * (gA + gB), hA + hB)
<1> DEFINE f == addmod(fA, fB)
           g == addmod(gA, gB)
           h == addmod(hA, hB)
           m == mulmod(f, g)
           F == fA + fB
           G == gA + gB
           H == hA + hB
<1>1. F \in Int /\ G \in Int /\ H \in Int /\ F * G \in Int OBVIOUS
<1>2. f \in Int /\ Cong(f, F) /\ g \in Int /\ Cong(g, G) BY OpsCong, FieldInt, Zenon
<1>3. h \in Field /\ h \in Int /\ Cong(h, H) BY OpsCong, FieldInt, Zenon
<1> HIDE DEF f, g, h, F, G, H
<1>4. m \in Field /\ m \in Int /\ Cong(m, F * G)
    BY <1>1, <1>2, OpsCong, OpsCong2, FieldInt, Zenon
<1> HIDE DEF m
<1>5. m = h <=> Cong(m, h) BY <1>3, <1>4, FieldCongEq, Zenon
<1>6. ASSUME Cong(m, h) PROVE Cong(F * G, H)
    BY <1>1, <1>3, <1>4, <1>6, CongSym, CongTrans, Zenon
<1>7. ASSUME Cong(F * G, H) PROVE Cong(m, h)
    <2>1. Cong(H, h) BY <1>1, <1>3, CongSym, Zenon
    <2>2. Cong(m, H) BY <1>1, <1>4, <1>7, CongTrans, Zenon
    <2> QED BY <1>1, <1>3, <1>4, <2>1, <2>2, CongTrans, Zenon
<1> QED BY <1>5, <1>6, <1>7 DEF f, g, h, m, F, G, H

(* The two rounds of the exchange decide, for every modulus, every shares  *)
(* of f(r), g(r), h(r) and every way to share a multiplication triple,     *)
(* exactly whether f(r) * g(r) = h(r): PrioVerifier_isValid accepts just   *)
(* the submissions whose proof holds at the point.                         *)
THEOREM BeaverIdentity ==
    ASSUME NEW sA \in SharesType, NEW sB \in SharesType,
           NEW tA \in TripleType, NEW tB \in TripleType,
           mulmod(addmod(tA.a, tB.a), addmod(tA.b, tB.b)) = addmod(tA.c, tB.c)
    PROVE  LET p1A == PrioPacketVerify1_set_data(sA, tA)
               p1B == PrioPacketVerify1_set_data(sB, tB)
               p2A == PrioPacketVerify2_set_data(sA, tA, p1A, p1B)
               p2B == PrioPacketVerify2_set_data(sB, tB, p1A, p1B)
           IN  PrioVerifier_isValid(p2A, p2B)
                 <=> mulmod(addmod(sA.fR, sB.fR), addmod(sA.gR, sB.gR)) = addmod(sA.hR, sB.hR)
<1> DEFINE p1A == PrioPacketVerify1_set_data(sA, tA)
           p1B == PrioPacketVerify1_set_data(sB, tB)
           oA  == PrioPacketVerify2_set_data(sA, tA, p1A, p1B)
           oB  == PrioPacketVerify2_set_data(sB, tB, p1A, p1B)
           D   == addmod(p1A.d, p1B.d)
           E   == addmod(p1A.e, p1B.e)
           a   == tA.a + tB.a
           b   == tA.b + tB.b
           c   == tA.c + tB.c
           F   == sA.fR + sB.fR
           G   == sA.gR + sB.gR
           H   == sA.hR + sB.hR
           XA  == (D * E) * inv2 + D * tA.b + E * tA.a + tA.c - sA.hR
           XB  == (D * E) * inv2 + D * tB.b + E * tB.a + tB.c - sB.hR
           X   == (2 * inv2) * (D * E) + D * b + E * a + c - H
           Y   == (D + a) * (E + b)
<1>1. /\ tA.a \in Int /\ tA.b \in Int /\ tA.c \in Int
      /\ tB.a \in Int /\ tB.b \in Int /\ tB.c \in Int
      /\ sA.fR \in Int /\ sA.gR \in Int /\ sA.hR \in Int
      /\ sB.fR \in Int /\ sB.gR \in Int /\ sB.hR \in Int
    BY FieldInt DEF SharesType, TripleType
<1>2. a \in Int /\ b \in Int /\ c \in Int /\ F \in Int /\ G \in Int /\ H \in Int
    BY <1>1
<1>3. inv2 \in Int /\ Cong(2 * inv2, 1) BY Inv2, FieldInt
<1>4. /\ p1A \in [d : Field, e : Field] /\ p1B \in [d : Field, e : Field]
      /\ Cong(p1A.d, sA.fR - tA.a) /\ Cong(p1A.e, sA.gR - tA.b)
      /\ Cong(p1B.d, sB.fR - tB.a) /\ Cong(p1B.e, sB.gR - tB.b)
    BY Verify1Cong, Zenon
<1> HIDE DEF p1A, p1B
<1>5. p1A.d \in Int /\ p1A.e \in Int /\ p1B.d \in Int /\ p1B.e \in Int
    BY <1>4, FieldInt
<1>6. D \in Int /\ Cong(D + a, F) BY <1>1, <1>4, <1>5, Unmask, Zenon
<1>7. E \in Int /\ Cong(E + b, G) BY <1>1, <1>4, <1>5, Unmask, Zenon
<1>8. oA \in Field /\ Cong(oA, XA) /\ oB \in Field /\ Cong(oB, XB)
    BY <1>4, Verify2Cong, Zenon
<1> HIDE DEF oA, oB, D, E
<1>9. oA \in Int /\ oB \in Int BY <1>8, FieldInt
<1>10. XA \in Int /\ XB \in Int /\ X \in Int /\ Y \in Int /\ D + a \in Int /\ E + b \in Int
    BY <1>1, <1>2, <1>3, <1>6, <1>7
<1>11. XA + XB = X BY <1>1, <1>3, <1>6, <1>7, SMTT(30)
<1>12. Cong(c, a * b)
    <2>1. Cong((tA.a + tB.a) * (tA.b + tB.b), tA.c + tB.c) BY <1>1, Reconstruct, Zenon
    <2>2. a * b \in Int BY <1>2
    <2> QED BY <1>2, <2>1, <2>2, CongSym, Zenon
<1> HIDE DEF a, b, c, F, G, H
<1>13. Cong(X, Y - H) BY <1>2, <1>3, <1>6, <1>7, <1>12, BeaverCong, Zenon
<1>14. Cong(Y, F * G) BY <1>2, <1>6, <1>7, <1>10, CongMul, Zenon
<1> HIDE DEF XA, XB, X, Y
<1>15. F * G \in Int /\ Y - H \in Int /\ F * G - H \in Int /\ oA + oB \in Int /\ XA + XB \in Int /\ 0 \in Int
    BY <1>2, <1>9, <1>10
<1>16. Cong(oA + oB, X) BY <1>8, <1>9, <1>10, <1>11, CongAdd, Zenon
<1>17. Cong(Y - H, F * G - H) BY <1>2, <1>10, <1>14, <1>15, CongRefl, CongAdd, Zenon
<1>18. Cong(oA + oB, F * G - H) BY <1>10, <1>13, <1>15, <1>16, <1>17, CongTrans, Zenon
<1>19. addmod(oA, oB) \in Field /\ addmod(oA, oB) \in Int /\ Cong(addmod(oA, oB), oA + oB)
    BY <1>9, OpsCong, FieldInt, Zenon
<1>20. Cong(addmod(oA, oB), F * G - H) BY <1>15, <1>18, <1>19, CongTrans, Zenon
<1>21. Cong(addmod(oA, oB), 0) <=> Cong(F * G, H)
    BY <1>2, <1>15, <1>19, <1>20, CongDifference, Zenon
<1>22. 0 \in Field BY ModulusAssumption DEF Field
<1>23. addmod(oA, oB) = 0 <=> Cong(addmod(oA, oB), 0) BY <1>19, <1>22, FieldCongEq, Zenon
<1>24. Cong(F * G, H)
         <=> mulmod(addmod(sA.fR, sB.fR), addmod(sA.gR, sB.gR)) = addmod(sA.hR, sB.hR)
    <2>1. mulmod(addmod(sA.fR, sB.fR), addmod(sA.gR, sB.gR)) = addmod(sA.hR, sB.hR)
            <=> Cong((sA.fR + sB.fR) * (sA.gR + sB.gR), sA.hR + sB.hR)
        BY <1>1, Reconstruct, Zenon
    <2> QED BY <2>1 DEF F, G, H
<1> QED BY <1>21, <1>23, <1>24 DEF PrioVerifier_isValid, oA, oB, p1A, p1B
-----------------------------------------------------------------------------
(* Lengths *)

(* The number of bits of val, as next_power_of_two counts them. *)
LEMMA BitsCounted ==
    ASSUME NEW val \in Nat, val > 0
    PROVE  \E b \in Nat \ {0} :
             /\ 2 ^ (b - 1) <= val /\ val < 2 ^ b
             /\ next_power_of_two(val) = IF 2 ^ b > 1 /\ 2 ^ b \div 2 = val THEN val ELSE 2 ^ b
<1> DEFINE Body(h) == [i \in Nat |-> IF i = 0 THEN 0 ELSE 1 + h[i \div 2]]
           S == CHOOSE h : h = Body(h)
           g == [x \in Nat \X Nat |-> 1 + x[1]]
           d == [n \in Nat |-> n \div 2]
<1>1. /\ g \in [Nat \X Nat -> Nat] /\ \A v, n \in Nat : g[<<v, n>>] = 1 + v
    OBVIOUS
<1>2. d \in [Nat -> Nat] /\ (\A n \in Nat : n # 0 => d[n] < n) /\ \A n \in Nat : d[n] = n \div 2
    <2>1. ASSUME NEW n \in Nat PROVE n \div 2 \in Nat /\ (n # 0 => n \div 2 < n) OBVIOUS
    <2> QED BY <2>1
<1> HIDE DEF g, d
<1>3. PICK h \in [Nat -> Nat] : Recurses(h, 0, g, d)
    <2>1. 0 \in Nat OBVIOUS
    <2> QED BY <1>1, <1>2, <2>1, DecreasingRecursion
<1>4. ASSUME NEW n \in Nat PROVE h[n] = IF n = 0 THEN 0 ELSE 1 + h[n \div 2]
    <2>1. n \div 2 \in Nat /\ h[n \div 2] \in Nat /\ d[n] = n \div 2
        <3>1. n \div 2 \in Nat OBVIOUS
        <3> QED BY <1>2, <3>1
    <2> QED BY <1>1, <1>3, <2>1 DEF Recurses
<1>5. h = Body(h) BY <1>4
<1>6. S = Body(S) BY <1>5
<1>7. next_power_of_two(val) =
        IF 2 ^ S[val] > 1 /\ 2 ^ S[val] \div 2 = val THEN val ELSE 2 ^ S[val]
    BY DEF next_power_of_two
<1> HIDE DEF S
<1>8. S[0] = 0 /\ \A i \in Nat \ {0} : S[i] = 1 + S[i \div 2] BY <1>6
<1> DEFINE P == {i \in Nat : i > 0 => /\ S[i] \in Nat \ {0}
                                     /\ 2 ^ (S[i] - 1) <= i /\ i < 2 ^ S[i]}
<1>9. ASSUME NEW i \in Nat, \A j \in 0 .. i - 1 : j \in P PROVE i \in P
    <2> SUFFICES ASSUME i > 0
                 PROVE  S[i] \in Nat \ {0} /\ 2 ^ (S[i] - 1) <= i /\ i < 2 ^ S[i]
        OBVIOUS
    <2>1. CASE i = 1
        <3>1. 1 \div 2 = 0 /\ 2 ^ 0 = 1 /\ 2 ^ 1 = 2 OBVIOUS
        <3>2. S[1] = 1 BY <1>8, <3>1
        <3> QED BY <2>1, <3>1, <3>2
    <2>2. CASE i > 1
        <3> DEFINE j == i \div 2
                   b == S[j]
        <3>1. j \in 0 .. i - 1 /\ j > 0 /\ 2 * j <= i /\ i <= 2 * j + 1 BY <2>2
        <3> HIDE DEF j
        <3>2. b \in Nat \ {0} /\ 2 ^ (b - 1) <= j /\ j < 2 ^ b BY <1>9, <3>1
        <3>3. S[i] = 1 + b BY <1>8 DEF j
        <3> HIDE DEF b
        <3>4. b - 1 \in Nat /\ (b - 1) + 1 = b /\ (1 + b) - 1 = b /\ 1 + b = b + 1 BY <3>2
        <3>5. 2 ^ b = 2 * 2 ^ (b - 1) /\ 2 ^ (b + 1) = 2 * 2 ^ b BY <3>2, <3>4, PowerStep
        <3>6. 2 ^ (b - 1) \in Nat /\ 2 ^ b \in Nat BY <3>2, <3>4, PowerStep
        <3>7. 2 ^ b <= i /\ i < 2 ^ (b + 1) BY <3>1, <3>2, <3>5, <3>6
        <3> QED BY <3>2, <3>3, <3>4, <3>7
    <2> QED BY <2>1, <2>2
<1> HIDE DEF P
<1>10. val \in P BY <1>9, NatStrongInduct
<1>11. S[val] \in Nat \ {0} /\ 2 ^ (S[val] - 1) <= val /\ val < 2 ^ S[val] BY <1>10 DEF P
<1> QED BY <1>7, <1>11

(* next_power_of_two returns the least power of two that is at least val. *)
LEMMA NextPower ==
    ASSUME NEW val \in Nat, val > 0
    PROVE  \E k \in Nat : /\ next_power_of_two(val) = 2 ^ k /\ val <= 2 ^ k
                          /\ \A m \in Nat : val <= 2 ^ m => k <= m
<1>1. PICK b \in Nat \ {0} :
        /\ 2 ^ (b - 1) <= val /\ val < 2 ^ b
        /\ next_power_of_two(val) = IF 2 ^ b > 1 /\ 2 ^ b \div 2 = val THEN val ELSE 2 ^ b
    BY BitsCounted
<1>2. b - 1 \in Nat /\ (b - 1) + 1 = b OBVIOUS
<1>3. 2 ^ b = 2 * 2 ^ (b - 1) /\ 2 ^ (b - 1) \in Nat /\ 2 ^ (b - 1) > 0
    BY <1>2, PowerStep, PowerPositive
<1>4. 2 ^ b > 1 /\ 2 ^ b \div 2 = 2 ^ (b - 1) BY <1>3
<1>5. ASSUME NEW m \in Nat, val <= 2 ^ m PROVE b - 1 <= m
    <2> SUFFICES ASSUME m < b - 1 PROVE FALSE BY <1>2
    <2>1. m + 1 \in Nat /\ m + 1 <= b - 1 OBVIOUS
    <2>2. 2 ^ (m + 1) <= 2 ^ (b - 1) BY <1>2, <2>1, PowerMono
    <2>3. 2 ^ (m + 1) = 2 * 2 ^ m /\ 2 ^ m \in Nat BY PowerStep
    <2>4. 2 ^ m > 0 BY PowerPositive
    <2> QED BY <1>1, <1>3, <1>5, <2>2, <2>3, <2>4
<1>6. CASE 2 ^ (b - 1) = val
    <2>1. next_power_of_two(val) = 2 ^ (b - 1) BY <1>1, <1>4, <1>6
    <2> QED BY <1>2, <1>5, <1>6, <2>1
<1>7. CASE 2 ^ (b - 1) # val
    <2>1. next_power_of_two(val) = 2 ^ b BY <1>1, <1>4, <1>7
    <2>2. ASSUME NEW m \in Nat, val <= 2 ^ m PROVE b <= m
        <3>1. b - 1 <= m BY <1>5, <2>2
        <3>2. m # b - 1
            <4> SUFFICES ASSUME m = b - 1 PROVE FALSE OBVIOUS
            <4> QED BY <1>1, <1>3, <1>7, <2>2
        <3> QED BY <3>1, <3>2
    <2>3. val <= 2 ^ b BY <1>1, <1>3
    <2> QED BY <2>1, <2>2, <2>3
<1> QED BY <1>6, <1>7

(* n_roots is a power of two above one, and half of it one less an order. *)
LEMMA Roots ==
    /\ Generator2Order - 1 \in Nat
    /\ n_roots \in Nat /\ n_roots > 1
    /\ n_roots = 2 * 2 ^ (Generator2Order - 1)
    /\ PrioConfig_maxDataFields = 2 ^ (Generator2Order - 1) - 1
    /\ PrioConfig_maxDataFields \in Nat
<1>1. Generator2Order - 1 \in Nat /\ (Generator2Order - 1) + 1 = Generator2Order
    BY GeneratorAssumption
<1>2. 2 ^ (Generator2Order - 1) \in Nat /\ 2 ^ (Generator2Order - 1) > 0
    BY <1>1, PowerPositive
<1>3. n_roots = 2 * 2 ^ (Generator2Order - 1) BY <1>1, PowerStep DEF n_roots
<1> QED BY <1>1, <1>2, <1>3 DEF PrioConfig_maxDataFields

(* Every length the client and the servers derive from an accepted number *)
(* of fields divides n_roots.                                              *)
LEMMA LengthsAccepted ==
    ASSUME NEW n \in Nat, n <= PrioConfig_maxDataFields
    PROVE  LET bigN == next_power_of_two(n + 1)
           IN  /\ poly_fft_accepts(bigN) /\ poly_fft_accepts(2 * bigN)
               /\ n + 1 <= bigN
<1> DEFINE G == Generator2Order
<1>0. G - 1 \in Nat /\ n_roots = 2 ^ G /\ G \in Nat BY GeneratorAssumption DEF n_roots
<1>1. n + 1 \in Nat /\ n + 1 > 0 /\ n + 1 <= 2 ^ (G - 1)
    BY Roots
<1>2. PICK k \in Nat : /\ next_power_of_two(n + 1) = 2 ^ k /\ n + 1 <= 2 ^ k
                       /\ \A m \in Nat : n + 1 <= 2 ^ m => k <= m
    BY <1>1, NextPower
<1>3. k <= G - 1 BY <1>0, <1>1, <1>2
<1>4. k + 1 \in Nat /\ k + 1 <= G /\ k <= G BY <1>0, <1>3
<1>5. 2 ^ (k + 1) = 2 * 2 ^ k BY PowerStep
<1>6. 2 ^ k <= 2 ^ G /\ 2 ^ G % 2 ^ k = 0 BY <1>0, <1>4, PowerMono
<1>7. 2 ^ (k + 1) <= 2 ^ G /\ 2 ^ G % 2 ^ (k + 1) = 0 BY <1>0, <1>4, PowerMono
<1> HIDE DEF G
<1>8. poly_fft_accepts(2 ^ k) /\ poly_fft_accepts(2 ^ (k + 1))
    BY <1>0, <1>6, <1>7 DEF poly_fft_accepts
<1> QED BY <1>2, <1>5, <1>8

(* The N of client.c and server.c is a power of two, and twice N divides  *)
(* n_roots.                                                                *)
LEMMA NIsPower ==
    \E k \in Nat : N = 2 ^ k /\ k + 1 <= Generator2Order /\ NumFields < N /\ N \in Nat
<1>1. NumFields + 1 \in Nat /\ NumFields + 1 > 0 /\ NumFields + 1 <= 2 ^ (Generator2Order - 1)
    BY NumFieldsAssumption, Roots
<1>2. PICK k \in Nat : /\ N = 2 ^ k /\ NumFields + 1 <= 2 ^ k
                       /\ \A m \in Nat : NumFields + 1 <= 2 ^ m => k <= m
    BY <1>1, NextPower DEF N
<1>3. k <= Generator2Order - 1 BY <1>1, <1>2, Roots
<1>4. 2 ^ k \in Nat BY PowerStep
<1> QED BY <1>2, <1>3, <1>4, NumFieldsAssumption, GeneratorAssumption

-----------------------------------------------------------------------------
(* Powers and sums of integers *)

Pow(x, k) == LET p[i \in Nat] == IF i = 0 THEN 1 ELSE p[i - 1] * x IN p[k]

(* The recursion of Pow, unfolded. *)
LEMMA PowStep ==
    ASSUME NEW x \in Int, NEW k \in Nat
    PROVE  Pow(x, 0) = 1 /\ Pow(x, k) \in Int /\ Pow(x, k + 1) = Pow(x, k) * x
<1> DEFINE Body(h) == [i \in Nat |-> IF i = 0 THEN 1 ELSE h[i - 1] * x]
           S == CHOOSE h : h = Body(h)
           g == [v \in Int \X Nat |-> v[1] * x]
<1>1. g \in [Int \X Nat -> Int] /\ \A v \in Int, n \in Nat : g[<<v, n>>] = v * x OBVIOUS
<1> HIDE DEF g
<1>2. PICK h \in [Nat -> Int] : RecursesDown(h, 1, g)
    <2>1. 1 \in Int OBVIOUS
    <2> QED BY <1>1, <2>1, NatRecursion
<1>3. ASSUME NEW n \in Nat PROVE h[n] = IF n = 0 THEN 1 ELSE h[n - 1] * x
    <2>1. CASE n = 0 BY <1>2, <2>1 DEF RecursesDown
    <2>2. CASE n # 0
        <3>1. n - 1 \in Nat /\ h[n - 1] \in Int BY <2>2
        <3> QED BY <1>1, <1>2, <2>2, <3>1 DEF RecursesDown
    <2> QED BY <2>1, <2>2
<1>4. h = Body(h) BY <1>3
<1>5. S = Body(S) BY <1>4
<1>6. \A n \in Nat : Pow(x, n) = S[n] BY DEF Pow
<1> HIDE DEF S
<1>7. S[0] = 1 /\ \A n \in Nat : S[n + 1] = S[n] * x
    <2>1. ASSUME NEW n \in Nat PROVE S[n + 1] = S[n] * x
        <3>1. n + 1 \in Nat /\ n + 1 # 0 /\ (n + 1) - 1 = n OBVIOUS
        <3> QED BY <1>5, <3>1
    <2> QED BY <1>5, <2>1
<1> DEFINE T == {n \in Nat : S[n] \in Int}
<1>8. 0 \in T BY <1>7
<1>9. ASSUME NEW n \in Nat, n \in T PROVE n + 1 \in T BY <1>7, <1>9
<1> HIDE DEF T
<1>10. k \in T BY <1>8, <1>9, NatInduct
<1>11. k + 1 \in Nat /\ S[k] \in Int BY <1>10 DEF T
<1> QED BY <1>6, <1>7, <1>11

(* The exponents of a product add up. *)
LEMMA PowSum ==
    ASSUME NEW x \in Int, NEW m \in Nat, NEW n \in Nat
    PROVE  Pow(x, m + n) = Pow(x, m) * Pow(x, n)
<1> DEFINE P == {k \in Nat : Pow(x, m + k) = Pow(x, m) * Pow(x, k)}
<1>0. Pow(x, m) \in Int /\ Pow(x, 0) = 1 BY PowStep
<1>1. 0 \in P BY <1>0
<1>2. ASSUME NEW k \in Nat, k \in P PROVE k + 1 \in P
    <2> DEFINE a == Pow(x, m)
               b == Pow(x, k)
    <2>1. m + k \in Nat /\ m + (k + 1) = (m + k) + 1 OBVIOUS
    <2>2. Pow(x, (m + k) + 1) = Pow(x, m + k) * x /\ Pow(x, k + 1) = b * x /\ b \in Int
        BY <2>1, PowStep
    <2>3. Pow(x, m + k) = a * b BY <1>2
    <2>4. a \in Int BY <1>0
    <2> HIDE DEF a, b
    <2>5. (a * b) * x = a * (b * x) BY <2>2, <2>4
    <2>6. Pow(x, m + (k + 1)) = a * Pow(x, k + 1) BY <2>1, <2>2, <2>3, <2>5
    <2> QED BY <2>6 DEF a
<1> HIDE DEF P
<1>3. n \in P BY <1>1, <1>2, NatInduct
<1> QED BY <1>3 DEF P

(* A power of a power multiplies the exponents. *)
LEMMA PowMul ==
    ASSUME NEW x \in Int, NEW m \in Nat, NEW n \in Nat
    PROVE  Pow(x, m * n) = Pow(Pow(x, m), n)
<1> DEFINE y == Pow(x, m)
           P == {k \in Nat : Pow(x, m * k) = Pow(y, k)}
<1>0. y \in Int BY PowStep
<1> HIDE DEF y
<1>1. 0 \in P
    <2>1. m * 0 = 0 OBVIOUS
    <2>2. Pow(x, 0) = 1 /\ Pow(y, 0) = 1 BY <1>0, PowStep
    <2> QED BY <2>1, <2>2
<1>2. ASSUME NEW k \in Nat, k \in P PROVE k + 1 \in P
    <2>1. m * k \in Nat /\ m * (k + 1) = m * k + m OBVIOUS
    <2>2. Pow(x, m * k + m) = Pow(x, m * k) * y BY <2>1, PowSum DEF y
    <2>3. Pow(y, k + 1) = Pow(y, k) * y BY <1>0, PowStep
    <2> QED BY <1>2, <2>1, <2>2, <2>3
<1> HIDE DEF P
<1>3. n \in P BY <1>1, <1>2, NatInduct
<1> QED BY <1>3 DEF P, y

(* A power of a product is the product of the powers. *)
LEMMA PowProduct ==
    ASSUME NEW x \in Int, NEW y \in Int, NEW n \in Nat
    PROVE  Pow(x * y, n) = Pow(x, n) * Pow(y, n)
<1> DEFINE z == x * y
           P == {k \in Nat : Pow(z, k) = Pow(x, k) * Pow(y, k)}
<1>0. z \in Int OBVIOUS
<1>1. 0 \in P
    <2>1. Pow(x, 0) = 1 /\ Pow(y, 0) = 1 /\ Pow(z, 0) = 1 BY <1>0, PowStep
    <2> QED BY <2>1
<1>2. ASSUME NEW k \in Nat, k \in P PROVE k + 1 \in P
    <2> DEFINE a == Pow(x, k)
               b == Pow(y, k)
    <2>1. /\ a \in Int /\ b \in Int /\ Pow(x, k + 1) = a * x /\ Pow(y, k + 1) = b * y
          /\ Pow(z, k + 1) = Pow(z, k) * z
        BY <1>0, PowStep
    <2>2. Pow(z, k) = a * b BY <1>2
    <2> HIDE DEF a, b
    <2>3. (a * b) * (x * y) = (a * x) * (b * y) BY <2>1
    <2> QED BY <2>1, <2>2, <2>3
<1> HIDE DEF P, z
<1>3. n \in P BY <1>1, <1>2, NatInduct
<1> QED BY <1>3 DEF P, z

(* Powers of congruent numbers are congruent. *)
LEMMA PowCong ==
    ASSUME NEW x \in Int, NEW y \in Int, Cong(x, y), NEW n \in Nat
    PROVE  Cong(Pow(x, n), Pow(y, n))
<1> DEFINE P == {k \in Nat : Cong(Pow(x, k), Pow(y, k))}
<1>1. 0 \in P
    <2>1. Pow(x, 0) = 1 /\ Pow(y, 0) = 1 BY PowStep
    <2>2. Cong(1, 1) BY CongRefl
    <2> QED BY <2>1, <2>2
<1>2. ASSUME NEW k \in Nat, k \in P PROVE k + 1 \in P
    <2>1. /\ Pow(x, k) \in Int /\ Pow(x, k + 1) = Pow(x, k) * x
          /\ Pow(y, k) \in Int /\ Pow(y, k + 1) = Pow(y, k) * y
        BY PowStep
    <2>2. Cong(Pow(x, k), Pow(y, k)) BY <1>2
    <2>3. Cong(Pow(x, k) * x, Pow(y, k) * y) BY <2>1, <2>2, CongMul
    <2> QED BY <2>1, <2>3
<1> HIDE DEF P
<1>3. n \in P BY <1>1, <1>2, NatInduct
<1> QED BY <1>3 DEF P

(* mp_exptmod_d computes the power, reduced. *)
LEMMA ExptIsPow ==
    ASSUME NEW x \in Int, NEW k \in Nat
    PROVE  exptmod(x, k) = Pow(x, k) % Modulus
<1> DEFINE Body(h) == [i \in 0 .. k |-> IF i = 0 THEN 1 % Modulus ELSE mulmod(h[i - 1], x)]
           S == CHOOSE h : h = Body(h)
           e == [i \in 0 .. k |-> Pow(x, i) % Modulus]
<1>1. ASSUME NEW i \in Nat PROVE mulmod(Pow(x, i) % Modulus, x) = Pow(x, i + 1) % Modulus
    <2> DEFINE a == Pow(x, i)
    <2>1. a \in Int /\ Pow(x, i + 1) = a * x BY PowStep
    <2> HIDE DEF a
    <2>2. a % Modulus \in Int /\ Cong(a % Modulus, a) BY <2>1, CongMod
    <2>3. Cong((a % Modulus) * x, a * x) BY <2>1, <2>2, CongRefl, CongMul
    <2>4. ((a % Modulus) * x) % Modulus = (a * x) % Modulus
        <3>1. (a % Modulus) * x \in Int /\ a * x \in Int BY <2>1, <2>2
        <3> QED BY <2>3, <3>1, CongEq
    <2> QED BY <2>1, <2>4 DEF mulmod, a
<1>2. e = Body(e)
    <2>1. ASSUME NEW i \in 0 .. k
          PROVE  e[i] = IF i = 0 THEN 1 % Modulus ELSE mulmod(e[i - 1], x)
        <3>1. CASE i = 0
            <4>1. Pow(x, 0) = 1 BY PowStep
            <4> QED BY <3>1, <4>1
        <3>2. CASE i # 0
            <4>1. i - 1 \in 0 .. k /\ i - 1 \in Nat /\ (i - 1) + 1 = i BY <3>2
            <4>2. e[i - 1] = Pow(x, i - 1) % Modulus BY <4>1
            <4>3. mulmod(Pow(x, i - 1) % Modulus, x) = Pow(x, i) % Modulus BY <1>1, <4>1
            <4> QED BY <3>2, <4>2, <4>3
        <3> QED BY <3>1, <3>2
    <2> QED BY <2>1
<1>3. S = Body(S) BY <1>2
<1>4. exptmod(x, k) = S[k] BY DEF exptmod
<1> HIDE DEF S
<1> DEFINE P == {i \in Nat : i <= k => S[i] = Pow(x, i) % Modulus}
<1>5. 0 \in P
    <2>1. Pow(x, 0) = 1 BY PowStep
    <2> QED BY <1>3, <2>1
<1>6. ASSUME NEW i \in Nat, i \in P PROVE i + 1 \in P
    <2> SUFFICES ASSUME i + 1 <= k PROVE S[i + 1] = Pow(x, i + 1) % Modulus OBVIOUS
    <2>1. i + 1 \in 0 .. k /\ i + 1 # 0 /\ (i + 1) - 1 = i /\ i <= k OBVIOUS
    <2>2. S[i + 1] = mulmod(S[i], x) BY <1>3, <2>1
    <2>3. S[i] = Pow(x, i) % Modulus BY <1>6, <2>1
    <2> QED BY <1>1, <2>2, <2>3
<1> HIDE DEF P
<1>7. k \in P BY <1>5, <1>6, NatInduct
<1> QED BY <1>4, <1>7 DEF P

(* Sums of congruent terms are congruent. *)
LEMMA SigmaCong ==
    ASSUME NEW f \in Terms, NEW g \in Terms, NEW n \in Nat, \A i \in 0 .. n - 1 : Cong(f[i], g[i])
    PROVE  Cong(Sigma(f, n), Sigma(g, n))
<1> DEFINE P == {k \in Nat : k <= n => Cong(Sigma(f, k), Sigma(g, k))}
<1>1. 0 \in P
    <2>1. Sigma(f, 0) = 0 /\ Sigma(g, 0) = 0 BY SigmaStep
    <2>2. Cong(0, 0) BY CongRefl
    <2> QED BY <2>1, <2>2
<1>2. ASSUME NEW k \in Nat, k \in P PROVE k + 1 \in P
    <2> SUFFICES ASSUME k + 1 <= n PROVE Cong(Sigma(f, k + 1), Sigma(g, k + 1)) OBVIOUS
    <2>1. Sigma(f, k) \in Int /\ Sigma(f, k + 1) = Sigma(f, k) + f[k] BY SigmaStep
    <2>2. Sigma(g, k) \in Int /\ Sigma(g, k + 1) = Sigma(g, k) + g[k] BY SigmaStep
    <2>3. f[k] \in Int /\ g[k] \in Int /\ Cong(f[k], g[k]) BY DEF Terms
    <2>4. Cong(Sigma(f, k), Sigma(g, k)) BY <1>2
    <2>5. Cong(Sigma(f, k) + f[k], Sigma(g, k) + g[k]) BY <2>1, <2>2, <2>3, <2>4, CongAdd
    <2> QED BY <2>1, <2>2, <2>5
<1> HIDE DEF P
<1>3. n \in P BY <1>1, <1>2, NatInduct
<1> QED BY <1>3 DEF P

-----------------------------------------------------------------------------
(* The fast Fourier transform *)

(* Array builds the function it is given. *)
LEMMA ArrayIs ==
    ASSUME NEW n \in Nat, NEW f \in [1 .. n -> Int]
    PROVE  <<>> \o f = f /\ f \in Seq(Int) /\ Len(f) = n
<1>1. f \in Seq(Int) /\ Len(f) = n OBVIOUS
<1> QED BY <1>1

(* MPArrays of n integers. *)
Ints(n) == [1 .. n -> Int]

(* The inputs of fft_recurse with 2^k points. *)
LEMMA InputIs ==
    ASSUME NEW r, NEW y
    PROVE  <<r, y>> \in fft_input
             <=> \E k \in 0 .. Generator2Order : r \in Ints(2 ^ k) /\ y \in Ints(2 ^ k)
<1>1. ASSUME NEW k \in 0 .. Generator2Order, r \in Ints(2 ^ k), y \in Ints(2 ^ k)
      PROVE  <<r, y>> \in fft_input
    <2>1. 2 ^ k \in Nat BY PowerStep
    <2>2. r \in Seq(Int) /\ Len(r) = 2 ^ k BY <1>1, <2>1, ArrayIs DEF Ints
    <2>3. y \in Seq(Int) /\ Len(y) = 2 ^ k BY <1>1, <2>1, ArrayIs DEF Ints
    <2> QED BY <2>2, <2>3 DEF fft_input
<1>2. ASSUME <<r, y>> \in fft_input
      PROVE  \E k \in 0 .. Generator2Order : r \in Ints(2 ^ k) /\ y \in Ints(2 ^ k)
    <2>1. r \in Seq(Int) /\ y \in Seq(Int) BY <1>2 DEF fft_input
    <2>2. PICK k \in 0 .. Generator2Order : Len(r) = 2 ^ k /\ Len(y) = 2 ^ k
        BY <1>2 DEF fft_input
    <2>3. r \in [1 .. Len(r) -> Int] /\ y \in [1 .. Len(y) -> Int] BY <2>1
    <2> QED BY <2>2, <2>3 DEF Ints
<1> QED BY <1>1, <1>2

(* What a level passes down and how it interleaves the two results. *)
HalfRoots(r, h) == [i \in 1 .. h |-> r[2 * i - 1]]
HalfSums(y, h) == [i \in 1 .. h |-> addmod(y[i], y[i + h])]
HalfDiffs(r, y, h) == [i \in 1 .. h |-> mulmod(submod(y[i], y[i + h]), r[i])]
Weave(e, o, n) == [i \in 1 .. n |-> IF i % 2 = 1 THEN e[(i + 1) \div 2] ELSE o[i \div 2]]

(* One level of fft_recurse, with f for the recursive calls. *)
Butterfly(f, r, y, h) ==
    Weave(f[<<HalfRoots(r, h), HalfSums(y, h)>>], f[<<HalfRoots(r, h), HalfDiffs(r, y, h)>>], 2 * h)

(* The recursion stops at one point. *)
Level(f, a) ==
    IF Len(a[2]) = 1 THEN a[2] ELSE Butterfly(f, a[1], a[2], Len(a[2]) \div 2)

(* The halves of an array of integers are arrays of integers, *)
LEMMA HalvesType ==
    ASSUME NEW h \in Nat, NEW r \in Ints(2 * h), NEW y \in Ints(2 * h)
    PROVE  /\ HalfRoots(r, h) \in Ints(h)
           /\ HalfSums(y, h) \in Ints(h)
           /\ HalfDiffs(r, y, h) \in Ints(h)
<1>1. ASSUME NEW i \in 1 .. h
      PROVE  /\ r[2 * i - 1] \in Int /\ r[i] \in Int
             /\ addmod(y[i], y[i + h]) \in Int
             /\ mulmod(submod(y[i], y[i + h]), r[i]) \in Int
    <2>1. 2 * i - 1 \in 1 .. 2 * h /\ i \in 1 .. 2 * h /\ i + h \in 1 .. 2 * h OBVIOUS
    <2>2. r[2 * i - 1] \in Int /\ r[i] \in Int /\ y[i] \in Int /\ y[i + h] \in Int
        BY <2>1 DEF Ints
    <2>3. submod(y[i], y[i + h]) \in Int BY <2>2, OpsCong, FieldInt
    <2> QED BY <2>2, <2>3, OpsCong, FieldInt
<1> QED BY <1>1 DEF Ints, HalfRoots, HalfSums, HalfDiffs

(* and weaving two of them makes one. *)
LEMMA WeaveType ==
    ASSUME NEW h \in Nat, NEW e \in Ints(h), NEW o \in Ints(h)
    PROVE  Weave(e, o, 2 * h) \in Ints(2 * h)
<1>1. ASSUME NEW i \in 1 .. 2 * h
      PROVE  (IF i % 2 = 1 THEN e[(i + 1) \div 2] ELSE o[i \div 2]) \in Int
    <2>1. CASE i % 2 = 1
        <3>1. (i + 1) \div 2 \in 1 .. h BY <2>1
        <3> QED BY <2>1, <3>1 DEF Ints
    <2>2. CASE i % 2 # 1
        <3>1. i \div 2 \in 1 .. h BY <2>2
        <3> QED BY <2>2, <3>1 DEF Ints
    <2> QED BY <2>1, <2>2
<1> QED BY <1>1 DEF Weave, Ints

(* The last level returns the point, *)
LEMMA LevelLast ==
    ASSUME NEW r \in Ints(2 ^ 0), NEW y \in Ints(2 ^ 0), NEW f
    PROVE  Level(f, <<r, y>>) = y
<1>1. 2 ^ 0 = 1 /\ 1 \in Nat OBVIOUS
<1>2. Len(y) = 1 BY <1>1, ArrayIs DEF Ints
<1> QED BY <1>2 DEF Level

(* the others halve their input. *)
LEMMA LevelUp ==
    ASSUME NEW k \in 1 .. Generator2Order, NEW r \in Ints(2 ^ k), NEW y \in Ints(2 ^ k), NEW f
    PROVE  /\ k - 1 \in 0 .. Generator2Order /\ k \in 0 .. Generator2Order
           /\ 2 ^ (k - 1) \in Nat /\ 2 ^ k = 2 * 2 ^ (k - 1)
           /\ Level(f, <<r, y>>) = Butterfly(f, r, y, 2 ^ (k - 1))
<1>1. k \in Nat /\ k - 1 \in 0 .. Generator2Order /\ k - 1 \in Nat /\ (k - 1) + 1 = k
    BY GeneratorAssumption
<1>2. 2 ^ k \in Nat /\ 2 ^ k = 2 * 2 ^ (k - 1) /\ 2 ^ (k - 1) \in Nat BY <1>1, PowerStep
<1>3. Len(y) = 2 ^ k BY <1>2, ArrayIs DEF Ints
<1>4. 2 ^ k # 1 /\ 2 ^ k \div 2 = 2 ^ (k - 1) BY <1>2
<1> QED BY <1>1, <1>2, <1>3, <1>4 DEF Level

(* The functions that map the inputs of fft_recurse to arrays of the same *)
(* length.                                                                 *)
KeepsLength == {F \in [fft_input -> Seq(Int)] :
                  \A k \in 0 .. Generator2Order : \A r, y \in Ints(2 ^ k) :
                      F[<<r, y>>] \in Ints(2 ^ k)}

(* The function a level makes of F. *)
LevelMap(F) == [a \in fft_input |-> Level(F, a)]

(* A level applied to such a function is such a function. *)
LEMMA LevelKeeps ==
    ASSUME NEW F \in KeepsLength
    PROVE  LevelMap(F) \in KeepsLength
<1>1. ASSUME NEW k \in 0 .. Generator2Order, NEW r \in Ints(2 ^ k), NEW y \in Ints(2 ^ k)
      PROVE  <<r, y>> \in fft_input /\ Level(F, <<r, y>>) \in Ints(2 ^ k)
    <2>1. <<r, y>> \in fft_input BY InputIs
    <2>2. CASE k = 0
        <3>1. r \in Ints(2 ^ 0) /\ y \in Ints(2 ^ 0) BY <2>2
        <3>2. Level(F, <<r, y>>) = y BY <3>1, LevelLast
        <3> QED BY <2>1, <3>2
    <2>3. CASE k \in 1 .. Generator2Order
        <3> DEFINE h == 2 ^ (k - 1)
        <3>1. /\ k - 1 \in 0 .. Generator2Order
              /\ h \in Nat /\ 2 ^ k = 2 * h
              /\ Level(F, <<r, y>>) = Butterfly(F, r, y, h)
            BY <2>3, LevelUp
        <3>2. r \in Ints(2 * h) /\ y \in Ints(2 * h) BY <3>1
        <3>3. HalfRoots(r, h) \in Ints(h) /\ HalfSums(y, h) \in Ints(h)
              /\ HalfDiffs(r, y, h) \in Ints(h)
            BY <3>1, <3>2, HalvesType
        <3>4. /\ F[<<HalfRoots(r, h), HalfSums(y, h)>>] \in Ints(h)
              /\ F[<<HalfRoots(r, h), HalfDiffs(r, y, h)>>] \in Ints(h)
            BY <3>1, <3>3 DEF KeepsLength
        <3>5. Butterfly(F, r, y, h) \in Ints(2 * h) BY <3>1, <3>4, WeaveType DEF Butterfly
        <3> QED BY <2>1, <3>1, <3>5
    <2> QED BY <2>2, <2>3
<1>2. ASSUME NEW a \in fft_input PROVE Level(F, a) \in Seq(Int)
    <2>1. a = <<a[1], a[2]>> BY DEF fft_input
    <2>2. PICK k \in 0 .. Generator2Order : a[1] \in Ints(2 ^ k) /\ a[2] \in Ints(2 ^ k)
        BY <2>1, InputIs
    <2>3. Level(F, <<a[1], a[2]>>) \in Ints(2 ^ k) BY <1>1, <2>2
    <2>4. 2 ^ k \in Nat BY PowerStep
    <2> QED BY <2>1, <2>3, <2>4, ArrayIs DEF Ints
<1>3. LevelMap(F) \in [fft_input -> Seq(Int)] BY <1>2 DEF LevelMap
<1>4. ASSUME NEW k \in 0 .. Generator2Order, NEW r \in Ints(2 ^ k), NEW y \in Ints(2 ^ k)
      PROVE  LevelMap(F)[<<r, y>>] \in Ints(2 ^ k)
    BY <1>1 DEF LevelMap
<1> QED BY <1>3, <1>4 DEF KeepsLength

(* Two functions that agree on the halves make the same level. *)
LEMMA LevelAgrees ==
    ASSUME NEW k \in 1 .. Generator2Order, NEW r \in Ints(2 ^ k), NEW y \in Ints(2 ^ k),
           NEW f, NEW g, \A u, v \in Ints(2 ^ (k - 1)) : f[<<u, v>>] = g[<<u, v>>]
    PROVE  Level(f, <<r, y>>) = Level(g, <<r, y>>)
<1> DEFINE h == 2 ^ (k - 1)
<1>1. /\ h \in Nat /\ 2 ^ k = 2 * h
      /\ Level(f, <<r, y>>) = Butterfly(f, r, y, h)
      /\ Level(g, <<r, y>>) = Butterfly(g, r, y, h)
    BY LevelUp
<1>2. r \in Ints(2 * h) /\ y \in Ints(2 * h) BY <1>1
<1>3. HalfRoots(r, h) \in Ints(h) /\ HalfSums(y, h) \in Ints(h)
      /\ HalfDiffs(r, y, h) \in Ints(h)
    BY <1>1, <1>2, HalvesType
<1>4. /\ f[<<HalfRoots(r, h), HalfSums(y, h)>>] = g[<<HalfRoots(r, h), HalfSums(y, h)>>]
      /\ f[<<HalfRoots(r, h), HalfDiffs(r, y, h)>>] = g[<<HalfRoots(r, h), HalfDiffs(r, y, h)>>]
    BY <1>3
<1> QED BY <1>1, <1>4 DEF Butterfly

(* Some function is its own level: apply the level often enough. *)
LEMMA LevelFixed ==
    \E F \in KeepsLength : F = LevelMap(F)
<1> DEFINE G == 0 .. Generator2Order
           start == [a \in fft_input |-> a[2]]
           g == [x \in KeepsLength \X Nat |-> LevelMap(x[1])]
<1>1. start \in KeepsLength
    <2>1. start \in [fft_input -> Seq(Int)] BY DEF fft_input
    <2>2. ASSUME NEW k \in G, NEW r \in Ints(2 ^ k), NEW y \in Ints(2 ^ k)
          PROVE  start[<<r, y>>] \in Ints(2 ^ k)
        <3>1. <<r, y>> \in fft_input BY InputIs
        <3> QED BY <3>1
    <2> HIDE DEF start
    <2> QED BY <2>1, <2>2 DEF KeepsLength
<1>2. /\ g \in [KeepsLength \X Nat -> KeepsLength]
      /\ \A F \in KeepsLength, n \in Nat : g[<<F, n>>] = LevelMap(F)
    BY LevelKeeps
<1> HIDE DEF g, start
<1>3. PICK f \in [Nat -> KeepsLength] : RecursesDown(f, start, g) BY <1>1, <1>2, NatRecursion
<1>4. ASSUME NEW n \in Nat PROVE f[n + 1] = LevelMap(f[n])
    <2>1. n + 1 \in Nat /\ n + 1 # 0 /\ (n + 1) - 1 = n /\ f[n] \in KeepsLength OBVIOUS
    <2> QED BY <1>2, <1>3, <2>1 DEF RecursesDown
<1>5. ASSUME NEW k \in G, NEW r \in Ints(2 ^ k), NEW y \in Ints(2 ^ k), NEW n \in Nat
      PROVE  f[n + 1][<<r, y>>] = Level(f[n], <<r, y>>)
    <2>1. <<r, y>> \in fft_input BY InputIs
    <2> QED BY <1>4, <2>1 DEF LevelMap
<1> DEFINE Settled(k) == \A r, y \in Ints(2 ^ k) : \A n \in Nat :
                            n >= k => f[n + 1][<<r, y>>] = f[k + 1][<<r, y>>]
           P == {k \in Nat : k <= Generator2Order => Settled(k)}
<1>6. 0 \in P
    <2> SUFFICES ASSUME NEW r \in Ints(2 ^ 0), NEW y \in Ints(2 ^ 0), NEW n \in Nat
                 PROVE  f[n + 1][<<r, y>>] = f[0 + 1][<<r, y>>]
        OBVIOUS
    <2>1. 0 \in G BY GeneratorAssumption
    <2>2. f[n + 1][<<r, y>>] = Level(f[n], <<r, y>>) /\ f[0 + 1][<<r, y>>] = Level(f[0], <<r, y>>)
        BY <1>5, <2>1
    <2>3. Level(f[n], <<r, y>>) = y /\ Level(f[0], <<r, y>>) = y BY LevelLast
    <2> QED BY <2>2, <2>3
<1>7. ASSUME NEW k \in Nat, k \in P PROVE k + 1 \in P
    <2> SUFFICES ASSUME k + 1 <= Generator2Order,
                        NEW r \in Ints(2 ^ (k + 1)), NEW y \in Ints(2 ^ (k + 1)),
                        NEW n \in Nat, n >= k + 1
                 PROVE  f[n + 1][<<r, y>>] = f[(k + 1) + 1][<<r, y>>]
        OBVIOUS
    <2>1. k + 1 \in 1 .. Generator2Order /\ k + 1 \in G /\ k \in G /\ n - 1 \in Nat /\ n - 1 >= k /\ (n - 1) + 1 = n
          /\ k <= Generator2Order /\ (k + 1) - 1 = k /\ k + 1 # 0
        BY GeneratorAssumption
    <2>2. f[n + 1][<<r, y>>] = Level(f[n], <<r, y>>) BY <1>5, <2>1
    <2>3. f[(k + 1) + 1][<<r, y>>] = Level(f[k + 1], <<r, y>>) BY <1>5, <2>1
    <2>4. Settled(k) BY <1>7, <2>1
    <2>5. ASSUME NEW u \in Ints(2 ^ k), NEW v \in Ints(2 ^ k)
          PROVE  f[n][<<u, v>>] = f[k + 1][<<u, v>>]
        BY <2>1, <2>4
    <2>6. Level(f[n], <<r, y>>) = Level(f[k + 1], <<r, y>>)
        <3> DEFINE k1 == k + 1
                   p == f[n]
                   q == f[k + 1]
        <3>1. k1 \in 1 .. Generator2Order /\ k1 - 1 = k BY <2>1
        <3>2. r \in Ints(2 ^ k1) /\ y \in Ints(2 ^ k1) OBVIOUS
        <3>3. \A u, v \in Ints(2 ^ (k1 - 1)) : p[<<u, v>>] = q[<<u, v>>] BY <2>5, <3>1
        <3> HIDE DEF k1, p, q
        <3>4. Level(p, <<r, y>>) = Level(q, <<r, y>>) BY <3>1, <3>2, <3>3, LevelAgrees, ZenonT(30)
        <3> QED BY <3>4 DEF p, q
    <2> QED BY <2>2, <2>3, <2>6
<1>8. ASSUME NEW k \in G PROVE Settled(k)
    <2>1. k \in Nat /\ k <= Generator2Order BY GeneratorAssumption
    <2> HIDE DEF Settled
    <2>2. k \in P
        <3> HIDE DEF P
        <3> QED BY <1>6, <1>7, <2>1, NatInduct
    <2> QED BY <2>1, <2>2
<1> DEFINE F == f[Generator2Order + 1]
           H == f[Generator2Order + 2]
<1>9. F \in KeepsLength /\ H = LevelMap(F)
    <2>1. Generator2Order + 1 \in Nat /\ (Generator2Order + 1) + 1 = Generator2Order + 2
        BY GeneratorAssumption
    <2> QED BY <1>4, <2>1
<1>10. ASSUME NEW a \in fft_input PROVE H[a] = F[a]
    <2>1. a = <<a[1], a[2]>> BY DEF fft_input
    <2>2. PICK k \in G : a[1] \in Ints(2 ^ k) /\ a[2] \in Ints(2 ^ k) BY <2>1, InputIs
    <2>3. /\ Generator2Order \in Nat /\ Generator2Order >= k
          /\ Generator2Order + 1 \in Nat /\ Generator2Order + 1 >= k
          /\ (Generator2Order + 1) + 1 = Generator2Order + 2
        BY GeneratorAssumption
    <2>4. F[<<a[1], a[2]>>] = f[k + 1][<<a[1], a[2]>>] BY <1>8, <2>2, <2>3
    <2>5. H[<<a[1], a[2]>>] = f[k + 1][<<a[1], a[2]>>] BY <1>8, <2>2, <2>3
    <2> QED BY <2>1, <2>4, <2>5
<1>11. H \in KeepsLength BY <1>9, LevelKeeps
<1> HIDE DEF F, H
<1>12. H = F BY <1>9, <1>10, <1>11 DEF KeepsLength
<1> QED BY <1>9, <1>12

(* One level as poly.c writes it. *)
AsWritten(f, a) ==
    LET roots == a[1]
        ys    == a[2]
        n     == Len(ys)
        h     == n \div 2
        rootsSub == Array(h, LAMBDA i : roots[2 * i - 1])
        sums     == Array(h, LAMBDA i : addmod(ys[i], ys[i + h]))
        diffs    == Array(h, LAMBDA i : mulmod(submod(ys[i], ys[i + h]), roots[i]))
        even     == f[<<rootsSub, sums>>]
        odd      == f[<<rootsSub, diffs>>]
    IN  IF n = 1 THEN ys
        ELSE Array(n, LAMBDA i : IF i % 2 = 1 THEN even[(i + 1) \div 2] ELSE odd[i \div 2])

LEMMA AsWrittenLast ==
    ASSUME NEW r \in Ints(2 ^ 0), NEW y \in Ints(2 ^ 0), NEW f
    PROVE  AsWritten(f, <<r, y>>) = y
<1>1. 2 ^ 0 = 1 /\ 1 \in Nat OBVIOUS
<1>2. Len(y) = 1 BY <1>1, ArrayIs DEF Ints
<1> QED BY <1>2 DEF AsWritten

LEMMA AsWrittenUp ==
    ASSUME NEW k \in 1 .. Generator2Order, NEW r \in Ints(2 ^ k), NEW y \in Ints(2 ^ k), NEW f,
           \A u, v \in Ints(2 ^ (k - 1)) : f[<<u, v>>] \in Ints(2 ^ (k - 1))
    PROVE  AsWritten(f, <<r, y>>) = Level(f, <<r, y>>)
<1> DEFINE h == 2 ^ (k - 1)
           n == Len(y)
           even == f[<<HalfRoots(r, h), HalfSums(y, h)>>]
           odd == f[<<HalfRoots(r, h), HalfDiffs(r, y, h)>>]
<1>1. /\ h \in Nat /\ 2 ^ k = 2 * h
      /\ Level(f, <<r, y>>) = Butterfly(f, r, y, h)
    BY LevelUp
<1>2. r \in Ints(2 * h) /\ y \in Ints(2 * h) BY <1>1
<1>3. n = 2 * h
    <2>1. 2 * h \in Nat BY <1>1
    <2> QED BY <1>2, <2>1, ArrayIs DEF Ints
<1>4. HalfRoots(r, h) \in Ints(h) /\ HalfSums(y, h) \in Ints(h)
      /\ HalfDiffs(r, y, h) \in Ints(h)
    BY <1>1, <1>2, HalvesType
<1>5. even \in Ints(h) /\ odd \in Ints(h) BY <1>4
<1>6. Weave(even, odd, n) \in Ints(n) BY <1>1, <1>3, <1>5, WeaveType
<1>7. n # 1 /\ n \div 2 = h /\ n \in Nat BY <1>1, <1>3
<1> HIDE DEF h, n
<1>8. /\ <<>> \o HalfRoots(r, h) = HalfRoots(r, h)
      /\ <<>> \o HalfSums(y, h) = HalfSums(y, h)
      /\ <<>> \o HalfDiffs(r, y, h) = HalfDiffs(r, y, h)
      /\ <<>> \o Weave(even, odd, n) = Weave(even, odd, n)
    <2> HIDE DEF even, odd
    <2>1. h \in Nat /\ n \in Nat BY <1>1, <1>7
    <2> QED BY <1>4, <1>6, <2>1, ArrayIs DEF Ints
<1>9. AsWritten(f, <<r, y>>) =
        IF n = 1 THEN y
        ELSE <<>> \o Weave(f[<<<<>> \o HalfRoots(r, n \div 2), <<>> \o HalfSums(y, n \div 2)>>],
                           f[<<<<>> \o HalfRoots(r, n \div 2), <<>> \o HalfDiffs(r, y, n \div 2)>>], n)
    BY DEF AsWritten, Array, HalfRoots, HalfSums, HalfDiffs, Weave, n
<1>10. AsWritten(f, <<r, y>>) = Weave(even, odd, n) BY <1>7, <1>8, <1>9
<1> QED BY <1>1, <1>3, <1>10 DEF Butterfly

(* fft_recurse returns as many integers as it is given, each level made of *)
(* the results on the halves.                                              *)
LEMMA FFTFixed == fft_recurse \in KeepsLength /\ fft_recurse = LevelMap(fft_recurse)
<1> DEFINE Body(f) == [a \in fft_input |-> AsWritten(f, a)]
           S == CHOOSE f : f = Body(f)
<1>1. fft_recurse = S BY DEF fft_recurse, AsWritten
<1>2. PICK F \in KeepsLength : F = LevelMap(F) BY LevelFixed
<1>3. ASSUME NEW f, NEW k \in 0 .. Generator2Order, NEW r \in Ints(2 ^ k), NEW y \in Ints(2 ^ k),
             k # 0 => \A u, v \in Ints(2 ^ (k - 1)) : f[<<u, v>>] = F[<<u, v>>]
      PROVE  AsWritten(f, <<r, y>>) = F[<<r, y>>]
    <2>1. F[<<r, y>>] = Level(F, <<r, y>>)
        <3>1. <<r, y>> \in fft_input BY InputIs
        <3> QED BY <1>2, <3>1 DEF LevelMap
    <2>2. CASE k = 0
        <3>1. r \in Ints(2 ^ 0) /\ y \in Ints(2 ^ 0) BY <2>2
        <3>2. AsWritten(f, <<r, y>>) = y /\ Level(F, <<r, y>>) = y BY <3>1, AsWrittenLast, LevelLast
        <3> QED BY <2>1, <3>2
    <2>3. CASE k \in 1 .. Generator2Order
        <3>1. k - 1 \in 0 .. Generator2Order BY <2>3, GeneratorAssumption
        <3>2. k # 0 BY <2>3
        <3>3. \A u, v \in Ints(2 ^ (k - 1)) : f[<<u, v>>] = F[<<u, v>>] BY <1>3, <3>2, Zenon
        <3>4. \A u, v \in Ints(2 ^ (k - 1)) : f[<<u, v>>] \in Ints(2 ^ (k - 1))
            BY <3>1, <3>3 DEF KeepsLength
        <3>5. AsWritten(f, <<r, y>>) = Level(f, <<r, y>>) BY <2>3, <3>4, AsWrittenUp
        <3>6. Level(f, <<r, y>>) = Level(F, <<r, y>>) BY <2>3, <3>3, LevelAgrees
        <3> QED BY <2>1, <3>5, <3>6
    <2> QED BY <2>2, <2>3
<1>4. F = Body(F)
    <2>1. ASSUME NEW a \in fft_input PROVE AsWritten(F, a) = F[a]
        <3>1. a = <<a[1], a[2]>> BY DEF fft_input
        <3>2. PICK k \in 0 .. Generator2Order : a[1] \in Ints(2 ^ k) /\ a[2] \in Ints(2 ^ k)
            BY <3>1, InputIs
        <3>3. AsWritten(F, <<a[1], a[2]>>) = F[<<a[1], a[2]>>] BY <1>3, <3>2
        <3> QED BY <3>1, <3>3
    <2> QED BY <2>1 DEF KeepsLength
<1>5. S = Body(S) BY <1>4
<1> HIDE DEF S
<1> DEFINE P == {k \in Nat : k <= Generator2Order =>
                              \A r, y \in Ints(2 ^ k) : S[<<r, y>>] = F[<<r, y>>]}
<1>6. ASSUME NEW k \in Nat, k <= Generator2Order, k # 0 => k - 1 \in P,
             NEW r \in Ints(2 ^ k), NEW y \in Ints(2 ^ k)
      PROVE  S[<<r, y>>] = F[<<r, y>>]
    <2>1. k \in 0 .. Generator2Order BY <1>6
    <2>2. <<r, y>> \in fft_input BY <2>1, InputIs
    <2>3. S[<<r, y>>] = AsWritten(S, <<r, y>>) BY <1>5, <2>2
    <2>4. ASSUME k # 0 PROVE \A u, v \in Ints(2 ^ (k - 1)) : S[<<u, v>>] = F[<<u, v>>]
        <3>1. k - 1 <= Generator2Order BY <1>6, GeneratorAssumption
        <3>2. k - 1 \in P BY <1>6, <2>4
        <3> QED BY <3>1, <3>2, Zenon
    <2> QED BY <1>3, <2>1, <2>3, <2>4
<1>7. 0 \in P BY <1>6
<1>8. ASSUME NEW k \in Nat, k \in P PROVE k + 1 \in P
    <2> SUFFICES ASSUME k + 1 <= Generator2Order,
                        NEW r \in Ints(2 ^ (k + 1)), NEW y \in Ints(2 ^ (k + 1))
                 PROVE  S[<<r, y>>] = F[<<r, y>>]
        OBVIOUS
    <2> DEFINE k1 == k + 1
    <2>1. k1 \in Nat /\ k1 <= Generator2Order /\ k1 - 1 \in P BY <1>8
    <2>2. r \in Ints(2 ^ k1) /\ y \in Ints(2 ^ k1) OBVIOUS
    <2> HIDE DEF k1
    <2> QED BY <1>6, <2>1, <2>2
<1> HIDE DEF P
<1>9. \A k \in Nat : k \in P BY <1>7, <1>8, NatInduct
<1>10. ASSUME NEW a \in fft_input PROVE S[a] = F[a]
    <2>1. a = <<a[1], a[2]>> BY DEF fft_input
    <2>2. PICK k \in 0 .. Generator2Order : a[1] \in Ints(2 ^ k) /\ a[2] \in Ints(2 ^ k)
        BY <2>1, InputIs
    <2>3. k \in Nat /\ k <= Generator2Order BY GeneratorAssumption
    <2>4. S[<<a[1], a[2]>>] = F[<<a[1], a[2]>>] BY <1>9, <2>2, <2>3 DEF P
    <2> QED BY <2>1, <2>4
<1>11. S = [a \in fft_input |-> S[a]] BY <1>5
<1>12. S = F BY <1>10, <1>11 DEF KeepsLength
<1> QED BY <1>1, <1>2, <1>12

(* The coefficients of an array, zero from its end on. *)
Ext(y) == [i \in Nat |-> IF i + 1 \in DOMAIN y THEN y[i + 1] ELSE 0]

LEMMA ExtType ==
    ASSUME NEW n \in Nat, NEW y \in Ints(n)
    PROVE  /\ Ext(y) \in Terms
           /\ \A i \in 0 .. n - 1 : Ext(y)[i] = y[i + 1] /\ y[i + 1] \in Int
<1>1. DOMAIN y = 1 .. n BY DEF Ints
<1>2. ASSUME NEW i \in Nat PROVE i + 1 \in DOMAIN y => y[i + 1] \in Int BY DEF Ints
<1>3. ASSUME NEW i \in 0 .. n - 1 PROVE i \in Nat /\ i + 1 \in 1 .. n OBVIOUS
<1> QED BY <1>1, <1>2, <1>3 DEF Ext, Terms

(* The terms of the polynomial with coefficients p at x, *)
PolyTerms(p, x) == [i \in Nat |-> p[i] * Pow(x, i)]

(* and its value, of degree below n. *)
PolyAt(p, n, x) == Sigma(PolyTerms(p, x), n)

LEMMA PolyTermsType ==
    ASSUME NEW p \in Terms, NEW x \in Int
    PROVE  /\ PolyTerms(p, x) \in Terms
           /\ \A i \in Nat : PolyTerms(p, x)[i] = p[i] * Pow(x, i)
           /\ \A n \in Nat : PolyAt(p, n, x) \in Int
<1>1. \A i \in Nat : p[i] \in Int /\ Pow(x, i) \in Int BY PowStep DEF Terms
<1>2. PolyTerms(p, x) \in Terms BY <1>1 DEF PolyTerms, Terms
<1> QED BY <1>2, SigmaStep DEF PolyTerms, PolyAt

(* Polynomials with congruent terms have congruent values. *)
LEMMA PolyCong ==
    ASSUME NEW p \in Terms, NEW q \in Terms, NEW x \in Int, NEW z \in Int, NEW n \in Nat,
           \A i \in 0 .. n - 1 : Cong(p[i] * Pow(x, i), q[i] * Pow(z, i))
    PROVE  Cong(PolyAt(p, n, x), PolyAt(q, n, z))
<1> DEFINE f == PolyTerms(p, x)
           g == PolyTerms(q, z)
<1>1. f \in Terms /\ g \in Terms BY PolyTermsType
<1>2. \A i \in 0 .. n - 1 : Cong(f[i], g[i])
    <2>1. \A i \in 0 .. n - 1 : i \in Nat OBVIOUS
    <2>2. \A i \in Nat : f[i] = p[i] * Pow(x, i) /\ g[i] = q[i] * Pow(z, i) BY PolyTermsType
    <2> HIDE DEF f, g
    <2> QED BY <2>1, <2>2
<1> HIDE DEF f, g
<1>3. Cong(Sigma(f, n), Sigma(g, n)) BY <1>1, <1>2, SigmaCong
<1> QED BY <1>3 DEF f, g, PolyAt

LEMMA CongScale ==
    ASSUME NEW a \in Int, NEW b \in Int, NEW c \in Int, Cong(a, b)
    PROVE  Cong(a * c, b * c) /\ Cong(c * a, c * b)
<1>1. Cong(c, c) BY CongRefl
<1> QED BY <1>1, CongMul

(* Where x to the power h is s, a polynomial of twice the length folds.    *)
LEMMA PolyFold ==
    ASSUME NEW p \in Terms, NEW q \in Terms, NEW x \in Int, NEW s \in Int, NEW h \in Nat,
           Cong(Pow(x, h), s), \A i \in 0 .. h - 1 : Cong(q[i], p[i] + s * p[i + h])
    PROVE  Cong(PolyAt(p, 2 * h, x), PolyAt(q, h, x))
<1> DEFINE f == PolyTerms(p, x)
           g == [i \in Nat |-> f[i + h]]
           e == [i \in Nat |-> 1 * f[i] + 1 * g[i]]
           t == PolyTerms(q, x)
<1>1. f \in Terms /\ t \in Terms BY PolyTermsType
<1>2. \A i \in Nat : f[i] = p[i] * Pow(x, i) /\ t[i] = q[i] * Pow(x, i) BY PolyTermsType
<1> HIDE DEF f, t
<1>3. g \in Terms BY <1>1 DEF Terms
<1>4. \A i \in 0 .. h - 1 : g[i] = f[i + h] OBVIOUS
<1> HIDE DEF g
<1>5. e \in Terms BY <1>1, <1>3 DEF Terms
<1>6. \A i \in 0 .. h - 1 : e[i] = 1 * f[i] + 1 * g[i] OBVIOUS
<1> HIDE DEF e
<1>7. Sigma(f, h + h) = Sigma(f, h) + Sigma(g, h) BY <1>1, <1>3, <1>4, SigmaSplit
<1>8. Sigma(e, h) = 1 * Sigma(f, h) + 1 * Sigma(g, h) BY <1>1, <1>3, <1>5, <1>6, SigmaLinear
<1>9. Sigma(f, h) \in Int /\ Sigma(g, h) \in Int BY <1>1, <1>3, SigmaStep
<1>10. Sigma(f, 2 * h) = Sigma(e, h) BY <1>7, <1>8, <1>9
<1>11. ASSUME NEW i \in 0 .. h - 1 PROVE Cong(t[i], e[i])
    <2> DEFINE a == Pow(x, i)
               b == Pow(x, h)
               u == p[i]
               v == p[i + h]
    <2>1. i \in Nat /\ i + h \in Nat OBVIOUS
    <2>2. a \in Int /\ b \in Int /\ Pow(x, i + h) = a * b BY <2>1, PowStep, PowSum
    <2>3. u \in Int /\ v \in Int /\ q[i] \in Int BY <2>1 DEF Terms
    <2>4. e[i] = u * a + v * (a * b)
        <3>1. f[i] = u * a /\ f[i + h] = v * Pow(x, i + h) BY <1>2, <2>1
        <3>2. g[i] = v * (a * b) BY <1>4, <2>2, <3>1
        <3>3. e[i] = 1 * f[i] + 1 * g[i] BY <1>6
        <3> HIDE DEF a, b, u, v
        <3> QED BY <2>2, <2>3, <3>1, <3>2, <3>3
    <2>5. t[i] = q[i] * a BY <1>2, <2>1
    <2>6. Cong(q[i], u + s * v) BY <2>1
    <2>7. Cong(b, s) OBVIOUS
    <2> HIDE DEF a, b, u, v
    <2>8. Cong(q[i] * a, (u + s * v) * a)
        <3>1. u + s * v \in Int BY <2>3
        <3> QED BY <2>2, <2>3, <2>6, <3>1, CongScale
    <2>9. Cong((u * a + v * (a * b)), (u + s * v) * a)
        <3>1. PICK k \in Int : b = s + Modulus * k BY <2>7 DEF Cong
        <3> DEFINE va == v * a
        <3>2. va \in Int /\ v * (a * b) = va * b /\ (u + s * v) * a = u * a + va * s
              /\ u * a \in Int
            BY <2>2, <2>3
        <3> HIDE DEF va
        <3>3. va * (s + Modulus * k) = va * s + Modulus * (va * k)
            BY <3>2, ModulusAssumption
        <3>4. va * k \in Int BY <3>2
        <3> DEFINE X == u * a
                   Y == va * s
                   Z == Modulus * (va * k)
        <3>5. X \in Int /\ Y \in Int /\ Z \in Int BY <3>2, <3>4, ModulusAssumption
        <3>6. u * a + v * (a * b) = X + (Y + Z) BY <3>1, <3>2, <3>3
        <3>7. (u + s * v) * a = X + Y BY <3>2
        <3>8. X + (Y + Z) = (X + Y) + Z BY <3>5
        <3>9. u * a + v * (a * b) = (u + s * v) * a + Modulus * (va * k)
            BY <3>6, <3>7, <3>8
        <3> QED BY <3>4, <3>9 DEF Cong
    <2>10. q[i] * a \in Int /\ (u + s * v) * a \in Int /\ u * a + v * (a * b) \in Int
        BY <2>2, <2>3
    <2>11. Cong((u + s * v) * a, u * a + v * (a * b)) BY <2>9, <2>10, CongSym
    <2>12. Cong(q[i] * a, u * a + v * (a * b)) BY <2>8, <2>10, <2>11, CongTrans
    <2> QED BY <2>4, <2>5, <2>12
<1>12. Cong(Sigma(t, h), Sigma(e, h)) BY <1>1, <1>5, <1>11, SigmaCong
<1>13. Sigma(t, h) \in Int /\ Sigma(e, h) \in Int BY <1>1, <1>5, SigmaStep
<1>14. Cong(Sigma(e, h), Sigma(t, h)) BY <1>12, <1>13, CongSym
<1> QED BY <1>10, <1>14 DEF f, t, PolyAt

(* Powers of one and of minus one. *)
LEMMA PowUnit ==
    ASSUME NEW m \in Nat
    PROVE  Pow(1, m) = 1 /\ Pow(-1, 2 * m) = 1 /\ Pow(-1, 2 * m + 1) = -1
<1> DEFINE P == {k \in Nat : Pow(1, k) = 1}
<1>1. 0 \in P
    <2>1. Pow(1, 0) = 1 BY PowStep
    <2> QED BY <2>1
<1>2. ASSUME NEW k \in Nat, k \in P PROVE k + 1 \in P
    <2>1. Pow(1, k + 1) = Pow(1, k) * 1 BY PowStep
    <2> QED BY <1>2, <2>1
<1> HIDE DEF P
<1>3. m \in P BY <1>1, <1>2, NatInduct
<1>4. Pow(1, m) = 1 BY <1>3 DEF P
<1>5. Pow(-1, 2) = 1
    <2> DEFINE z == -1
    <2>1. z \in Int /\ z * z = 1 /\ 1 * z = z /\ 0 + 1 = 1 /\ 1 + 1 = 2 OBVIOUS
    <2> HIDE DEF z
    <2>2. Pow(z, 0) = 1 /\ Pow(z, 0 + 1) = Pow(z, 0) * z BY <2>1, PowStep
    <2>3. Pow(z, 1) = z BY <2>1, <2>2
    <2>4. Pow(z, 1 + 1) = Pow(z, 1) * z BY <2>1, PowStep
    <2>5. Pow(z, 2) = 1 BY <2>1, <2>3, <2>4
    <2> QED BY <2>5 DEF z
<1>6. Pow(-1, 2 * m) = Pow(Pow(-1, 2), m)
    <2>1. -1 \in Int /\ 2 \in Nat OBVIOUS
    <2> QED BY <2>1, PowMul
<1>7. Pow(-1, 2 * m) = 1 BY <1>4, <1>5, <1>6
<1>8. Pow(-1, 2 * m + 1) = Pow(-1, 2 * m) * (-1)
    <2>1. -1 \in Int /\ 2 * m \in Nat OBVIOUS
    <2> QED BY <2>1, PowStep
<1>9. Pow(-1, 2 * m + 1) = -1 BY <1>7, <1>8
<1> QED BY <1>4, <1>7, <1>9

(* w generates the 2^k-th roots of unity: half way round it is -1. *)
PrimitiveRoot(w, k) == w \in Int /\ (k # 0 => Cong(Pow(w, 2 ^ (k - 1)), -1))

(* The table holds the powers of w. *)
RootTable(r, w, k) == r \in Ints(2 ^ k) /\ \A i \in 1 .. 2 ^ k : Cong(r[i], Pow(w, i - 1))

LEMMA PowTwo ==
    ASSUME NEW w \in Int
    PROVE  Pow(w, 1) = w /\ Pow(w, 2) = w * w
<1>1. Pow(w, 0) = 1 /\ Pow(w, 0 + 1) = Pow(w, 0) * w BY PowStep
<1>2. 0 + 1 = 1 /\ 1 + 1 = 2 /\ 1 * w = w OBVIOUS
<1>3. Pow(w, 1) = w BY <1>1, <1>2
<1>4. Pow(w, 1 + 1) = Pow(w, 1) * w BY PowStep
<1> QED BY <1>2, <1>3, <1>4

LEMMA PowSquare ==
    ASSUME NEW w \in Int, NEW m \in Nat
    PROVE  Pow(w * w, m) = Pow(w, 2 * m)
<1>1. 2 \in Nat /\ Pow(w, 2) = w * w BY PowTwo
<1>2. Pow(w, 2 * m) = Pow(Pow(w, 2), m) BY <1>1, PowMul
<1> QED BY <1>1, <1>2

(* Its square generates the roots of half the order, *)
LEMMA RootSquare ==
    ASSUME NEW k \in Nat, k # 0, NEW w, PrimitiveRoot(w, k)
    PROVE  PrimitiveRoot(w * w, k - 1)
<1>1. w \in Int /\ w * w \in Int /\ Cong(Pow(w, 2 ^ (k - 1)), -1) BY DEF PrimitiveRoot
<1>2. ASSUME k - 1 # 0 PROVE Cong(Pow(w * w, 2 ^ ((k - 1) - 1)), -1)
    <2>1. k - 2 \in Nat /\ (k - 2) + 1 = k - 1 /\ (k - 1) - 1 = k - 2 BY <1>2
    <2>2. 2 ^ (k - 1) = 2 * 2 ^ (k - 2) /\ 2 ^ (k - 2) \in Nat BY <2>1, PowerStep
    <2>3. Pow(w * w, 2 ^ (k - 2)) = Pow(w, 2 * 2 ^ (k - 2)) BY <1>1, <2>2, PowSquare
    <2> QED BY <1>1, <2>1, <2>2, <2>3
<1> QED BY <1>1, <1>2 DEF PrimitiveRoot

(* and every other entry of the table holds its powers. *)
LEMMA TableHalf ==
    ASSUME NEW k \in 1 .. Generator2Order, NEW w \in Int, NEW r, RootTable(r, w, k)
    PROVE  RootTable(HalfRoots(r, 2 ^ (k - 1)), w * w, k - 1)
<1> DEFINE h == 2 ^ (k - 1)
<1>1. r \in Ints(2 ^ k) /\ \A i \in 1 .. 2 ^ k : Cong(r[i], Pow(w, i - 1)) BY DEF RootTable
<1>2. h \in Nat /\ 2 ^ k = 2 * h BY <1>1, LevelUp
<1>3. r \in Ints(2 * h) BY <1>1, <1>2
<1>4. HalfRoots(r, h) \in Ints(h) BY <1>2, <1>3, HalvesType
<1>5. ASSUME NEW i \in 1 .. h PROVE Cong(HalfRoots(r, h)[i], Pow(w * w, i - 1))
    <2>1. 2 * i - 1 \in 1 .. 2 * h /\ i - 1 \in Nat /\ (2 * i - 1) - 1 = 2 * (i - 1) BY <1>2
    <2>2. HalfRoots(r, h)[i] = r[2 * i - 1] BY DEF HalfRoots
    <2>3. Cong(r[2 * i - 1], Pow(w, (2 * i - 1) - 1)) BY <1>1, <1>2, <2>1
    <2>4. Pow(w * w, i - 1) = Pow(w, 2 * (i - 1)) BY <2>1, PowSquare
    <2> QED BY <2>1, <2>2, <2>3, <2>4
<1> QED BY <1>4, <1>5 DEF RootTable

(* At an even root the half sums have the value of all the points, *)
LEMMA EvenRoot ==
    ASSUME NEW h \in Nat, NEW w \in Int, Cong(Pow(w, h), -1), NEW y \in Ints(2 * h), NEW m \in Nat
    PROVE  Cong(PolyAt(Ext(y), 2 * h, Pow(w, 2 * m)),
                PolyAt(Ext(HalfSums(y, h)), h, Pow(w, 2 * m)))
<1> DEFINE x == Pow(w, 2 * m)
           p == Ext(y)
           q == Ext(HalfSums(y, h))
<1>1. 2 * h \in Nat /\ 2 * m \in Nat OBVIOUS
<1>2. x \in Int BY <1>1, PowStep
<1>3. Cong(Pow(x, h), 1)
    <2>1. Pow(x, h) = Pow(w, (2 * m) * h) BY <1>1, PowMul
    <2>2. (2 * m) * h = h * (2 * m) OBVIOUS
    <2>3. Pow(w, h * (2 * m)) = Pow(Pow(w, h), 2 * m) BY <1>1, PowMul
    <2>4. Cong(Pow(Pow(w, h), 2 * m), Pow(-1, 2 * m))
        <3>1. Pow(w, h) \in Int /\ -1 \in Int BY PowStep
        <3> QED BY <1>1, <3>1, PowCong
    <2> QED BY <2>1, <2>2, <2>3, <2>4, PowUnit
<1>4. y \in Ints(2 * h) /\ HalfSums(y, h) \in Ints(h) BY HalvesType
<1>5. p \in Terms /\ q \in Terms BY <1>1, <1>4, ExtType
<1>6. ASSUME NEW i \in 0 .. h - 1 PROVE Cong(q[i], p[i] + 1 * p[i + h])
    <2>1. i \in 0 .. 2 * h - 1 /\ i + h \in 0 .. 2 * h - 1 /\ i + 1 \in 1 .. h OBVIOUS
    <2>2. p[i] = y[i + 1] /\ y[i + 1] \in Int BY <1>1, <2>1, ExtType
    <2>3. p[i + h] = y[(i + h) + 1] /\ y[(i + h) + 1] \in Int BY <1>1, <2>1, ExtType
    <2>4. q[i] = HalfSums(y, h)[i + 1] BY <1>4, ExtType
    <2>5. HalfSums(y, h)[i + 1] = addmod(y[i + 1], y[(i + 1) + h]) BY <2>1 DEF HalfSums
    <2>6. (i + 1) + h = (i + h) + 1 OBVIOUS
    <2>7. Cong(addmod(y[i + 1], y[(i + h) + 1]), y[i + 1] + y[(i + h) + 1])
        BY <2>2, <2>3, OpsCong
    <2>8. p[i] + 1 * p[i + h] = y[i + 1] + y[(i + h) + 1] BY <2>2, <2>3
    <2> QED BY <2>4, <2>5, <2>6, <2>7, <2>8
<1> HIDE DEF p, q, x
<1>7. 1 \in Int OBVIOUS
<1>8. Cong(PolyAt(p, 2 * h, x), PolyAt(q, h, x)) BY <1>2, <1>3, <1>5, <1>6, <1>7, PolyFold
<1> QED BY <1>8 DEF p, q, x

(* and at an odd root the scaled half differences have it. *)
LEMMA OddRoot ==
    ASSUME NEW h \in Nat, NEW w \in Int, Cong(Pow(w, h), -1), NEW y \in Ints(2 * h), NEW m \in Nat,
           NEW r \in Ints(2 * h), \A i \in 1 .. 2 * h : Cong(r[i], Pow(w, i - 1))
    PROVE  Cong(PolyAt(Ext(y), 2 * h, Pow(w, 2 * m + 1)),
                PolyAt(Ext(HalfDiffs(r, y, h)), h, Pow(w, 2 * m)))
<1> DEFINE x == Pow(w, 2 * m + 1)
           z == Pow(w, 2 * m)
           p == Ext(y)
           q == [i \in Nat |-> p[i] + (-1) * p[i + h]]
           d == Ext(HalfDiffs(r, y, h))
<1>1. 2 * h \in Nat /\ 2 * m \in Nat /\ 2 * m + 1 \in Nat OBVIOUS
<1>2. x \in Int /\ z \in Int /\ x = z * w BY <1>1, PowStep
<1>3. Cong(Pow(x, h), -1)
    <2>1. Pow(x, h) = Pow(w, (2 * m + 1) * h) BY <1>1, PowMul
    <2>2. (2 * m + 1) * h = h * (2 * m + 1) OBVIOUS
    <2>3. Pow(w, h * (2 * m + 1)) = Pow(Pow(w, h), 2 * m + 1) BY <1>1, PowMul
    <2>4. Cong(Pow(Pow(w, h), 2 * m + 1), Pow(-1, 2 * m + 1))
        <3>1. Pow(w, h) \in Int /\ -1 \in Int BY PowStep
        <3> QED BY <1>1, <3>1, PowCong
    <2> QED BY <2>1, <2>2, <2>3, <2>4, PowUnit
<1>4. y \in Ints(2 * h) /\ HalfDiffs(r, y, h) \in Ints(h) BY HalvesType
<1>5. p \in Terms /\ d \in Terms BY <1>1, <1>4, ExtType
<1>6. q \in Terms
    <2> HIDE DEF p
    <2> QED BY <1>5 DEF Terms
<1>7. ASSUME NEW i \in 0 .. h - 1 PROVE Cong(q[i], p[i] + (-1) * p[i + h])
    <2>1. i \in Nat /\ i + h \in Nat OBVIOUS
    <2>2. p[i] \in Int /\ p[i + h] \in Int BY <1>5, <2>1 DEF Terms
    <2> HIDE DEF p
    <2>3. q[i] = p[i] + (-1) * p[i + h] /\ q[i] \in Int BY <2>1, <2>2
    <2> HIDE DEF q
    <2>4. Cong(q[i], q[i]) BY <2>3, CongRefl
    <2> QED BY <2>3, <2>4
<1>8. Cong(PolyAt(p, 2 * h, x), PolyAt(q, h, x))
    <2> HIDE DEF p, q, x
    <2>1. -1 \in Int OBVIOUS
    <2> QED BY <1>2, <1>3, <1>5, <1>6, <1>7, <2>1, PolyFold
<1>9. ASSUME NEW i \in 0 .. h - 1 PROVE Cong(q[i] * Pow(x, i), d[i] * Pow(z, i))
    <2>1. i \in Nat /\ i \in 0 .. 2 * h - 1 /\ i + h \in 0 .. 2 * h - 1 /\ i + 1 \in 1 .. h
          /\ i + 1 \in 1 .. 2 * h /\ (i + 1) - 1 = i
        OBVIOUS
    <2> DEFINE a == y[i + 1]
               b == y[(i + h) + 1]
               c == r[i + 1]
               u == Pow(w, i)
               v == Pow(z, i)
    <2>2. p[i] = a /\ a \in Int BY <1>1, <2>1, ExtType
    <2>3. p[i + h] = b /\ b \in Int BY <1>1, <2>1, ExtType
    <2>4. c \in Int /\ Cong(c, u) /\ u \in Int /\ v \in Int
        <3>1. c \in Int BY <2>1 DEF Ints
        <3>2. Cong(c, Pow(w, (i + 1) - 1)) BY <2>1
        <3> QED BY <1>2, <2>1, <3>1, <3>2, PowStep
    <2>5. d[i] = mulmod(submod(a, b), c)
        <3>1. d[i] = HalfDiffs(r, y, h)[i + 1] BY <1>4, ExtType
        <3>2. HalfDiffs(r, y, h)[i + 1] = mulmod(submod(y[i + 1], y[(i + 1) + h]), r[i + 1])
            BY <2>1 DEF HalfDiffs
        <3>3. (i + 1) + h = (i + h) + 1 OBVIOUS
        <3> QED BY <3>1, <3>2, <3>3
    <2>6. Pow(x, i) = v * u BY <1>2, <2>1, PowProduct
    <2>7. q[i] = a - b
        <3> HIDE DEF p, a, b
        <3> QED BY <2>1, <2>2, <2>3
    <2> HIDE DEF a, b, c, u, v, p, q, d, x, z
    <2>8. submod(a, b) \in Int /\ Cong(submod(a, b), a - b) BY <2>2, <2>3, OpsCong, FieldInt
    <2>9. /\ mulmod(submod(a, b), c) \in Int
          /\ Cong(mulmod(submod(a, b), c), (a - b) * u)
        BY <2>2, <2>3, <2>4, <2>8, OpsCong2
    <2>10. Cong(d[i] * v, ((a - b) * u) * v)
        <3>1. (a - b) * u \in Int BY <2>2, <2>3, <2>4
        <3> QED BY <2>4, <2>5, <2>9, <3>1, CongScale
    <2>11. q[i] * Pow(x, i) = ((a - b) * u) * v
        <3> DEFINE e == a - b
        <3>1. e \in Int /\ q[i] = e BY <2>2, <2>3, <2>7
        <3> HIDE DEF e
        <3>2. e * (v * u) = (e * u) * v BY <2>4, <3>1
        <3> QED BY <2>6, <3>1, <3>2 DEF e
    <2>12. d[i] * v \in Int /\ ((a - b) * u) * v \in Int BY <2>2, <2>3, <2>4, <2>5, <2>9
    <2>13. Cong(((a - b) * u) * v, d[i] * v) BY <2>10, <2>12, CongSym
    <2> QED BY <2>11, <2>13 DEF v
<1> HIDE DEF p, q, d, x, z
<1>10. Cong(PolyAt(q, h, x), PolyAt(d, h, z)) BY <1>2, <1>5, <1>6, <1>9, PolyCong
<1>11. PolyAt(p, 2 * h, x) \in Int /\ PolyAt(q, h, x) \in Int /\ PolyAt(d, h, z) \in Int
    BY <1>1, <1>2, <1>5, <1>6, PolyTermsType
<1>12. Cong(PolyAt(p, 2 * h, x), PolyAt(d, h, z)) BY <1>8, <1>10, <1>11, CongTrans
<1> QED BY <1>12 DEF p, d, x, z

(* fft_recurse on 2^k points evaluates at the powers of w. *)
Evaluates(k) ==
    \A w \in Int, r, y \in Ints(2 ^ k) :
        PrimitiveRoot(w, k) /\ RootTable(r, w, k) =>
            \A j \in 0 .. 2 ^ k - 1 :
                Cong(fft_recurse[<<r, y>>][j + 1], PolyAt(Ext(y), 2 ^ k, Pow(w, j)))

LEMMA EvaluatesLast == Evaluates(0)
<1> SUFFICES ASSUME NEW w \in Int, NEW r \in Ints(2 ^ 0), NEW y \in Ints(2 ^ 0),
                    NEW j \in 0 .. 2 ^ 0 - 1
             PROVE  Cong(fft_recurse[<<r, y>>][j + 1], PolyAt(Ext(y), 2 ^ 0, Pow(w, j)))
    BY DEF Evaluates
<1>1. 2 ^ 0 = 1 /\ j = 0 /\ 0 \in 0 .. Generator2Order
    <2>1. 2 ^ 0 = 1 OBVIOUS
    <2> QED BY <2>1, GeneratorAssumption
<1>2. <<r, y>> \in fft_input BY <1>1, InputIs
<1>3. fft_recurse[<<r, y>>] = y
    <2>1. fft_recurse[<<r, y>>] = Level(fft_recurse, <<r, y>>) BY <1>2, FFTFixed DEF LevelMap
    <2> QED BY <2>1, LevelLast
<1> DEFINE x == Pow(w, j)
           f == PolyTerms(Ext(y), x)
<1>4. x \in Int BY <1>1, PowStep
<1>5. y \in Ints(1) /\ 1 \in Nat /\ 0 \in 0 .. 1 - 1 BY <1>1
<1>6. Ext(y) \in Terms /\ Ext(y)[0] = y[0 + 1] /\ y[0 + 1] \in Int BY <1>5, ExtType
<1>7. f \in Terms /\ f[0] = Ext(y)[0] * Pow(x, 0) BY <1>4, <1>6, PolyTermsType
<1>8. Pow(x, 0) = 1 BY <1>4, PowStep
<1> HIDE DEF f, x
<1>9. Sigma(f, 0) = 0 /\ Sigma(f, 0 + 1) = Sigma(f, 0) + f[0] BY <1>7, SigmaStep
<1>10. 0 + 1 = 1 OBVIOUS
<1>11. Sigma(f, 1) = y[1] /\ y[1] \in Int BY <1>6, <1>7, <1>8, <1>9, <1>10
<1>12. PolyAt(Ext(y), 2 ^ 0, x) = y[1] BY <1>1, <1>11 DEF PolyAt, f
<1>13. Cong(y[1], y[1]) BY <1>11, CongRefl
<1> QED BY <1>1, <1>3, <1>10, <1>12, <1>13 DEF x

LEMMA EvaluatesUp ==
    ASSUME NEW k \in 1 .. Generator2Order, Evaluates(k - 1)
    PROVE  Evaluates(k)
<1> SUFFICES ASSUME NEW w \in Int, NEW r \in Ints(2 ^ k), NEW y \in Ints(2 ^ k),
                    PrimitiveRoot(w, k), RootTable(r, w, k), NEW j \in 0 .. 2 ^ k - 1
             PROVE  Cong(fft_recurse[<<r, y>>][j + 1], PolyAt(Ext(y), 2 ^ k, Pow(w, j)))
    BY DEF Evaluates
<1> DEFINE h == 2 ^ (k - 1)
           w2 == w * w
           rs == HalfRoots(r, h)
           sums == HalfSums(y, h)
           diffs == HalfDiffs(r, y, h)
           even == fft_recurse[<<rs, sums>>]
           odd == fft_recurse[<<rs, diffs>>]
<1>1. /\ k - 1 \in 0 .. Generator2Order /\ k \in 0 .. Generator2Order
      /\ h \in Nat /\ 2 ^ k = 2 * h
      /\ Level(fft_recurse, <<r, y>>) = Butterfly(fft_recurse, r, y, h)
    BY LevelUp
<1>2. r \in Ints(2 * h) /\ y \in Ints(2 * h) BY <1>1
<1>3. rs \in Ints(h) /\ sums \in Ints(h) /\ diffs \in Ints(h) BY <1>1, <1>2, HalvesType
<1>4. fft_recurse[<<r, y>>] = Weave(even, odd, 2 * h)
    <2>1. <<r, y>> \in fft_input BY <1>1, InputIs
    <2>2. fft_recurse[<<r, y>>] = Level(fft_recurse, <<r, y>>) BY <2>1, FFTFixed DEF LevelMap
    <2> QED BY <1>1, <2>2 DEF Butterfly
<1>5. even \in Ints(h) /\ odd \in Ints(h) BY <1>1, <1>3, FFTFixed DEF KeepsLength
<1>6. k \in Nat /\ k # 0 BY GeneratorAssumption
<1>7. w2 \in Int /\ PrimitiveRoot(w2, k - 1) /\ RootTable(rs, w2, k - 1)
    BY <1>6, RootSquare, TableHalf
<1>8. ASSUME NEW m \in 0 .. h - 1
      PROVE  /\ Cong(even[m + 1], PolyAt(Ext(sums), h, Pow(w2, m)))
             /\ Cong(odd[m + 1], PolyAt(Ext(diffs), h, Pow(w2, m)))
    <2> HIDE DEF rs, sums, diffs, w2
    <2> QED BY <1>3, <1>7 DEF Evaluates
<1>9. Cong(Pow(w, h), -1) BY <1>6 DEF PrimitiveRoot
<1>10. \A i \in 1 .. 2 * h : Cong(r[i], Pow(w, i - 1)) BY <1>1 DEF RootTable
<1>11. Pow(w, j) \in Int /\ PolyAt(Ext(y), 2 * h, Pow(w, j)) \in Int
    <2>1. j \in Nat /\ 2 * h \in Nat BY <1>1
    <2>2. Pow(w, j) \in Int BY <2>1, PowStep
    <2>3. Ext(y) \in Terms BY <1>2, <2>1, ExtType
    <2> QED BY <2>1, <2>2, <2>3, PolyTermsType
<1>12. ASSUME NEW m \in 0 .. h - 1
       PROVE  /\ Pow(w2, m) = Pow(w, 2 * m) /\ m \in Nat
              /\ even[m + 1] \in Int /\ odd[m + 1] \in Int
              /\ PolyAt(Ext(sums), h, Pow(w2, m)) \in Int
              /\ PolyAt(Ext(diffs), h, Pow(w2, m)) \in Int
    <2>1. m \in Nat /\ m + 1 \in 1 .. h BY <1>1
    <2>2. Pow(w2, m) \in Int BY <1>7, <2>1, PowStep
    <2>3. Ext(sums) \in Terms /\ Ext(diffs) \in Terms BY <1>1, <1>3, ExtType
    <2>4. even[m + 1] \in Int /\ odd[m + 1] \in Int BY <1>5, <2>1 DEF Ints
    <2>5. Pow(w2, m) = Pow(w, 2 * m) BY <2>1, PowSquare
    <2> HIDE DEF sums, diffs, w2, even, odd, h
    <2> QED BY <1>1, <2>1, <2>2, <2>3, <2>4, <2>5, PolyTermsType
<1>13. CASE j % 2 = 0
    <2> DEFINE m == j \div 2
    <2>1. j = 2 * m /\ m \in 0 .. h - 1 /\ j + 1 \in 1 .. 2 * h /\ (j + 1) % 2 = 1
          /\ ((j + 1) + 1) \div 2 = m + 1
        BY <1>1, <1>13
    <2> HIDE DEF m
    <2>2. fft_recurse[<<r, y>>][j + 1] = even[m + 1] BY <1>4, <2>1 DEF Weave
    <2>3. m \in Nat BY <1>12, <2>1
    <2>4. Cong(PolyAt(Ext(y), 2 * h, Pow(w, 2 * m)), PolyAt(Ext(sums), h, Pow(w, 2 * m)))
        BY <1>1, <1>2, <1>9, <2>3, EvenRoot
    <2>5. Cong(even[m + 1], PolyAt(Ext(sums), h, Pow(w2, m))) BY <1>8, <2>1
    <2> DEFINE A == even[m + 1]
               B == PolyAt(Ext(sums), h, Pow(w2, m))
               C == PolyAt(Ext(y), 2 * h, Pow(w, j))
    <2>6. Cong(C, B) BY <1>12, <2>1, <2>4
    <2>7. A \in Int /\ B \in Int /\ C \in Int BY <1>11, <1>12, <2>1
    <2>8. Cong(A, B) BY <2>5
    <2> HIDE DEF A, B, C
    <2>9. Cong(A, C) BY <2>6, <2>7, <2>8, CongSym, CongTrans
    <2> QED BY <1>1, <2>2, <2>9 DEF A, C
<1>14. CASE j % 2 # 0
    <2> DEFINE m == j \div 2
    <2>1. j = 2 * m + 1 /\ m \in 0 .. h - 1 /\ j + 1 \in 1 .. 2 * h /\ (j + 1) % 2 # 1
          /\ (j + 1) \div 2 = m + 1
        BY <1>1, <1>14
    <2> HIDE DEF m
    <2>2. fft_recurse[<<r, y>>][j + 1] = odd[m + 1] BY <1>4, <2>1 DEF Weave
    <2>3. m \in Nat BY <1>12, <2>1
    <2>4. Cong(PolyAt(Ext(y), 2 * h, Pow(w, 2 * m + 1)), PolyAt(Ext(diffs), h, Pow(w, 2 * m)))
        BY <1>1, <1>2, <1>9, <1>10, <2>3, OddRoot
    <2>5. Cong(odd[m + 1], PolyAt(Ext(diffs), h, Pow(w2, m))) BY <1>8, <2>1
    <2> DEFINE A == odd[m + 1]
               B == PolyAt(Ext(diffs), h, Pow(w2, m))
               C == PolyAt(Ext(y), 2 * h, Pow(w, j))
    <2>6. Cong(C, B) BY <1>12, <2>1, <2>4
    <2>7. A \in Int /\ B \in Int /\ C \in Int BY <1>11, <1>12, <2>1
    <2>8. Cong(A, B) BY <2>5
    <2> HIDE DEF A, B, C
    <2>9. Cong(A, C) BY <2>6, <2>7, <2>8, CongSym, CongTrans
    <2> QED BY <1>1, <2>2, <2>9 DEF A, C
<1> QED BY <1>13, <1>14

(* The recursion of fft_recurse evaluates the polynomial at every root, *)
(* whatever the number of points.                                          *)
LEMMA FFTEvaluates ==
    ASSUME NEW k \in 0 .. Generator2Order
    PROVE  Evaluates(k)
<1> DEFINE P == {i \in Nat : i <= Generator2Order => Evaluates(i)}
<1>1. 0 \in P BY EvaluatesLast
<1>2. ASSUME NEW i \in Nat, i \in P PROVE i + 1 \in P
    <2> SUFFICES ASSUME i + 1 <= Generator2Order PROVE Evaluates(i + 1) OBVIOUS
    <2> DEFINE i1 == i + 1
    <2>1. i1 \in 1 .. Generator2Order /\ i1 - 1 = i BY GeneratorAssumption
    <2>2. Evaluates(i) BY <1>2, GeneratorAssumption
    <2> HIDE DEF i1
    <2>3. Evaluates(i1) BY <2>1, <2>2, EvaluatesUp
    <2> QED BY <2>3 DEF i1
<1>3. k \in Nat /\ k <= Generator2Order BY GeneratorAssumption
<1> HIDE DEF P
<1>4. k \in P BY <1>1, <1>2, <1>3, NatInduct
<1> QED BY <1>3, <1>4 DEF P

-----------------------------------------------------------------------------
(* Roots of unity and inverses *)

(* mp_invmod finds an inverse when there is one. *)
LEMMA Invertible ==
    ASSUME NEW x \in Int, NEW y \in Int, Cong(x * y, 1)
    PROVE  invmod(x) \in Field /\ Cong(x * invmod(x), 1)
<1> DEFINE z == y % Modulus
<1>1. z \in Field /\ z \in Int /\ Cong(z, y) BY DivMod, CongMod
<1> HIDE DEF z
<1>2. Cong(x * z, x * y) BY <1>1, CongScale
<1>3. Cong(x * z, 1)
    <2>1. x * z \in Int /\ x * y \in Int /\ 1 \in Int BY <1>1
    <2> QED BY <1>2, <2>1, CongTrans
<1>4. mulmod(x, z) = 1 % Modulus
    <2>1. x * z \in Int /\ 1 \in Int BY <1>1
    <2> QED BY <1>3, <2>1, CongEq DEF mulmod
<1>5. invmod(x) \in Field /\ mulmod(x, invmod(x)) = 1 % Modulus
    BY <1>1, <1>4 DEF invmod
<1>6. invmod(x) \in Int /\ x * invmod(x) \in Int
    <2>1. invmod(x) \in Int BY <1>5, FieldInt
    <2> QED BY <2>1
<1>7. Cong((x * invmod(x)) % Modulus, x * invmod(x)) BY <1>6, CongMod
<1>8. 1 % Modulus = 1 BY ModulusAssumption
<1>9. Cong(1, x * invmod(x)) BY <1>5, <1>7, <1>8 DEF mulmod
<1>10. Cong(x * invmod(x), 1)
    <2>1. 1 \in Int OBVIOUS
    <2> QED BY <1>6, <1>9, <2>1, CongSym
<1> QED BY <1>5, <1>10

(* The length of a transform has an inverse: the modulus is odd. *)
LEMMA LengthInverse ==
    ASSUME NEW k \in Nat
    PROVE  2 ^ k \in Nat /\ invmod(2 ^ k) \in Field /\ Cong(2 ^ k * invmod(2 ^ k), 1)
<1>1. 2 ^ k = Pow(2, k) /\ 2 ^ k \in Nat
    <2> DEFINE P == {i \in Nat : 2 ^ i = Pow(2, i)}
    <2>1. 0 \in P
        <3>1. 2 ^ 0 = 1 OBVIOUS
        <3>2. Pow(2, 0) = 1 BY PowStep
        <3> QED BY <3>1, <3>2
    <2>2. ASSUME NEW i \in Nat, i \in P PROVE i + 1 \in P
        <3>1. 2 ^ (i + 1) = 2 * 2 ^ i /\ 2 ^ i \in Nat BY PowerStep
        <3>2. Pow(2, i + 1) = Pow(2, i) * 2 BY PowStep
        <3> QED BY <2>2, <3>1, <3>2
    <2> HIDE DEF P
    <2>3. k \in P BY <2>1, <2>2, NatInduct
    <2> QED BY <2>3, PowerStep DEF P
<1>2. inv2 \in Int /\ Cong(2 * inv2, 1) BY Inv2, FieldInt
<1>3. Pow(2 * inv2, k) = Pow(2, k) * Pow(inv2, k) BY <1>2, PowProduct
<1>4. Cong(Pow(2 * inv2, k), Pow(1, k))
    <2>1. 2 * inv2 \in Int /\ 1 \in Int BY <1>2
    <2> QED BY <1>2, <2>1, PowCong
<1>5. Pow(1, k) = 1 BY PowUnit
<1>6. Cong(2 ^ k * Pow(inv2, k), 1) BY <1>1, <1>3, <1>4, <1>5
<1>7. Pow(inv2, k) \in Int BY <1>2, PowStep
<1> DEFINE x == 2 ^ k
           y == Pow(inv2, k)
<1>8. x \in Int /\ y \in Int /\ Cong(x * y, 1) BY <1>1, <1>6, <1>7
<1> HIDE DEF x, y
<1>9. invmod(x) \in Field /\ Cong(x * invmod(x), 1) BY <1>8, Invertible
<1> QED BY <1>1, <1>9 DEF x

(* Half the number of roots. *)
Half == 2 ^ (Generator2Order - 1)

(* Half way round the generator is -1. *)
LEMMA GeneratorHalf ==
    /\ Half \in Nat /\ n_roots = 2 * Half /\ Half > 0
    /\ Generator \in Int /\ Cong(Pow(Generator, Half), -1)
<1>1. Half \in Nat /\ n_roots = 2 * Half /\ Half > 0 BY Roots DEF Half
<1>2. n_roots \div 2 = Half BY <1>1
<1>3. Generator \in Int BY GeneratorAssumption, FieldInt
<1>4. Pow(Generator, Half) % Modulus = Modulus - 1
    BY <1>1, <1>2, <1>3, ExptIsPow, GeneratorAssumption
<1> DEFINE z == Pow(Generator, Half)
<1>5. z \in Int BY <1>1, <1>3, PowStep
<1> HIDE DEF z
<1>6. z = Modulus * (z \div Modulus) + (Modulus - 1) /\ z \div Modulus \in Int
    BY <1>4, <1>5, DivMod DEF z
<1>7. z = -1 + Modulus * (z \div Modulus + 1) /\ z \div Modulus + 1 \in Int
    BY <1>6, ModulusAssumption
<1>8. Cong(z, -1) BY <1>7 DEF Cong
<1> QED BY <1>1, <1>3, <1>8 DEF z

(* The inverse of the generator, which also is -1 half way round. *)
LEMMA GeneratorInverse ==
    /\ invmod(Generator) \in Field /\ Cong(Generator * invmod(Generator), 1)
    /\ Cong(Pow(invmod(Generator), Half), -1)
<1> DEFINE b == invmod(Generator)
           z == Pow(Generator, Half)
           e == 2 * Half - 1
<1>1. Half \in Nat /\ Half > 0 /\ Generator \in Int /\ Cong(z, -1) BY GeneratorHalf
<1>2. z \in Int /\ e \in Nat /\ e + 1 = Half + Half BY <1>1, PowStep
<1>3. Cong(Generator * Pow(Generator, e), 1)
    <2>1. Pow(Generator, e + 1) = Pow(Generator, e) * Generator /\ Pow(Generator, e) \in Int
        BY <1>1, <1>2, PowStep
    <2>2. Pow(Generator, Half + Half) = z * z BY <1>1, PowSum
    <2>3. Cong(z * z, (-1) * (-1))
        <3>1. -1 \in Int OBVIOUS
        <3> HIDE DEF z
        <3> QED BY <1>1, <1>2, <3>1, CongMul
    <2>4. (-1) * (-1) = 1 OBVIOUS
    <2>5. Generator * Pow(Generator, e) = Pow(Generator, e) * Generator BY <1>1, <2>1
    <2> QED BY <1>2, <2>1, <2>2, <2>3, <2>4, <2>5
<1>4. b \in Field /\ Cong(Generator * b, 1)
    <2>1. Pow(Generator, e) \in Int BY <1>1, <1>2, PowStep
    <2> QED BY <1>1, <1>3, <2>1, Invertible
<1>5. b \in Int BY <1>4, FieldInt
<1> DEFINE y == Pow(b, Half)
<1> HIDE DEF b
<1>6. y \in Int /\ Pow(Generator * b, Half) = z * y BY <1>1, <1>5, PowStep, PowProduct
<1>7. Cong(z * y, 1)
    <2>1. Generator * b \in Int /\ 1 \in Int BY <1>1, <1>5
    <2>2. Cong(Pow(Generator * b, Half), Pow(1, Half)) BY <1>1, <1>4, <2>1, PowCong
    <2> QED BY <1>1, <1>6, <2>2, PowUnit
<1> HIDE DEF y, z
<1>8. Cong(y, -1)
    <2>1. PICK k \in Int : z = -1 + Modulus * k BY <1>1 DEF Cong
    <2>2. PICK l \in Int : z * y = 1 + Modulus * l BY <1>7 DEF Cong
    <2>3. (-1 + Modulus * k) * y = -y + Modulus * (k * y) BY <1>6, ModulusAssumption
    <2>4. k * y \in Int BY <1>6
    <2>5. -y + Modulus * (k * y) = 1 + Modulus * l BY <2>1, <2>2, <2>3
    <2>6. y = -1 + Modulus * (k * y - l)
        <3> DEFINE m == k * y
        <3>1. m \in Int /\ -y + Modulus * m = 1 + Modulus * l BY <2>4, <2>5
        <3> HIDE DEF m
        <3>2. Modulus * (m - l) = Modulus * m - Modulus * l BY <3>1, ModulusAssumption
        <3>3. Modulus * m \in Int /\ Modulus * l \in Int BY <3>1, ModulusAssumption
        <3>4. y = -1 + Modulus * (m - l) BY <1>6, <3>1, <3>2, <3>3
        <3> QED BY <3>4 DEF m
    <2>7. k * y - l \in Int BY <2>4
    <2> QED BY <2>6, <2>7 DEF Cong
<1> QED BY <1>4, <1>8 DEF b, y

(* The generator poly_fft_get_roots uses for 2^k points. *)
(* The generator, or its inverse, that poly_fft_get_roots starts from, and *)
(* the power of it that generates the subgroup of order 2^k.               *)
Base(invert) == IF invert THEN invmod(Generator) ELSE Generator
Gen(k, invert) == exptmod(Base(invert), n_roots \div 2 ^ k)

LEMMA BaseFacts ==
    ASSUME NEW invert \in BOOLEAN
    PROVE  Base(invert) \in Int /\ Cong(Pow(Base(invert), Half), -1)
    BY GeneratorHalf, GeneratorInverse, FieldInt DEF Base

(* n_roots divided by the length. *)
LEMMA StepIs ==
    ASSUME NEW k \in 0 .. Generator2Order
    PROVE  /\ k \in Nat /\ Generator2Order - k \in Nat
           /\ n_roots \div 2 ^ k = 2 ^ (Generator2Order - k)
           /\ 2 ^ (Generator2Order - k) \in Nat
<1> DEFINE a == 2 ^ k
           b == 2 ^ (Generator2Order - k)
<1>1. k \in Nat /\ Generator2Order - k \in Nat /\ Generator2Order \in Nat /\ k <= Generator2Order
    BY GeneratorAssumption
<1>2. n_roots = a * b BY <1>1, PowerMono DEF n_roots
<1>3. a \in Nat /\ a > 0 /\ b \in Nat BY <1>1, PowerPositive
<1> HIDE DEF a, b
<1>4. (a * b) \div a = b BY <1>3
<1> QED BY <1>1, <1>2, <1>3, <1>4 DEF a, b

LEMMA GenIsRoot ==
    ASSUME NEW k \in 0 .. Generator2Order, NEW invert \in BOOLEAN
    PROVE  /\ Gen(k, invert) \in Field
           /\ Cong(Gen(k, invert), Pow(Base(invert), 2 ^ (Generator2Order - k)))
           /\ PrimitiveRoot(Gen(k, invert), k)
<1> DEFINE b == Base(invert)
           s == 2 ^ (Generator2Order - k)
           w == Gen(k, invert)
           z == Pow(b, s)
<1>1. b \in Int /\ Cong(Pow(b, Half), -1) BY BaseFacts
<1>2. k \in Nat /\ Generator2Order - k \in Nat /\ n_roots \div 2 ^ k = s /\ s \in Nat BY StepIs
<1>3. z \in Int /\ w = z % Modulus BY <1>1, <1>2, PowStep, ExptIsPow DEF Gen
<1>4. w \in Field /\ w \in Int /\ Cong(w, z)
    <2> HIDE DEF w, z
    <2> QED BY <1>3, DivMod, CongMod
<1>5. ASSUME k # 0 PROVE Cong(Pow(w, 2 ^ (k - 1)), -1)
    <2> DEFINE m == 2 ^ (k - 1)
    <2>1. k - 1 \in Nat /\ (Generator2Order - k) + (k - 1) = Generator2Order - 1
        BY <1>2, <1>5, GeneratorAssumption
    <2>2. m \in Nat BY <2>1, PowerStep
    <2>3. s * m = Half BY <1>2, <2>1, PowerSum DEF Half
    <2>4. Pow(b, s * m) = Pow(z, m) BY <1>1, <1>2, <2>2, PowMul
    <2>5. Cong(Pow(w, m), Pow(z, m)) BY <1>3, <1>4, <2>2, PowCong
    <2>6. Cong(Pow(z, m), -1) BY <1>1, <2>3, <2>4
    <2>7. Pow(w, m) \in Int /\ Pow(z, m) \in Int /\ -1 \in Int
        <3>1. w \in Int /\ z \in Int /\ m \in Nat BY <1>3, <1>4, <2>2
        <3>2. -1 \in Int OBVIOUS
        <3> HIDE DEF w, z, m
        <3> QED BY <3>1, <3>2, PowStep
    <2> QED BY <2>5, <2>6, <2>7, CongTrans
<1> QED BY <1>4, <1>5 DEF PrimitiveRoot

(* The two generators of a length are inverse to each other, *)
LEMMA GensInverse ==
    ASSUME NEW k \in 0 .. Generator2Order
    PROVE  Cong(Gen(k, FALSE) * Gen(k, TRUE), 1)
<1> DEFINE s == 2 ^ (Generator2Order - k)
           b == invmod(Generator)
           u == Pow(Generator, s)
           v == Pow(b, s)
           f == Gen(k, FALSE)
           g == Gen(k, TRUE)
<1>1. s \in Nat BY StepIs
<1>2. Generator \in Int /\ b \in Int /\ Cong(Generator * b, 1)
    BY GeneratorHalf, GeneratorInverse, FieldInt
<1>3. f \in Int /\ Cong(f, u) BY GenIsRoot, FieldInt DEF Base
<1>4. g \in Int /\ Cong(g, v) BY GenIsRoot, FieldInt DEF Base
<1> HIDE DEF b, f, g
<1>5. u \in Int /\ v \in Int /\ Pow(Generator * b, s) = u * v BY <1>1, <1>2, PowStep, PowProduct
<1>6. Cong(f * g, u * v) BY <1>3, <1>4, <1>5, CongMul
<1>7. Cong(u * v, 1)
    <2>1. Generator * b \in Int /\ 1 \in Int BY <1>2
    <2>2. Cong(Pow(Generator * b, s), Pow(1, s)) BY <1>1, <1>2, <2>1, PowCong
    <2> QED BY <1>1, <1>5, <2>2, PowUnit
<1>8. f * g \in Int /\ u * v \in Int /\ 1 \in Int BY <1>3, <1>4, <1>5
<1>9. Cong(f * g, 1) BY <1>6, <1>7, <1>8, CongTrans
<1> QED BY <1>9 DEF f, g

(* and the generator of half a length is the square. *)
LEMMA GenSquare ==
    ASSUME NEW k \in 0 .. Generator2Order - 1, NEW invert \in BOOLEAN
    PROVE  Cong(Gen(k, invert), Gen(k + 1, invert) * Gen(k + 1, invert))
<1> DEFINE s == 2 ^ (Generator2Order - (k + 1))
           b == Base(invert)
           f == Gen(k, invert)
           g == Gen(k + 1, invert)
           z == Pow(b, s)
<1>1. k \in 0 .. Generator2Order /\ k + 1 \in 0 .. Generator2Order
      /\ Generator2Order - (k + 1) \in Nat
      /\ (Generator2Order - (k + 1)) + 1 = Generator2Order - k
    BY GeneratorAssumption
<1>2. s \in Nat /\ 2 ^ (Generator2Order - k) = 2 * s BY <1>1, PowerStep
<1>3. b \in Int BY BaseFacts
<1>4. f \in Int /\ Cong(f, Pow(b, 2 * s)) BY <1>1, <1>2, GenIsRoot, FieldInt
<1>5. g \in Int /\ Cong(g, z) BY <1>1, GenIsRoot, FieldInt
<1>6. 2 * s = s + s BY <1>2
<1>7. z \in Int /\ Pow(b, 2 * s) = z * z BY <1>2, <1>3, <1>6, PowStep, PowSum
<1> HIDE DEF f, g, z
<1>8. Cong(g * g, z * z) BY <1>5, <1>7, CongMul
<1>9. Cong(f, z * z) BY <1>4, <1>7
<1>10. g * g \in Int /\ z * z \in Int BY <1>5, <1>7
<1>11. Cong(z * z, g * g) BY <1>8, <1>10, CongSym
<1>12. Cong(f, g * g) BY <1>4, <1>9, <1>10, <1>11, CongTrans
<1> QED BY <1>12 DEF f, g

(* poly_fft_get_roots fills the table with the powers of the generator. *)
LEMMA RootsTable ==
    ASSUME NEW k \in 0 .. Generator2Order, NEW invert \in BOOLEAN
    PROVE  RootTable(poly_fft_get_roots(2 ^ k, invert), Gen(k, invert), k)
<1> DEFINE n == 2 ^ k
           w == Gen(k, invert)
           Body(h) == [i \in 1 .. n |-> IF i = 1 THEN 1 ELSE mulmod(h[i - 1], w)]
           S == CHOOSE h : h = Body(h)
           e == [i \in 1 .. n |-> Pow(w, i - 1) % Modulus]
           t == [i \in 1 .. n |-> S[i]]
<1>1. w \in Int BY GenIsRoot, FieldInt
<1>2. poly_fft_get_roots(n, invert) = <<>> \o t
    BY DEF poly_fft_get_roots, Array, Gen, Base
<1>3. n \in Nat BY PowerStep, StepIs
<1> HIDE DEF w, n
<1>4. 1 % Modulus = 1 BY ModulusAssumption
<1>5. ASSUME NEW i \in Nat PROVE mulmod(Pow(w, i) % Modulus, w) = Pow(w, i + 1) % Modulus
    <2> DEFINE a == Pow(w, i)
    <2>1. a \in Int /\ Pow(w, i + 1) = a * w BY <1>1, PowStep
    <2> HIDE DEF a
    <2>2. a % Modulus \in Int /\ Cong(a % Modulus, a) BY <2>1, CongMod
    <2>3. Cong((a % Modulus) * w, a * w) BY <1>1, <2>1, <2>2, CongScale
    <2>4. (a % Modulus) * w \in Int /\ a * w \in Int BY <1>1, <2>1, <2>2
    <2>5. ((a % Modulus) * w) % Modulus = (a * w) % Modulus BY <2>3, <2>4, CongEq
    <2> QED BY <2>1, <2>5 DEF mulmod, a
<1>6. e = Body(e)
    <2>1. ASSUME NEW i \in 1 .. n PROVE e[i] = IF i = 1 THEN 1 ELSE mulmod(e[i - 1], w)
        <3>1. CASE i = 1
            <4>1. Pow(w, 0) = 1 /\ 1 - 1 = 0 BY <1>1, PowStep
            <4> QED BY <1>4, <3>1, <4>1
        <3>2. CASE i # 1
            <4>1. i - 1 \in 1 .. n /\ i - 2 \in Nat /\ (i - 2) + 1 = i - 1 /\ (i - 1) - 1 = i - 2
                BY <1>3, <3>2
            <4>2. e[i - 1] = Pow(w, i - 2) % Modulus BY <4>1
            <4>3. mulmod(Pow(w, i - 2) % Modulus, w) = Pow(w, i - 1) % Modulus BY <1>5, <4>1
            <4> QED BY <3>2, <4>2, <4>3
        <3> QED BY <3>1, <3>2
    <2> QED BY <2>1
<1>7. S = Body(S) BY <1>6
<1> HIDE DEF S
<1> DEFINE P == {i \in Nat : i + 1 <= n => S[i + 1] = Pow(w, i) % Modulus}
<1>8. 0 \in P
    <2>1. Pow(w, 0) = 1 BY <1>1, PowStep
    <2> QED BY <1>3, <1>4, <1>7, <2>1
<1>9. ASSUME NEW i \in Nat, i \in P PROVE i + 1 \in P
    <2> SUFFICES ASSUME (i + 1) + 1 <= n PROVE S[(i + 1) + 1] = Pow(w, i + 1) % Modulus OBVIOUS
    <2>1. (i + 1) + 1 \in 1 .. n /\ (i + 1) + 1 # 1 /\ ((i + 1) + 1) - 1 = i + 1 /\ i + 1 <= n
        BY <1>3
    <2>2. S[(i + 1) + 1] = mulmod(S[i + 1], w) BY <1>7, <2>1
    <2>3. S[i + 1] = Pow(w, i) % Modulus BY <1>9, <2>1
    <2> QED BY <1>5, <2>2, <2>3
<1> HIDE DEF P
<1>10. \A i \in Nat : i \in P BY <1>8, <1>9, NatInduct
<1>11. ASSUME NEW i \in 1 .. n PROVE S[i] \in Int /\ Cong(S[i], Pow(w, i - 1))
    <2>1. i - 1 \in Nat /\ (i - 1) + 1 = i /\ (i - 1) + 1 <= n BY <1>3
    <2>2. S[i] = Pow(w, i - 1) % Modulus BY <1>10, <2>1 DEF P
    <2>3. Pow(w, i - 1) \in Int BY <1>1, <2>1, PowStep
    <2> QED BY <2>2, <2>3, CongMod
<1>12. t \in [1 .. n -> Int] /\ \A i \in 1 .. n : t[i] = S[i] BY <1>11
<1> HIDE DEF t
<1>13. <<>> \o t = t BY <1>3, <1>12, ArrayIs
<1>14. t \in Ints(n) /\ \A i \in 1 .. n : Cong(t[i], Pow(w, i - 1)) BY <1>11, <1>12 DEF Ints
<1> QED BY <1>2, <1>13, <1>14 DEF RootTable, n, w

(* poly_fft evaluates: for every length it accepts and all points, position *)
(* j of its output is the value at the j-th root of unity of the polynomial *)
(* whose coefficients it was given, however the recursion halves tables and *)
(* interleaves results.                                                     *)
THEOREM TransformIs ==
    ASSUME NEW k \in 0 .. Generator2Order, NEW y \in Ints(2 ^ k)
    PROVE  /\ poly_fft(y, FALSE) \in Ints(2 ^ k)
           /\ \A j \in 0 .. 2 ^ k - 1 :
                Cong(poly_fft(y, FALSE)[j + 1], PolyAt(Ext(y), 2 ^ k, Pow(Gen(k, FALSE), j)))
<1> DEFINE r == poly_fft_get_roots(2 ^ k, FALSE)
           w == Gen(k, FALSE)
<1>1. RootTable(r, w, k) /\ r \in Ints(2 ^ k) BY RootsTable DEF RootTable
<1>2. PrimitiveRoot(w, k) /\ w \in Int BY GenIsRoot, FieldInt
<1>3. 2 ^ k \in Nat /\ Len(y) = 2 ^ k
    <2>1. 2 ^ k \in Nat BY StepIs, PowerStep
    <2> QED BY <2>1, ArrayIs DEF Ints
<1>4. poly_fft(y, FALSE) = fft_recurse[<<r, y>>]
    BY <1>3 DEF poly_fft, fft_interpolate_raw
<1> HIDE DEF r, w
<1>5. fft_recurse[<<r, y>>] \in Ints(2 ^ k) BY <1>1, FFTFixed DEF KeepsLength
<1>6. Evaluates(k) BY FFTEvaluates
<1>7. \A j \in 0 .. 2 ^ k - 1 :
        Cong(fft_recurse[<<r, y>>][j + 1], PolyAt(Ext(y), 2 ^ k, Pow(w, j)))
    BY <1>1, <1>2, <1>6 DEF Evaluates
<1> QED BY <1>4, <1>5, <1>7 DEF w

(* MPArrays of n field elements. *)
Elements(n) == [1 .. n -> Field]

(* Backwards it evaluates at the inverses of the roots of unity, and       *)
(* divides by the number of points.                                        *)
LEMMA InverseIs ==
    ASSUME NEW k \in 0 .. Generator2Order, NEW y \in Ints(2 ^ k)
    PROVE  /\ poly_fft(y, TRUE) \in Elements(2 ^ k)
           /\ poly_fft(y, TRUE) \in Ints(2 ^ k)
           /\ \A j \in 0 .. 2 ^ k - 1 :
                Cong(poly_fft(y, TRUE)[j + 1],
                     invmod(2 ^ k) * PolyAt(Ext(y), 2 ^ k, Pow(Gen(k, TRUE), j)))
<1> DEFINE n == 2 ^ k
           r == poly_fft_get_roots(n, TRUE)
           w == Gen(k, TRUE)
           v == invmod(n)
           out == fft_recurse[<<r, y>>]
           t == [i \in 1 .. n |-> mulmod(out[i], v)]
<1>1. RootTable(r, w, k) /\ r \in Ints(n) BY RootsTable DEF RootTable
<1>2. PrimitiveRoot(w, k) /\ w \in Int BY GenIsRoot, FieldInt
<1>3. k \in Nat /\ n \in Nat /\ Len(y) = n /\ v \in Field
    <2>1. k \in Nat BY StepIs
    <2>2. n \in Nat /\ v \in Field BY <2>1, LengthInverse
    <2> QED BY <2>1, <2>2, ArrayIs DEF Ints
<1>4. v \in Int BY <1>3, FieldInt
<1>5. poly_fft(y, TRUE) = <<>> \o t
    BY <1>3 DEF poly_fft, fft_interpolate_raw, Array
<1>6. Evaluates(k) BY FFTEvaluates
<1> HIDE DEF r, w, v
<1>7. out \in Ints(n) BY <1>1, FFTFixed DEF KeepsLength
<1>8. ASSUME NEW j \in 0 .. n - 1
      PROVE  Cong(out[j + 1], PolyAt(Ext(y), n, Pow(w, j)))
    BY <1>1, <1>2, <1>6 DEF Evaluates
<1> HIDE DEF out
<1>9. ASSUME NEW i \in 1 .. n PROVE mulmod(out[i], v) \in Field /\ mulmod(out[i], v) \in Int
    <2>1. out[i] \in Int BY <1>7 DEF Ints
    <2> QED BY <1>4, <2>1, OpsCong, FieldInt
<1>10. t \in [1 .. n -> Int] /\ t \in [1 .. n -> Field] BY <1>9
<1>11. \A i \in 1 .. n : t[i] = mulmod(out[i], v) OBVIOUS
<1> HIDE DEF t
<1>12. <<>> \o t = t BY <1>3, <1>10, ArrayIs
<1>13. ASSUME NEW j \in 0 .. n - 1
       PROVE  Cong(t[j + 1], v * PolyAt(Ext(y), n, Pow(w, j)))
    <2> DEFINE p == PolyAt(Ext(y), n, Pow(w, j))
    <2>1. j \in Nat /\ j + 1 \in 1 .. n BY <1>3
    <2>2. p \in Int
        <3>1. Pow(w, j) \in Int BY <1>2, <2>1, PowStep
        <3>2. Ext(y) \in Terms BY <1>3, ExtType
        <3> QED BY <1>3, <3>1, <3>2, PolyTermsType
    <2>3. out[j + 1] \in Int /\ Cong(out[j + 1], p) BY <1>7, <1>8, <2>1 DEF Ints
    <2> HIDE DEF p
    <2>4. Cong(v, v) BY <1>4, CongRefl
    <2>5. Cong(mulmod(out[j + 1], v), p * v) BY <1>4, <2>2, <2>3, <2>4, OpsCong2
    <2>6. p * v = v * p BY <1>4, <2>2
    <2> QED BY <1>11, <2>1, <2>5, <2>6 DEF p
<1> QED BY <1>5, <1>10, <1>12, <1>13 DEF Elements, Ints, v, w

(* A polynomial is its constant term and x times the rest. *)
LEMMA PolyShift ==
    ASSUME NEW p \in Terms, NEW q \in Terms, NEW x \in Int, NEW n \in Nat,
           \A i \in 0 .. n - 1 : q[i] = p[i + 1]
    PROVE  PolyAt(p, n + 1, x) = p[0] + x * PolyAt(q, n, x)
<1> DEFINE f == PolyTerms(p, x)
           g == PolyTerms(q, x)
           e == [i \in Nat |-> f[i + 1]]
<1>1. /\ f \in Terms /\ g \in Terms
      /\ \A i \in Nat : f[i] = p[i] * Pow(x, i) /\ g[i] = q[i] * Pow(x, i)
    BY PolyTermsType
<1> HIDE DEF f, g
<1>2. e \in Terms BY <1>1 DEF Terms
<1>3. \A i \in Nat : e[i] = f[i + 1] OBVIOUS
<1> HIDE DEF e
<1>4. Sigma(f, 1 + n) = Sigma(f, 1) + Sigma(e, n)
    <2>1. 1 \in Nat /\ \A i \in 0 .. n - 1 : e[i] = f[i + 1] BY <1>3
    <2> QED BY <1>1, <1>2, <2>1, SigmaSplit
<1>5. Sigma(f, 1) = p[0]
    <2>1. Sigma(f, 0) = 0 /\ Sigma(f, 0 + 1) = Sigma(f, 0) + f[0] BY <1>1, SigmaStep
    <2>2. f[0] = p[0] * Pow(x, 0) /\ Pow(x, 0) = 1 /\ p[0] \in Int BY <1>1, PowStep DEF Terms
    <2>3. 0 + 1 = 1 OBVIOUS
    <2> QED BY <2>1, <2>2, <2>3
<1>6. \A i \in 0 .. n - 1 : e[i] = x * g[i] + 0 * g[i]
    <2> SUFFICES ASSUME NEW i \in 0 .. n - 1 PROVE e[i] = x * g[i] + 0 * g[i] OBVIOUS
    <2> DEFINE a == q[i]
               b == Pow(x, i)
    <2>1. i \in Nat /\ i + 1 \in Nat OBVIOUS
    <2>2. e[i] = p[i + 1] * Pow(x, i + 1) BY <1>1, <1>3, <2>1
    <2>3. p[i + 1] = a /\ Pow(x, i + 1) = b * x /\ b \in Int /\ a \in Int
        BY <2>1, PowStep DEF Terms
    <2>4. g[i] = a * b BY <1>1, <2>1
    <2> HIDE DEF a, b
    <2>5. a * (b * x) = x * (a * b) + 0 * (a * b) BY <2>3
    <2> QED BY <2>2, <2>3, <2>4, <2>5
<1>7. Sigma(e, n) = x * Sigma(g, n) + 0 * Sigma(g, n)
    <2> DEFINE z == 0
    <2>1. z \in Int /\ \A i \in 0 .. n - 1 : e[i] = x * g[i] + z * g[i] BY <1>6
    <2> HIDE DEF z
    <2>2. Sigma(e, n) = x * Sigma(g, n) + z * Sigma(g, n) BY <1>1, <1>2, <2>1, SigmaLinear
    <2> QED BY <2>2 DEF z
<1>8. Sigma(g, n) \in Int BY <1>1, SigmaStep
<1>9. p[0] \in Int BY DEF Terms
<1>10. 1 + n = n + 1 /\ x * Sigma(g, n) + 0 * Sigma(g, n) = x * Sigma(g, n) BY <1>8
<1> QED BY <1>4, <1>5, <1>7, <1>9, <1>10 DEF PolyAt, f, g

(* Horner's loop evaluates the polynomial. *)
LEMMA HornerIs ==
    ASSUME NEW n \in Nat \ {0}, NEW c \in Ints(n), NEW x \in Int
    PROVE  /\ poly_eval(c, x) \in Int /\ Cong(poly_eval(c, x), PolyAt(Ext(c), n, x))
           /\ c \in Elements(n) => poly_eval(c, x) \in Field
<1> DEFINE Body(h) == [i \in 1 .. n |-> IF i = n THEN c[n]
                                        ELSE addmod(mulmod(h[i + 1], x), c[i])]
           S == CHOOSE h : h = Body(h)
           g == [v \in Int \X Nat |->
                    IF v[2] \in 0 .. n - 1 THEN addmod(mulmod(v[1], x), c[n - v[2]]) ELSE 0]
<1>0. Len(c) = n BY ArrayIs DEF Ints
<1>1. poly_eval(c, x) = S[1] BY <1>0 DEF poly_eval
<1>2. ASSUME NEW v \in Int, NEW i \in 1 .. n PROVE addmod(mulmod(v, x), c[i]) \in Field
    <2>1. c[i] \in Int /\ mulmod(v, x) \in Int BY OpsCong, FieldInt DEF Ints
    <2> QED BY <2>1, OpsCong
<1>3. /\ g \in [Int \X Nat -> Int]
      /\ \A v \in Int, j \in Nat : j <= n - 1 => g[<<v, j>>] = addmod(mulmod(v, x), c[n - j])
    <2>1. ASSUME NEW v \in Int, NEW j \in 0 .. n - 1 PROVE addmod(mulmod(v, x), c[n - j]) \in Int
        <3>1. n - j \in 1 .. n OBVIOUS
        <3> QED BY <1>2, <3>1, FieldInt
    <2>2. ASSUME NEW v \in Int, NEW j \in Nat
          PROVE  /\ g[<<v, j>>] \in Int
                 /\ j <= n - 1 => g[<<v, j>>] = addmod(mulmod(v, x), c[n - j])
        <3>1. g[<<v, j>>] = IF j \in 0 .. n - 1 THEN addmod(mulmod(v, x), c[n - j]) ELSE 0 OBVIOUS
        <3> HIDE DEF g
        <3> QED BY <2>1, <3>1
    <2>3. g = [v \in Int \X Nat |-> g[v]] OBVIOUS
    <2> HIDE DEF g
    <2>4. \A v \in Int \X Nat : g[v] \in Int BY <2>2
    <2> QED BY <2>2, <2>3, <2>4
<1> HIDE DEF g
<1>4. c[n] \in Int BY DEF Ints
<1>5. PICK h \in [Nat -> Int] : RecursesDown(h, c[n], g) BY <1>3, <1>4, NatRecursion
<1> DEFINE e == [i \in 1 .. n |-> h[n - i]]
<1>6. e = Body(e)
    <2>1. ASSUME NEW i \in 1 .. n
          PROVE  e[i] = IF i = n THEN c[n] ELSE addmod(mulmod(e[i + 1], x), c[i])
        <3>1. CASE i = n
            <4>1. n - n = 0 OBVIOUS
            <4>2. h[0] = c[n] BY <1>5 DEF RecursesDown
            <4>3. e[i] = h[n - i] OBVIOUS
            <4> QED BY <3>1, <4>1, <4>2, <4>3
        <3>2. CASE i # n
            <4> DEFINE j == n - i
            <4>1. j \in Nat /\ j # 0 /\ j <= n - 1 /\ n - j = i /\ j - 1 \in Nat
                  /\ j - 1 = n - (i + 1) /\ i + 1 \in 1 .. n
                BY <3>2
            <4> HIDE DEF j
            <4>2. h[j] = g[<<h[j - 1], j>>] BY <1>5, <4>1 DEF RecursesDown
            <4>3. h[j - 1] \in Int BY <4>1
            <4>4. h[j] = addmod(mulmod(h[j - 1], x), c[i]) BY <1>3, <4>1, <4>2, <4>3
            <4>5. e[i] = h[j] /\ e[i + 1] = h[j - 1] BY <4>1 DEF j
            <4> QED BY <3>2, <4>4, <4>5
        <3> QED BY <3>1, <3>2
    <2> QED BY <2>1
<1>7. S = Body(S) BY <1>6
<1> HIDE DEF S, e
<1> DEFINE Rest(j) == [i \in Nat |-> Ext(c)[(n - 1 - j) + i]]
           P == {j \in Nat : j <= n - 1 =>
                    /\ S[n - j] \in Int /\ Cong(S[n - j], PolyAt(Rest(j), j + 1, x))
                    /\ c \in Elements(n) => S[n - j] \in Field}
<1>8. Ext(c) \in Terms /\ \A i \in 0 .. n - 1 : Ext(c)[i] = c[i + 1] /\ c[i + 1] \in Int
    BY ExtType
<1>9. ASSUME NEW j \in 0 .. n - 1
      PROVE  /\ Rest(j) \in Terms /\ Rest(j)[0] = c[n - j] /\ c[n - j] \in Int
             /\ \A i \in Nat : Rest(j)[i] = Ext(c)[(n - 1 - j) + i]
    <2>1. \A i \in Nat : (n - 1 - j) + i \in Nat OBVIOUS
    <2>2. Rest(j) \in Terms BY <1>8, <2>1 DEF Terms
    <2>3. (n - 1 - j) + 0 = n - 1 - j /\ n - 1 - j \in 0 .. n - 1 /\ (n - 1 - j) + 1 = n - j OBVIOUS
    <2>4. Rest(j)[0] = c[n - j] /\ c[n - j] \in Int BY <1>8, <2>3
    <2> QED BY <2>2, <2>4
<1> HIDE DEF Rest
<1>10. 0 \in P
    <2>1. 0 \in 0 .. n - 1 /\ n - 0 = n /\ 0 \in Nat OBVIOUS
    <2>2. S[n] = c[n] BY <1>7
    <2>3. Rest(0) \in Terms /\ Rest(0)[0] = c[n] BY <1>9, <2>1
    <2>4. PolyAt(Rest(0), 0 + 1, x) = Rest(0)[0] + x * PolyAt(Rest(0), 0, x)
        BY <2>1, <2>3, PolyShift
    <2>5. PolyAt(Rest(0), 0, x) = 0
        <3>1. PolyTerms(Rest(0), x) \in Terms BY <2>3, PolyTermsType
        <3> QED BY <2>1, <3>1, SigmaStep DEF PolyAt
    <2>6. PolyAt(Rest(0), 0 + 1, x) = c[n] BY <1>4, <2>3, <2>4, <2>5
    <2>7. Cong(c[n], c[n]) BY <1>4, CongRefl
    <2>8. c \in Elements(n) => c[n] \in Field BY DEF Elements
    <2> QED BY <1>4, <2>1, <2>2, <2>6, <2>7, <2>8
<1>11. ASSUME NEW j \in Nat, j \in P PROVE j + 1 \in P
    <2> SUFFICES ASSUME j + 1 <= n - 1
                 PROVE  /\ S[n - (j + 1)] \in Int
                        /\ Cong(S[n - (j + 1)], PolyAt(Rest(j + 1), (j + 1) + 1, x))
                        /\ c \in Elements(n) => S[n - (j + 1)] \in Field
        OBVIOUS
    <2> DEFINE i == n - (j + 1)
               u == S[n - j]
               p == PolyAt(Rest(j), j + 1, x)
    <2>1. i \in 1 .. n /\ i # n /\ i + 1 = n - j /\ j \in 0 .. n - 1 /\ j + 1 \in 0 .. n - 1
          /\ j + 1 \in Nat /\ j <= n - 1
        OBVIOUS
    <2>2. u \in Int /\ Cong(u, p) BY <1>11, <2>1
    <2>3. S[i] = addmod(mulmod(u, x), c[i]) BY <1>7, <2>1
    <2>4. c[i] \in Int BY <2>1 DEF Ints
    <2>5. Rest(j) \in Terms /\ Rest(j + 1) \in Terms /\ Rest(j + 1)[0] = c[i] BY <1>9, <2>1
    <2>6. p \in Int BY <2>1, <2>5, PolyTermsType
    <2>7. PolyAt(Rest(j + 1), (j + 1) + 1, x) = c[i] + x * p
        <3>1. ASSUME NEW l \in 0 .. (j + 1) - 1 PROVE Rest(j)[l] = Rest(j + 1)[l + 1]
            <4>1. l \in Nat /\ l + 1 \in Nat
                  /\ (n - 1 - j) + l = (n - 1 - (j + 1)) + (l + 1) OBVIOUS
            <4>2. Rest(j)[l] = Ext(c)[(n - 1 - j) + l] BY <1>9, <2>1, <4>1
            <4>3. Rest(j + 1)[l + 1] = Ext(c)[(n - 1 - (j + 1)) + (l + 1)] BY <1>9, <2>1, <4>1
            <4> QED BY <4>1, <4>2, <4>3
        <3> DEFINE a == Rest(j + 1)
                   b == Rest(j)
                   m == j + 1
        <3>2. a \in Terms /\ b \in Terms /\ m \in Nat /\ a[0] = c[i] BY <2>1, <2>5
        <3>3. \A l \in 0 .. m - 1 : b[l] = a[l + 1] BY <3>1
        <3> HIDE DEF a, b, m
        <3>4. PolyAt(a, m + 1, x) = a[0] + x * PolyAt(b, m, x) BY <3>2, <3>3, PolyShift
        <3> QED BY <3>2, <3>4 DEF a, b, m
    <2> HIDE DEF u, p
    <2>8. S[i] \in Field BY <1>2, <2>1, <2>2, <2>3
    <2>9. Cong(S[i], p * x + c[i])
        <3>1. Cong(x, x) BY CongRefl
        <3>2. mulmod(u, x) \in Int /\ Cong(mulmod(u, x), p * x) BY <2>2, <2>6, <3>1, OpsCong2
        <3>3. Cong(c[i], c[i]) BY <2>4, CongRefl
        <3>4. p * x \in Int BY <2>6
        <3>5. Cong(addmod(mulmod(u, x), c[i]), p * x + c[i])
            BY <2>4, <3>2, <3>3, <3>4, OpsCong2
        <3> QED BY <2>3, <3>5
    <2>10. p * x + c[i] = c[i] + x * p BY <2>4, <2>6
    <2>11. S[i] \in Int BY <2>8, FieldInt
    <2> QED BY <2>7, <2>8, <2>9, <2>10, <2>11
<1> HIDE DEF P
<1>12. n - 1 \in P
    <2>1. n - 1 \in Nat OBVIOUS
    <2> QED BY <1>10, <1>11, <2>1, NatInduct
<1>13. /\ S[1] \in Int /\ Cong(S[1], PolyAt(Rest(n - 1), n, x))
       /\ c \in Elements(n) => S[1] \in Field
    <2>1. n - 1 \in Nat /\ n - (n - 1) = 1 /\ (n - 1) + 1 = n /\ n - 1 <= n - 1 OBVIOUS
    <2> QED BY <1>12, <2>1 DEF P
<1>14. Rest(n - 1) = Ext(c)
    <2>1. n - 1 \in 0 .. n - 1 OBVIOUS
    <2>2. ASSUME NEW i \in Nat PROVE Rest(n - 1)[i] = Ext(c)[i]
        <3>1. (n - 1 - (n - 1)) + i = i OBVIOUS
        <3> QED BY <1>9, <2>1, <3>1
    <2>3. Rest(n - 1) \in Terms BY <1>9, <2>1
    <2> QED BY <1>8, <2>2, <2>3 DEF Terms
<1> QED BY <1>1, <1>13, <1>14

-----------------------------------------------------------------------------
(* poly_interp_evaluate *)

LEMMA InterpEvaluate ==
    ASSUME NEW k \in 0 .. Generator2Order, NEW y \in Ints(2 ^ k), NEW x \in Int
    PROVE  /\ poly_interp_evaluate(y, x) \in Field
           /\ Cong(poly_interp_evaluate(y, x), PolyAt(Ext(poly_fft(y, TRUE)), 2 ^ k, x))
<1> DEFINE n == 2 ^ k
           c == poly_fft(y, TRUE)
<1>1. n \in Nat \ {0}
    <2>1. k \in Nat BY StepIs
    <2> QED BY <2>1, PowerPositive
<1>2. c \in Elements(n) /\ c \in Ints(n) BY InverseIs
<1>3. poly_interp_evaluate(y, x) = poly_eval(c, x) BY DEF poly_interp_evaluate
<1> HIDE DEF n, c
<1>4. poly_eval(c, x) \in Field /\ Cong(poly_eval(c, x), PolyAt(Ext(c), n, x))
    BY <1>1, <1>2, HornerIs
<1> QED BY <1>3, <1>4 DEF n, c


-----------------------------------------------------------------------------
(* compute_shares *)

(* The points of f or g: the value at the first root, then the data. *)
PointsOf(c0, d) ==
    [i \in 1 .. N |-> IF i = 1 THEN c0 ELSE IF i <= NumFields + 1 THEN d[i - 1] ELSE 0]

LEMMA PointsAre ==
    ASSUME NEW c0 \in Int, NEW d \in Ints(NumFields)
    PROVE  /\ MPArray_resize(<<c0>> \o d, N) = PointsOf(c0, d)
           /\ PointsOf(c0, d) \in Ints(N)
<1> DEFINE q == <<c0>> \o d
           r == [i \in 1 .. N |-> IF i <= Len(q) THEN q[i] ELSE 0]
<1>1. N \in Nat /\ NumFields \in Nat /\ NumFields < N BY NIsPower, NumFieldsAssumption
<1>2. d \in Seq(Int) /\ Len(d) = NumFields BY <1>1, ArrayIs DEF Ints
<1>3. \A i \in 1 .. NumFields : d[i] \in Int BY DEF Ints
<1>4. /\ Len(q) = NumFields + 1 /\ q[1] = c0
      /\ \A i \in 2 .. NumFields + 1 : q[i] = d[i - 1]
    BY <1>1, <1>2
<1> HIDE DEF q
<1>5. PointsOf(c0, d) \in Ints(N)
    <2> SUFFICES ASSUME NEW i \in 1 .. N, i # 1, i <= NumFields + 1 PROVE d[i - 1] \in Int
        BY DEF PointsOf, Ints
    <2>1. i - 1 \in 1 .. NumFields BY <1>1
    <2> QED BY <1>3, <2>1
<1>6. r = PointsOf(c0, d)
    <2> SUFFICES ASSUME NEW i \in 1 .. N PROVE r[i] = PointsOf(c0, d)[i] BY DEF PointsOf
    <2>1. i # 1 /\ i <= NumFields + 1 => i \in 2 .. NumFields + 1 BY <1>1
    <2>2. i = 1 => i <= NumFields + 1 BY <1>1
    <2> QED BY <1>4, <2>1, <2>2 DEF PointsOf
<1>7. MPArray_resize(q, N) = <<>> \o r BY DEF MPArray_resize, Array
<1>8. r \in [1 .. N -> Int] BY <1>5, <1>6 DEF Ints
<1> HIDE DEF r
<1>9. <<>> \o r = r BY <1>1, <1>8, ArrayIs
<1> QED BY <1>5, <1>6, <1>7, <1>9 DEF q

(* The points of h: none where the data are. *)
EvenPoints(h0, hs) ==
    [i \in 1 .. 2 * N |-> IF i = 1 THEN h0 ELSE IF i % 2 = 0 THEN hs[i \div 2] ELSE 0]

LEMMA EvenPointsAre ==
    ASSUME NEW h0 \in Int, NEW hs \in Ints(N)
    PROVE  /\ Array(2 * N, LAMBDA i : IF i = 1 THEN h0
                                      ELSE IF i % 2 = 0 THEN hs[i \div 2] ELSE 0)
                = EvenPoints(h0, hs)
           /\ EvenPoints(h0, hs) \in Ints(2 * N)
<1> DEFINE r == EvenPoints(h0, hs)
<1>1. N \in Nat /\ 2 * N \in Nat
    <2>1. N \in Nat BY NIsPower
    <2> QED BY <2>1
<1>2. r \in [1 .. 2 * N -> Int]
    <2> SUFFICES ASSUME NEW i \in 1 .. 2 * N, i % 2 = 0 PROVE hs[i \div 2] \in Int
        BY DEF EvenPoints
    <2>1. i \div 2 \in 1 .. N BY <1>1
    <2> QED BY <2>1 DEF Ints
<1>3. Array(2 * N, LAMBDA i : IF i = 1 THEN h0 ELSE IF i % 2 = 0 THEN hs[i \div 2] ELSE 0)
        = <<>> \o r
    BY DEF Array, EvenPoints
<1> HIDE DEF r
<1>4. <<>> \o r = r BY <1>1, <1>2, ArrayIs
<1> QED BY <1>2, <1>3, <1>4 DEF r, Ints

(* The data as server s uses them for g. *)
ShiftedFor(s, d) ==
    [i \in 1 .. NumFields |-> IF s = PRIO_SERVER_A THEN submod(d[i], 1) ELSE d[i]]

LEMMA ShiftedForType ==
    ASSUME NEW s \in Server, NEW d \in Ints(NumFields)
    PROVE  ShiftedFor(s, d) \in Ints(NumFields)
<1>1. ASSUME NEW i \in 1 .. NumFields PROVE d[i] \in Int /\ submod(d[i], 1) \in Int
    <2>1. d[i] \in Int /\ 1 \in Int BY DEF Ints
    <2> QED BY <2>1, OpsCong, FieldInt
<1> QED BY <1>1 DEF ShiftedFor, Ints

(* compute_shares interpolates and evaluates the points of f, g and h;     *)
(* what it returns is reduced.                                             *)
LEMMA SharesAre ==
    ASSUME NEW s \in Server, NEW packets, NEW x \in Int,
           packet_of(s, packets).f0 \in Int, packet_of(s, packets).g0 \in Int,
           packet_of(s, packets).h0 \in Int,
           data_share(s, packets) \in Ints(NumFields), h_share(s, packets) \in Ints(N)
    PROVE  LET p == packet_of(s, packets)
               d == data_share(s, packets)
           IN  /\ compute_shares(s, packets, x) =
                    [fR |-> poly_interp_evaluate(PointsOf(p.f0, d), x),
                     gR |-> poly_interp_evaluate(PointsOf(p.g0, ShiftedFor(s, d)), x),
                     hR |-> poly_interp_evaluate(EvenPoints(p.h0, h_share(s, packets)), x)]
               /\ compute_shares(s, packets, x) \in SharesType
<1> DEFINE p == packet_of(s, packets)
           d == data_share(s, packets)
           hs == h_share(s, packets)
           e == Array(NumFields, LAMBDA i : IF s = PRIO_SERVER_A THEN submod(d[i], 1) ELSE d[i])
           sh == [fR |-> poly_interp_evaluate(PointsOf(p.f0, d), x),
                  gR |-> poly_interp_evaluate(PointsOf(p.g0, ShiftedFor(s, d)), x),
                  hR |-> poly_interp_evaluate(EvenPoints(p.h0, hs), x)]
<1>1. p.f0 \in Int /\ p.g0 \in Int /\ p.h0 \in Int /\ d \in Ints(NumFields) /\ hs \in Ints(N)
    OBVIOUS
<1>2. ShiftedFor(s, d) \in Ints(NumFields) BY <1>1, ShiftedForType
<1>3. e = ShiftedFor(s, d)
    <2>1. e = <<>> \o ShiftedFor(s, d) BY DEF Array, ShiftedFor
    <2> QED BY <1>2, <2>1, NumFieldsAssumption, ArrayIs DEF Ints
<1>4. compute_shares(s, packets, x) =
        [fR |-> poly_interp_evaluate(MPArray_resize(<<p.f0>> \o d, N), x),
         gR |-> poly_interp_evaluate(MPArray_resize(<<p.g0>> \o e, N), x),
         hR |-> poly_interp_evaluate(Array(2 * N, LAMBDA i :
                    IF i = 1 THEN p.h0 ELSE IF i % 2 = 0 THEN hs[i \div 2] ELSE 0), x)]
    BY DEF compute_shares
<1> HIDE DEF p, d, hs, e
<1>5. PICK k \in Nat : N = 2 ^ k /\ k + 1 <= Generator2Order BY NIsPower
<1>6. k \in 0 .. Generator2Order /\ k + 1 \in 0 .. Generator2Order /\ 2 * N = 2 ^ (k + 1)
    BY <1>5, PowerStep, GeneratorAssumption
<1>7. /\ MPArray_resize(<<p.f0>> \o d, N) = PointsOf(p.f0, d)
      /\ PointsOf(p.f0, d) \in Ints(2 ^ k)
    BY <1>1, <1>5, PointsAre
<1>8. /\ MPArray_resize(<<p.g0>> \o e, N) = PointsOf(p.g0, ShiftedFor(s, d))
      /\ PointsOf(p.g0, ShiftedFor(s, d)) \in Ints(2 ^ k)
    BY <1>1, <1>2, <1>3, <1>5, PointsAre
<1>9. /\ Array(2 * N, LAMBDA i : IF i = 1 THEN p.h0 ELSE IF i % 2 = 0 THEN hs[i \div 2] ELSE 0)
           = EvenPoints(p.h0, hs)
      /\ EvenPoints(p.h0, hs) \in Ints(2 ^ (k + 1))
    BY <1>1, <1>6, EvenPointsAre
<1>10. compute_shares(s, packets, x) = sh BY <1>4, <1>7, <1>8, <1>9
<1>11. /\ poly_interp_evaluate(PointsOf(p.f0, d), x) \in Field
       /\ poly_interp_evaluate(PointsOf(p.g0, ShiftedFor(s, d)), x) \in Field
    BY <1>6, <1>7, <1>8, InterpEvaluate
<1>12. poly_interp_evaluate(EvenPoints(p.h0, hs), x) \in Field
    <2> DEFINE K == k + 1
    <2>1. K \in 0 .. Generator2Order /\ EvenPoints(p.h0, hs) \in Ints(2 ^ K) BY <1>6, <1>9
    <2> HIDE DEF K
    <2> QED BY <2>1, InterpEvaluate
<1>13. sh \in SharesType BY <1>11, <1>12 DEF SharesType
<1> QED BY <1>10, <1>13 DEF p, d, hs
=============================================================================
