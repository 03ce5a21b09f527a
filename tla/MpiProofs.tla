------------------------------ MODULE MpiProofs ------------------------------
(***************************************************************************)
(* Theorems about the sums, comparisons and products of src/mpi/mpi.c, for *)
(* digits of every width and numbers of every length.                      *)
(***************************************************************************)
EXTENDS MpiLong, NumberProofs

-----------------------------------------------------------------------------
(* Digits *)

LEMMA RadixIs ==
    /\ HalfBits \in Nat /\ HalfBits > 0 /\ MP_DIGIT_BIT \in Nat /\ MP_DIGIT_BIT > 0
    /\ MP_HALF_RADIX \in Nat /\ MP_HALF_RADIX >= 2
    /\ MP_RADIX \in Nat /\ MP_RADIX = MP_HALF_RADIX * MP_HALF_RADIX /\ MP_RADIX >= 4
    /\ Digit = 0 .. MP_RADIX - 1
<1> DEFINE h == MP_HALF_RADIX
<1>1. HalfBits \in Nat /\ HalfBits > 0 BY HalfBitsAssumption
<1>2. MP_DIGIT_BIT = HalfBits + HalfBits /\ MP_DIGIT_BIT \in Nat /\ MP_DIGIT_BIT > 0
    BY <1>1 DEF MP_DIGIT_BIT
<1>3. h \in Nat /\ h >= 2 BY <1>1, PowerPositive DEF MP_HALF_RADIX
<1>4. MP_RADIX = h * h BY <1>1, <1>2, PowerSum DEF MP_RADIX, MP_HALF_RADIX
<1> HIDE DEF h
<1>5. h * h \in Nat /\ h * h >= 4 
    <2>1. h * h >= 2 * h BY <1>3
    <2> QED BY <1>3, <2>1
<1> QED BY <1>1, <1>2, <1>3, <1>4, <1>5 DEF Digit, MP_DIGIT_MAX, h

(* A digit is worth MP_RADIX times as much one place up. *)
LEMMA WeightIs ==
    ASSUME NEW n \in Nat
    PROVE  /\ Weight(0) = 1 /\ Weight(n) \in Nat /\ Weight(n) > 0
           /\ Weight(n + 1) = MP_RADIX * Weight(n)
<1> DEFINE b == MP_DIGIT_BIT
           m == b * n
<1>1. b \in Nat BY RadixIs
<1>2. m \in Nat /\ b * (n + 1) = b + m
    <2> HIDE DEF b
    <2> QED BY <1>1
<1>3. b * 0 = 0
    <2> HIDE DEF b
    <2> QED BY <1>1
<1>4. 2 ^ m \in Nat /\ 2 ^ m > m BY <1>2, PowerPositive
<1>5. 2 ^ (b + m) = 2 ^ b * 2 ^ m
    <2> HIDE DEF b, m
    <2> QED BY <1>1, <1>2, PowerSum
<1>6. Weight(0) = 1
    <2>1. Weight(0) = 2 ^ (b * 0) BY DEF Weight
    <2>2. 2 ^ 0 = 1 OBVIOUS
    <2> QED BY <1>3, <2>1, <2>2, Zenon
<1>7. Weight(n) = 2 ^ m BY DEF Weight
<1>8. Weight(n + 1) = 2 ^ (b + m) BY <1>2 DEF Weight
<1>9. MP_RADIX = 2 ^ b BY DEF MP_RADIX
<1> QED BY <1>2, <1>4, <1>5, <1>6, <1>7, <1>8, <1>9

(* Arithmetic on digits wraps. *)
LEMMA WrapIs ==
    ASSUME NEW n \in Int
    PROVE  /\ Wrap(n) \in Digit
           /\ n >= 0 /\ n < MP_RADIX => Wrap(n) = n
           /\ n >= MP_RADIX /\ n < 2 * MP_RADIX => Wrap(n) = n - MP_RADIX
           /\ n < 0 /\ n >= -MP_RADIX => Wrap(n) = n + MP_RADIX
<1> DEFINE r == MP_RADIX
<1>1. r \in Nat /\ r >= 4 /\ Digit = 0 .. r - 1 BY RadixIs
<1> HIDE DEF r
<1>2. n % r \in 0 .. r - 1 BY <1>1
<1>3. n >= 0 /\ n < r => n % r = n BY <1>1
<1>4. n >= r /\ n < 2 * r => n % r = n - r BY <1>1
<1>5. n < 0 /\ n >= -r => n % r = n + r BY <1>1
<1> QED BY <1>1, <1>2, <1>3, <1>4, <1>5 DEF Wrap, r

LEMMA DigitInt == \A d \in Digit : d \in Int /\ d \in Nat /\ d >= 0 /\ d < MP_RADIX
    BY RadixIs

-----------------------------------------------------------------------------
(* The value of a number's digits *)

(* What each digit is worth, and the value of the n lowest digits. *)
Worth(dp) == [i \in Nat |-> At(dp, i + 1) * Weight(i)]
Part(dp, n) == Sigma(Worth(dp), n)

(* Digits, as AddDigits and the other loops read them: zero from Len on. *)
LEMMA AtIs ==
    ASSUME NEW dp \in Seq(Digit), NEW i \in Int
    PROVE  /\ At(dp, i) \in Digit
           /\ i \in 1 .. Len(dp) => At(dp, i) = dp[i]
           /\ i > Len(dp) => At(dp, i) = 0
<1>1. 0 \in Digit BY RadixIs
<1>2. CASE i \in 1 .. Len(dp) BY <1>2 DEF At
<1>3. CASE i \notin 1 .. Len(dp) BY <1>1, <1>3 DEF At
<1> QED BY <1>2, <1>3

LEMMA PartIs ==
    ASSUME NEW dp \in Seq(Digit), NEW n \in Nat
    PROVE  /\ Part(dp, 0) = 0 /\ Part(dp, n) \in Nat
           /\ Part(dp, n + 1) = Part(dp, n) + At(dp, n + 1) * Weight(n)
           /\ Part(dp, n) < Weight(n)
<1> DEFINE f == Worth(dp)
           r == MP_RADIX
<1>0. r \in Nat /\ r >= 4 BY RadixIs
<1>1. f \in Terms
    <2>1. ASSUME NEW i \in Nat PROVE At(dp, i + 1) * Weight(i) \in Int
        <3>1. At(dp, i + 1) \in Digit
            <4>1. i + 1 \in Int OBVIOUS
            <4> QED BY <4>1, AtIs
        <3> QED BY <3>1, DigitInt, WeightIs
    <2> QED BY <2>1 DEF Worth, Terms
<1>2. ASSUME NEW i \in Nat
      PROVE  /\ Part(dp, i) \in Int
             /\ Part(dp, i + 1) = Part(dp, i) + At(dp, i + 1) * Weight(i)
    <2>1. f[i] = At(dp, i + 1) * Weight(i) BY DEF Worth
    <2> HIDE DEF f
    <2>2. Sigma(f, i) \in Int /\ Sigma(f, i + 1) = Sigma(f, i) + f[i] BY <1>1, SigmaStep
    <2> QED BY <2>1, <2>2 DEF Part, f
<1>3. Part(dp, 0) = 0
    <2> HIDE DEF f
    <2>1. Sigma(f, 0) = 0 BY <1>1, SigmaStep
    <2> QED BY <2>1 DEF Part, f
<1> DEFINE P == {i \in Nat : Part(dp, i) >= 0 /\ Part(dp, i) < Weight(i)}
<1>4. 0 \in P
    <2>1. Weight(0) = 1 BY WeightIs
    <2> QED BY <1>3, <2>1
<1>5. ASSUME NEW i \in Nat, i \in P PROVE i + 1 \in P
    <2> DEFINE w == Weight(i)
               d == At(dp, i + 1)
               s == Part(dp, i)
    <2>1. w \in Nat /\ w > 0 /\ Weight(i + 1) = r * w BY WeightIs
    <2>2. d \in Nat /\ d <= r - 1
        <3>1. d \in Digit BY AtIs
        <3> QED BY <1>0, <3>1, DigitInt
    <2>3. s \in Int /\ s >= 0 /\ s < w BY <1>2, <1>5
    <2>4. Part(dp, i + 1) = s + d * w BY <1>2
    <2> HIDE DEF w, d, s, r
    <2>5. d * w \in Nat /\ d * w <= (r - 1) * w /\ (r - 1) * w = r * w - w BY <1>0, <2>1, <2>2
    <2> QED BY <1>0, <2>1, <2>3, <2>4, <2>5
<1> HIDE DEF P
<1>6. n \in P BY <1>4, <1>5, NatInduct
<1> QED BY <1>2, <1>3, <1>6 DEF P

(* Digits above the last are zeros. *)
LEMMA PartEnd ==
    ASSUME NEW dp \in Seq(Digit), NEW m \in Nat, NEW n \in Nat, m <= n,
           \A i \in m + 1 .. n : At(dp, i) = 0
    PROVE  Part(dp, n) = Part(dp, m)
<1> DEFINE P == {i \in Nat : i >= m => Part(dp, i) = Part(dp, m)}
<1>1. \A i \in 0 .. m : i \in P OBVIOUS
<1>2. ASSUME NEW i \in 0 .. n - 1, i \in P PROVE i + 1 \in P
    <2>1. CASE i < m BY <2>1
    <2>2. CASE i >= m
        <3>1. Part(dp, i + 1) = Part(dp, i) + At(dp, i + 1) * Weight(i) /\ Part(dp, i) \in Nat
            BY PartIs, i \in Nat
        <3>2. At(dp, i + 1) = 0 BY <2>2
        <3>3. 0 * Weight(i) = 0 BY WeightIs
        <3>4. Part(dp, i) = Part(dp, m) BY <1>2, <2>2
        <3> QED BY <3>1, <3>2, <3>3, <3>4
    <2> QED BY <2>1, <2>2
<1>3. 0 \in P BY <1>1
<1> HIDE DEF P
<1>4. \A i \in 0 .. n : i \in P BY <1>2, <1>3, UptoInduct
<1> QED BY <1>4 DEF P

(* Only the digits matter, not how many zeros are above them. *)
LEMMA PartSame ==
    ASSUME NEW a \in Seq(Digit), NEW b \in Seq(Digit), NEW n \in Nat,
           \A i \in 1 .. n : At(a, i) = At(b, i)
    PROVE  Part(a, n) = Part(b, n)
<1> DEFINE P == {i \in Nat : Part(a, i) = Part(b, i)}
<1>1. 0 \in P BY PartIs
<1>2. ASSUME NEW i \in 0 .. n - 1, i \in P PROVE i + 1 \in P
    <2>1. /\ Part(a, i + 1) = Part(a, i) + At(a, i + 1) * Weight(i)
          /\ Part(b, i + 1) = Part(b, i) + At(b, i + 1) * Weight(i)
        BY PartIs, i \in Nat
    <2>2. At(a, i + 1) = At(b, i + 1) /\ i + 1 \in Nat OBVIOUS
    <2> QED BY <1>2, <2>1, <2>2
<1> HIDE DEF P
<1>3. \A i \in 0 .. n : i \in P BY <1>1, <1>2, UptoInduct
<1> QED BY <1>3 DEF P

(* and if they are the same from m on, the numbers differ as below m. *)
LEMMA PartDiffers ==
    ASSUME NEW a \in Seq(Digit), NEW b \in Seq(Digit), NEW m \in Nat, NEW n \in Nat, m <= n,
           \A i \in m + 1 .. n : At(a, i) = At(b, i)
    PROVE  Part(a, n) - Part(b, n) = Part(a, m) - Part(b, m)
<1> DEFINE P == {i \in Nat : i >= m => Part(a, i) - Part(b, i) = Part(a, m) - Part(b, m)}
<1>1. ASSUME NEW i \in 0 .. n - 1, i \in P PROVE i + 1 \in P
    <2>1. CASE i < m
        <3>1. i + 1 >= m => i + 1 = m BY <2>1
        <3> QED BY <3>1
    <2>2. CASE i >= m
        <3> DEFINE u == At(a, i + 1) * Weight(i)
        <3>1. i \in Nat /\ i + 1 \in Int OBVIOUS
        <3>2. /\ Part(a, i + 1) = Part(a, i) + u /\ Part(a, i) \in Nat
              /\ Part(b, i + 1) = Part(b, i) + At(b, i + 1) * Weight(i) /\ Part(b, i) \in Nat
            BY <3>1, PartIs
        <3>3. At(a, i + 1) = At(b, i + 1) BY <2>2
        <3>4. u \in Int
            <4>1. At(a, i + 1) \in Int BY <3>1, AtIs, DigitInt
            <4>2. Weight(i) \in Int BY <3>1, WeightIs
            <4> QED BY <4>1, <4>2
        <3>5. Part(a, i) - Part(b, i) = Part(a, m) - Part(b, m) BY <1>1, <2>2
        <3> HIDE DEF u
        <3>6. Part(b, i + 1) = Part(b, i) + u BY <3>2, <3>3 DEF u
        <3> QED BY <3>2, <3>4, <3>5, <3>6
    <2> QED BY <2>1, <2>2
<1>2. 0 \in P
    <2>1. 0 >= m => m = 0 OBVIOUS
    <2> QED BY <2>1
<1> HIDE DEF P
<1>3. \A i \in 0 .. n : i \in P BY <1>1, <1>2, UptoInduct
<1> QED BY <1>3 DEF P

(* MagnitudeOf adds up the digits from the top, Part from the bottom. *)
LEMMA MagnitudeIs ==
    ASSUME NEW dp \in Seq(Digit)
    PROVE  /\ MagnitudeOf(dp) \in Nat /\ MagnitudeOf(dp) < Weight(Len(dp))
           /\ \A n \in Nat : n >= Len(dp) => Part(dp, n) = MagnitudeOf(dp)
<1> DEFINE l == Len(dp)
           r == MP_RADIX
           Body(h) == [i \in 1 .. l + 1 |-> IF i > l THEN 0 ELSE dp[i] + r * h[i + 1]]
           V == CHOOSE h : h = Body(h)
           g == [v \in Nat \X Nat |-> At(dp, l + 1 - v[2]) + r * v[1]]
<1>0. l \in Nat /\ r \in Nat BY RadixIs
<1>1. g \in [Nat \X Nat -> Nat]
    <2>1. ASSUME NEW v \in Nat \X Nat PROVE At(dp, l + 1 - v[2]) + r * v[1] \in Nat
        <3>1. v[1] \in Nat /\ v[2] \in Nat OBVIOUS
        <3>2. At(dp, l + 1 - v[2]) \in Digit
            <4>1. l + 1 - v[2] \in Int BY <1>0, <3>1
            <4> QED BY <4>1, AtIs
        <3>3. r * v[1] \in Nat
            <4> HIDE DEF r
            <4> QED BY <1>0, <3>1
        <3> QED BY <3>2, <3>3, DigitInt
    <2> QED BY <2>1
<1>2. \A c \in Nat, j \in Nat : g[<<c, j>>] = At(dp, l + 1 - j) + r * c OBVIOUS
<1> HIDE DEF g, r
<1>3. PICK h \in [0 .. l -> Nat] : RecursesUpto(h, 0, g, l)
    <2>1. 0 \in Nat OBVIOUS
    <2> QED BY <1>0, <1>1, <2>1, UptoRecursion
<1> DEFINE e == [i \in 1 .. l + 1 |-> h[l + 1 - i]]
<1>4. ASSUME NEW i \in 1 .. l + 1
      PROVE  e[i] = IF i > l THEN 0 ELSE dp[i] + r * e[i + 1]
    <2> DEFINE j == l + 1 - i
    <2>1. j \in 0 .. l /\ (i > l <=> j = 0) /\ l + 1 - j = i BY <1>0
    <2>2. CASE i > l BY <1>3, <2>1, <2>2 DEF RecursesUpto
    <2>3. CASE i <= l
        <3>1. j # 0 /\ j \in Nat /\ j - 1 \in 0 .. l /\ l + 1 - (i + 1) = j - 1 /\ i + 1 \in 1 .. l + 1
            BY <1>0, <2>1, <2>3
        <3>2. h[j] = At(dp, i) + r * h[j - 1] BY <1>2, <1>3, <2>1, <3>1 DEF RecursesUpto
        <3>3. At(dp, i) = dp[i] BY <2>3, AtIs
        <3>4. e[i] = h[j] /\ e[i + 1] = h[j - 1] BY <3>1
        <3> HIDE DEF e, j
        <3> QED BY <1>0, <2>3, <3>2, <3>3, <3>4
    <2> QED BY <1>0, <2>2, <2>3
<1>5. e = Body(e) BY <1>4
<1>6. V = Body(V) BY <1>5
<1>7. MagnitudeOf(dp) = V[1] BY DEF MagnitudeOf, r
<1> HIDE DEF V, e
<1>8. V[l + 1] = 0 /\ \A i \in 1 .. l : V[i] = dp[i] + r * V[i + 1]
    <2>1. l + 1 \in 1 .. l + 1 /\ l + 1 > l BY <1>0
    <2>2. V[l + 1] = 0 BY <1>6, <2>1
    <2>3. ASSUME NEW i \in 1 .. l PROVE V[i] = dp[i] + r * V[i + 1]
        <3>1. i \in 1 .. l + 1 /\ ~(i > l) BY <1>0
        <3> QED BY <1>6, <3>1
    <2> QED BY <2>2, <2>3
<1> HIDE DEF Body
<1> DEFINE P == {j \in Nat : /\ V[l + 1 - j] \in Nat
                             /\ Part(dp, l - j) + Weight(l - j) * V[l + 1 - j] = Part(dp, l)}
<1>9. 0 \in P
    <2>1. l - 0 = l /\ l + 1 - 0 = l + 1 BY <1>0
    <2>2. Weight(l) * 0 = 0 /\ Part(dp, l) \in Nat BY <1>0, WeightIs, PartIs
    <2> QED BY <1>8, <2>1, <2>2
<1>10. ASSUME NEW j \in 0 .. l - 1, j \in P PROVE j + 1 \in P
    <2> DEFINE i == l - j
               k == i - 1
               c == V[i + 1]
               w == Weight(k)
    <2>1. /\ i \in 1 .. l /\ k \in Nat /\ k + 1 = i /\ l - (j + 1) = k /\ l + 1 - (j + 1) = i
          /\ l + 1 - j = i + 1
        BY <1>0
    <2>2. c \in Nat /\ Part(dp, i) + Weight(i) * c = Part(dp, l) BY <1>10, <2>1
    <2>3. V[i] = dp[i] + r * c BY <1>8, <2>1
    <2>4. Part(dp, i) = Part(dp, k) + At(dp, i) * w /\ Part(dp, k) \in Nat BY <2>1, PartIs
    <2>5. w \in Nat /\ Weight(i) = r * w BY <2>1, WeightIs DEF r
    <2>6. At(dp, i) = dp[i] /\ dp[i] \in Nat
        <3>1. i \in Int BY <2>1
        <3>2. At(dp, i) \in Digit /\ At(dp, i) = dp[i] BY <2>1, <3>1, AtIs
        <3> QED BY <3>2, DigitInt
    <2> HIDE DEF i, k, c, w
    <2>7. w * (dp[i] + r * c) = dp[i] * w + (r * w) * c BY <1>0, <2>2, <2>5, <2>6
    <2>8. (r * w) * c \in Nat /\ dp[i] * w \in Nat /\ r * c \in Nat BY <1>0, <2>2, <2>5, <2>6
    <2>9. Part(dp, k) + w * V[i] = Part(dp, l)
        BY <2>2, <2>3, <2>4, <2>5, <2>6, <2>7, <2>8
    <2>10. V[i] \in Nat BY <2>3, <2>6, <2>8
    <2> QED BY <2>1, <2>9, <2>10 DEF w
<1>11. Part(dp, l) = V[1] /\ V[1] \in Nat
    <2> DEFINE c == V[1]
    <2>1. l - l = 0 /\ l + 1 - l = 1 /\ l \in 0 .. l BY <1>0
    <2> HIDE DEF P
    <2>2. l \in P BY <1>0, <1>9, <1>10, <2>1, UptoInduct
    <2>3. c \in Nat /\ Part(dp, 0) + Weight(0) * c = Part(dp, l) BY <2>1, <2>2 DEF P
    <2>4. Part(dp, 0) = 0 /\ Weight(0) = 1 BY PartIs, WeightIs
    <2> HIDE DEF c
    <2>5. Part(dp, l) = c BY <2>3, <2>4
    <2> QED BY <2>3, <2>5 DEF c
<1>12. ASSUME NEW n \in Nat, n >= l PROVE Part(dp, n) = Part(dp, l)
    <2>1. \A i \in l + 1 .. n : At(dp, i) = 0 BY <1>0, AtIs
    <2> QED BY <1>0, <1>12, <2>1, PartEnd
<1>13. Part(dp, l) < Weight(l) BY <1>0, PartIs
<1> QED BY <1>7, <1>11, <1>12, <1>13

LEMMA WeightMono ==
    ASSUME NEW m \in Nat, NEW n \in Nat, m <= n
    PROVE  Weight(m) <= Weight(n)
<1> DEFINE P == {i \in Nat : Weight(m) <= Weight(m + i)}
<1>1. 0 \in P
    <2>1. m + 0 = m OBVIOUS
    <2> QED BY <2>1, WeightIs
<1>2. ASSUME NEW i \in Nat, i \in P PROVE i + 1 \in P
    <2> DEFINE w == Weight(m + i)
    <2>1. m + i \in Nat /\ m + (i + 1) = (m + i) + 1 OBVIOUS
    <2>2. w \in Nat /\ Weight(m + (i + 1)) = MP_RADIX * w BY <2>1, WeightIs
    <2>3. Weight(m) \in Nat /\ Weight(m) <= w BY <1>2, WeightIs
    <2>4. MP_RADIX \in Nat /\ MP_RADIX >= 4 BY RadixIs
    <2> HIDE DEF w
    <2>5. MP_RADIX * w >= w BY <2>2, <2>4
    <2> QED BY <2>2, <2>3, <2>4, <2>5
<1> HIDE DEF P
<1>3. n - m \in Nat /\ m + (n - m) = n OBVIOUS
<1>4. n - m \in P BY <1>1, <1>2, <1>3, NatInduct
<1> QED BY <1>3, <1>4 DEF P

(* A number whose highest digit is not zero. *)
LEMMA MagnitudeAbove ==
    ASSUME NEW dp \in Seq(Digit), dp # <<>>, Top(dp) # 0
    PROVE  MagnitudeOf(dp) >= Weight(Len(dp) - 1)
<1> DEFINE k == Len(dp) - 1
           w == Weight(k)
           d == At(dp, k + 1)
<1>1. k \in Nat /\ k + 1 = Len(dp) /\ k + 1 \in Nat /\ k + 1 \in 1 .. Len(dp) OBVIOUS
<1>2. d \in Nat /\ d # 0
    <2>1. d \in Digit /\ d = dp[k + 1] BY <1>1, AtIs
    <2> QED BY <1>1, <2>1, DigitInt DEF Top
<1>3. MagnitudeOf(dp) = Part(dp, k) + d * w /\ Part(dp, k) \in Nat
    <2>1. Part(dp, k + 1) = MagnitudeOf(dp) BY <1>1, MagnitudeIs
    <2> QED BY <1>1, <2>1, PartIs
<1>4. w \in Nat BY <1>1, WeightIs
<1> HIDE DEF k, w, d
<1>5. d * w >= w BY <1>2, <1>4
<1>6. d * w \in Nat BY <1>2, <1>4
<1>7. MagnitudeOf(dp) >= w BY <1>3, <1>4, <1>5, <1>6
<1> QED BY <1>7 DEF w, k

(* Max of FiniteSetsExt. *)
LEMMA MaxIs ==
    ASSUME NEW n \in Nat, NEW S \in SUBSET (1 .. n), S # {}
    PROVE  Max(S) \in S /\ \A i \in S : i <= Max(S)
<1> DEFINE T == {n - i : i \in S}
<1>0. \A i \in S : i \in 1 .. n /\ i \in Int OBVIOUS
<1>1. T \subseteq Nat /\ T # {}
    <2>1. \A i \in S : n - i \in Nat BY <1>0
    <2> QED BY <2>1
<1>2. PICK t \in T : \A u \in T : t <= u
    <2> HIDE DEF T
    <2> QED BY <1>1, LeastNat
<1>3. PICK m \in S : t = n - m BY <1>2
<1>4. ASSUME NEW i \in S PROVE m >= i
    <2>1. n - m <= n - i BY <1>2, <1>3
    <2>2. m \in Int /\ i \in Int BY <1>0
    <2> QED BY <2>1, <2>2
<1>5. \E j \in S : \A i \in S : j >= i BY <1>4
<1>6. Max(S) \in S /\ \A i \in S : Max(S) >= i BY <1>5 DEF Max
<1> QED BY <1>6

(* Digits without leading zeros, as every call leaves them. *)
Normal(dp) == dp \in Seq(Digit) /\ dp # <<>> /\ (Len(dp) > 1 => Top(dp) # 0)

(* s_mp_clamp drops leading zeros only. *)
LEMMA SameMagnitude ==
    ASSUME NEW a \in Seq(Digit), NEW b \in Seq(Digit), \A i \in Nat \ {0} : At(a, i) = At(b, i)
    PROVE  MagnitudeOf(a) = MagnitudeOf(b)
<1> DEFINE n == Len(a) + Len(b)
<1>1. n \in Nat /\ n >= Len(a) /\ n >= Len(b) OBVIOUS
<1>2. Part(a, n) = MagnitudeOf(a) /\ Part(b, n) = MagnitudeOf(b) BY <1>1, MagnitudeIs
<1>3. \A i \in 1 .. n : At(a, i) = At(b, i) OBVIOUS
<1> HIDE DEF n
<1>4. Part(a, n) = Part(b, n) BY <1>1, <1>3, PartSame
<1> QED BY <1>2, <1>4

LEMMA PrefixIs ==
    ASSUME NEW dp \in Seq(Digit), NEW k \in 0 .. Len(dp)
    PROVE  /\ SubSeq(dp, 1, k) \in Seq(Digit) /\ Len(SubSeq(dp, 1, k)) = k
           /\ \A i \in 1 .. k : SubSeq(dp, 1, k)[i] = dp[i]
           /\ \A i \in Int : At(SubSeq(dp, 1, k), i) = IF i <= k THEN At(dp, i) ELSE 0
<1> DEFINE s == SubSeq(dp, 1, k)
<1>1. k \in Nat /\ Len(dp) \in Nat /\ k <= Len(dp) OBVIOUS
<1>2. s \in Seq(Digit) /\ Len(s) = k BY <1>1
<1>3. \A i \in 1 .. k : s[i] = dp[i] BY <1>1
<1> HIDE DEF s
<1>4. ASSUME NEW i \in Int PROVE At(s, i) = IF i <= k THEN At(dp, i) ELSE 0
    <2>1. CASE i \in 1 .. k
        <3>1. i \in 1 .. Len(dp) /\ i <= k BY <1>1, <2>1
        <3> QED BY <1>2, <1>3, <2>1, <3>1 DEF At
    <2>2. CASE i > k
        <3>1. i \notin 1 .. k BY <1>1, <2>2
        <3> QED BY <1>1, <1>2, <2>2, <3>1 DEF At
    <2>3. CASE i <= 0
        <3>1. i \notin 1 .. k /\ i \notin 1 .. Len(dp) /\ i <= k BY <1>1, <2>3
        <3> QED BY <1>2, <3>1 DEF At
    <2> QED BY <1>1, <2>1, <2>2, <2>3
<1> QED BY <1>2, <1>3, <1>4 DEF s

LEMMA ClampIs ==
    ASSUME NEW dp \in Seq(Digit), dp # <<>>
    PROVE  /\ Normal(s_mp_clamp(dp)) /\ MagnitudeOf(s_mp_clamp(dp)) = MagnitudeOf(dp)
           /\ Len(s_mp_clamp(dp)) <= Len(dp)
<1> DEFINE S == {i \in 1 .. Len(dp) : dp[i] # 0}
           k == IF S = {} THEN 1 ELSE Max(S)
           c == s_mp_clamp(dp)
<1>1. c = SubSeq(dp, 1, k) BY DEF s_mp_clamp
<1>2. Len(dp) \in Nat /\ Len(dp) > 0 OBVIOUS
<1>3. /\ k \in 1 .. Len(dp) /\ (k > 1 => dp[k] # 0)
      /\ \A i \in 1 .. Len(dp) : i > k => dp[i] = 0
    <2>1. CASE S = {} BY <1>2, <2>1
    <2>2. CASE S # {}
        <3>1. S \in SUBSET (1 .. Len(dp)) OBVIOUS
        <3>2. k = Max(S) BY <2>2
        <3>3. k \in S /\ \A i \in S : i <= k
            <4> HIDE DEF S, k
            <4> QED BY <1>2, <2>2, <3>1, <3>2, MaxIs
        <3>4. k \in 1 .. Len(dp) /\ dp[k] # 0 BY <3>3
        <3>5. ASSUME NEW i \in 1 .. Len(dp), i > k PROVE dp[i] = 0
            <4>1. i \notin S BY <3>3, <3>4, <3>5
            <4> QED BY <4>1
        <3> HIDE DEF S, k
        <3> QED BY <3>4, <3>5
    <2> QED BY <2>1, <2>2
<1> HIDE DEF S, k
<1>4. k \in 0 .. Len(dp) BY <1>3
<1>5. /\ c \in Seq(Digit) /\ Len(c) = k /\ (\A i \in 1 .. k : c[i] = dp[i])
      /\ \A i \in Int : At(c, i) = IF i <= k THEN At(dp, i) ELSE 0
    BY <1>1, <1>4, PrefixIs
<1> HIDE DEF c
<1>6. ASSUME NEW i \in Nat \ {0} PROVE At(c, i) = At(dp, i)
    <2>1. CASE i <= k BY <1>5, <2>1
    <2>2. CASE i > k
        <3>1. At(dp, i) = 0
            <4>1. CASE i \in 1 .. Len(dp) BY <1>3, <2>2, <4>1 DEF At
            <4>2. CASE i \notin 1 .. Len(dp) BY <4>2 DEF At
            <4> QED BY <4>1, <4>2
        <3>2. At(c, i) = 0 BY <1>3, <1>5, <2>2
        <3> QED BY <3>1, <3>2
    <2> QED BY <1>3, <2>1, <2>2
<1>7. MagnitudeOf(c) = MagnitudeOf(dp) BY <1>5, <1>6, SameMagnitude
<1>8. Len(c) > 1 => Top(c) # 0
    <2>1. k \in 1 .. k BY <1>3
    <2> QED BY <1>3, <1>5, <2>1 DEF Top
<1>9. c # <<>> BY <1>3, <1>5
<1> QED BY <1>2, <1>3, <1>5, <1>7, <1>8, <1>9 DEF Normal, c

-----------------------------------------------------------------------------
(* Comparing *)

(* The highest digit in which numbers of one length differ decides. *)
LEMMA CmpSameLength ==
    ASSUME NEW a \in Seq(Digit), NEW b \in Seq(Digit), Len(a) = Len(b)
    PROVE  s_mp_cmp(a, b) = Sgn(MagnitudeOf(a) - MagnitudeOf(b))
<1> DEFINE n == Len(a)
           S == {i \in 1 .. Len(a) : a[i] # b[i]}
<1>0. n \in Nat /\ Len(b) = n OBVIOUS
<1>1. /\ Part(a, n) = MagnitudeOf(a) /\ Part(b, n) = MagnitudeOf(b)
      /\ Part(a, n) \in Nat /\ Part(b, n) \in Nat
    BY <1>0, MagnitudeIs
<1>2. \A i \in 1 .. n : At(a, i) = a[i] /\ At(b, i) = b[i] BY <1>0, AtIs
<1>3. s_mp_cmp(a, b) = IF S = {} THEN MP_EQ
                       ELSE IF a[Max(S)] > b[Max(S)] THEN MP_GT ELSE MP_LT
    <2>1. ~(Len(a) > Len(b)) /\ ~(Len(a) < Len(b)) OBVIOUS
    <2> QED BY <2>1 DEF s_mp_cmp
<1>4. CASE S = {}
    <2>1. \A i \in 1 .. n : At(a, i) = At(b, i) BY <1>2, <1>4
    <2>2. Part(a, n) = Part(b, n) BY <1>0, <2>1, PartSame
    <2>3. Sgn(0) = 0 BY DEF Sgn
    <2>4. MagnitudeOf(a) - MagnitudeOf(b) = 0 BY <1>1, <2>2
    <2> QED BY <1>3, <1>4, <2>3, <2>4 DEF MP_EQ
<1>5. CASE S # {}
    <2> DEFINE m == Max(S)
    <2>1. m \in S /\ \A i \in S : i <= m
        <3>1. S \in SUBSET (1 .. n) OBVIOUS
        <3> HIDE DEF S, n
        <3> QED BY <1>0, <1>5, <3>1, MaxIs
    <2>2. m \in 1 .. n /\ a[m] # b[m] BY <2>1
    <2>3. ASSUME NEW i \in m + 1 .. n PROVE At(a, i) = At(b, i)
        <3>1. i \in 1 .. n /\ i \notin S BY <1>0, <2>1, <2>2
        <3>2. a[i] = b[i] BY <3>1
        <3> QED BY <1>2, <3>1, <3>2
    <2> HIDE DEF m, n, S
    <2>4. Part(a, n) - Part(b, n) = Part(a, m) - Part(b, m)
        BY <1>0, <2>2, <2>3, PartDiffers
    <2> DEFINE k == m - 1
               w == Weight(k)
               s == Part(a, k)
               t == Part(b, k)
               d == a[m]
               e == b[m]
    <2>5. k \in Nat /\ k + 1 = m BY <1>0, <2>2
    <2>6. /\ Part(a, k + 1) = s + At(a, k + 1) * w /\ s \in Nat /\ s < w
          /\ Part(b, k + 1) = t + At(b, k + 1) * w /\ t \in Nat /\ t < w
        BY <2>5, PartIs
    <2>7. d \in Nat /\ e \in Nat /\ At(a, m) = d /\ At(b, m) = e
        <3>1. m \in Int BY <2>5
        <3>2. At(a, m) \in Digit /\ At(b, m) \in Digit BY <3>1, AtIs
        <3> QED BY <1>2, <2>2, <3>2, DigitInt
    <2>8. w \in Nat BY <2>5, WeightIs
    <2>9. s_mp_cmp(a, b) = IF d > e THEN MP_GT ELSE MP_LT BY <1>3, <1>5 DEF m
    <2>10. Part(a, n) - Part(b, n) = (s + d * w) - (t + e * w)
        BY <2>4, <2>5, <2>6, <2>7
    <2>11. d # e BY <2>2
    <2> HIDE DEF k, w, s, t, d, e
    <2>12. CASE d > e
        <3>1. d * w >= (e + 1) * w /\ (e + 1) * w = e * w + w BY <2>7, <2>8, <2>12
        <3>2. d * w \in Nat /\ e * w \in Nat BY <2>7, <2>8
        <3>3. Part(a, n) - Part(b, n) > 0 BY <2>6, <2>8, <2>10, <3>1, <3>2
        <3> QED BY <1>1, <2>9, <2>12, <3>3 DEF Sgn, MP_GT
    <2>13. CASE d < e
        <3>1. e * w >= (d + 1) * w /\ (d + 1) * w = d * w + w BY <2>7, <2>8, <2>13
        <3>2. d * w \in Nat /\ e * w \in Nat BY <2>7, <2>8
        <3>3. Part(a, n) - Part(b, n) < 0 BY <2>6, <2>8, <2>10, <3>1, <3>2
        <3>4. ~(d > e) BY <2>7, <2>13
        <3> QED BY <1>1, <2>9, <3>3, <3>4 DEF Sgn, MP_LT
    <2> QED BY <2>7, <2>11, <2>12, <2>13
<1> QED BY <1>4, <1>5

LEMMA LongerIsLarger ==
    ASSUME NEW a, NEW b, Normal(a), Normal(b), Len(a) > Len(b)
    PROVE  MagnitudeOf(a) > MagnitudeOf(b)
<1> DEFINE m == Len(a)
           n == Len(b)
<1>1. m \in Nat /\ n \in Nat /\ n > 0 /\ m - 1 \in Nat /\ n <= m - 1 /\ m > 1 BY DEF Normal
<1>2. a \in Seq(Digit) /\ b \in Seq(Digit) /\ a # <<>> /\ Top(a) # 0 BY <1>1 DEF Normal
<1>3. MagnitudeOf(a) >= Weight(m - 1) /\ MagnitudeOf(a) \in Nat BY <1>2, MagnitudeAbove, MagnitudeIs
<1>4. MagnitudeOf(b) < Weight(n) /\ MagnitudeOf(b) \in Nat BY <1>2, MagnitudeIs
<1> HIDE DEF m, n
<1>5. Weight(n) <= Weight(m - 1) /\ Weight(n) \in Nat /\ Weight(m - 1) \in Nat
    BY <1>1, WeightMono, WeightIs
<1> QED BY <1>3, <1>4, <1>5

(* s_mp_cmp orders numbers without leading zeros as integers. *)
LEMMA CmpIs ==
    ASSUME NEW a, NEW b, Normal(a), Normal(b)
    PROVE  s_mp_cmp(a, b) = Sgn(MagnitudeOf(a) - MagnitudeOf(b))
<1>1. a \in Seq(Digit) /\ b \in Seq(Digit) BY DEF Normal
<1>2. MagnitudeOf(a) \in Nat /\ MagnitudeOf(b) \in Nat BY <1>1, MagnitudeIs
<1>3. CASE Len(a) = Len(b) BY <1>1, <1>3, CmpSameLength
<1>4. CASE Len(a) > Len(b)
    <2>1. MagnitudeOf(a) > MagnitudeOf(b) BY <1>4, LongerIsLarger
    <2> QED BY <1>2, <1>4, <2>1 DEF s_mp_cmp, Sgn, MP_GT
<1>5. CASE Len(b) > Len(a)
    <2>1. MagnitudeOf(b) > MagnitudeOf(a) BY <1>5, LongerIsLarger
    <2>2. Len(a) < Len(b) /\ ~(Len(a) > Len(b)) BY <1>1, <1>5
    <2> QED BY <1>2, <2>1, <2>2 DEF s_mp_cmp, Sgn, MP_LT
<1>6. Len(a) \in Nat /\ Len(b) \in Nat BY <1>1
<1> QED BY <1>3, <1>4, <1>5, <1>6

-----------------------------------------------------------------------------
(* Sums and differences of magnitudes *)

Carry == {0, 1}
DigitCarry == [d : Digit, carry : Carry]

(* A carry shows in the wrapped sum being below a term; only one of the    *)
(* two additions can carry.                                                *)
LEMMA AddDigitIs ==
    ASSUME NEW a \in Digit, NEW b \in Digit, NEW c \in Carry
    PROVE  /\ AddDigit(a, b, c) \in DigitCarry
           /\ AddDigit(a, b, c).d + MP_RADIX * AddDigit(a, b, c).carry = a + b + c
<1> DEFINE R == MP_RADIX
           sum == Wrap(a + b)
           out == Wrap(sum + c)
           k == Bit(sum < a) + Bit(out < c)
<1>1. R \in Nat /\ R >= 4 BY RadixIs
<1>2. /\ a \in Nat /\ a < R /\ b \in Nat /\ b < R /\ c \in Nat /\ c <= 1
    BY DigitInt DEF Carry
<1>3. sum \in Digit /\ (a + b < R => sum = a + b) /\ (a + b >= R => sum = a + b - R)
    BY <1>1, <1>2, WrapIs
<1>4. sum \in Nat /\ sum < R BY <1>3, DigitInt
<1> HIDE DEF sum
<1>5. out \in Digit /\ (sum + c < R => out = sum + c) /\ (sum + c >= R => out = sum + c - R)
    BY <1>1, <1>2, <1>4, WrapIs
<1>6. AddDigit(a, b, c) = [d |-> out, carry |-> k] BY DEF AddDigit, sum
<1>7. out \in Nat BY <1>5, DigitInt
<1> HIDE DEF out, R
<1>8. k \in Carry /\ out + R * k = a + b + c
    <2>1. CASE a + b < R /\ sum + c < R
        <3>1. ~(sum < a) /\ ~(out < c) BY <1>2, <1>3, <1>5, <2>1
        <3>2. k = 0 BY <3>1 DEF Bit
        <3> HIDE DEF k
        <3> QED BY <1>1, <1>2, <1>3, <1>5, <2>1, <3>2 DEF Carry
    <2>2. CASE a + b < R /\ sum + c >= R
        <3>1. ~(sum < a) /\ out = 0 /\ c = 1 BY <1>1, <1>2, <1>3, <1>4, <1>5, <2>2
        <3>2. k = 1 BY <3>1 DEF Bit
        <3> HIDE DEF k
        <3> QED BY <1>1, <1>2, <1>3, <1>5, <2>2, <3>2 DEF Carry
    <2>3. CASE a + b >= R
        <3>1. sum < a /\ sum + c < R /\ ~(out < c) BY <1>1, <1>2, <1>3, <1>5, <2>3
        <3>2. k = 1 BY <3>1 DEF Bit
        <3> HIDE DEF k
        <3> QED BY <1>1, <1>2, <1>3, <1>5, <2>3, <3>1, <3>2 DEF Carry
    <2> QED BY <1>1, <1>2, <1>4, <2>1, <2>2, <2>3
<1> HIDE DEF k
<1> QED BY <1>5, <1>6, <1>8 DEF DigitCarry, R

LEMMA SubDigitIs ==
    ASSUME NEW a \in Digit, NEW b \in Digit, NEW c \in Carry
    PROVE  /\ SubDigit(a, b, c) \in DigitCarry
           /\ SubDigit(a, b, c).d = a - b - c + MP_RADIX * SubDigit(a, b, c).carry
<1> DEFINE R == MP_RADIX
           diff == Wrap(a - b)
           out == Wrap(diff - c)
           k == Bit(diff > a) + Bit(c = 1 /\ diff = 0)
<1>1. R \in Nat /\ R >= 4 BY RadixIs
<1>2. /\ a \in Nat /\ a < R /\ b \in Nat /\ b < R /\ c \in Nat /\ c <= 1
    BY DigitInt DEF Carry
<1>3. diff \in Digit /\ (a >= b => diff = a - b) /\ (a < b => diff = a - b + R)
    BY <1>1, <1>2, WrapIs
<1>4. diff \in Nat /\ diff < R BY <1>3, DigitInt
<1> HIDE DEF diff
<1>5. out \in Digit /\ (diff >= c => out = diff - c) /\ (diff < c => out = diff - c + R)
    BY <1>1, <1>2, <1>4, WrapIs
<1>6. SubDigit(a, b, c) = [d |-> out, carry |-> k] BY DEF SubDigit, diff
<1>7. out \in Nat BY <1>5, DigitInt
<1> HIDE DEF out, R
<1>8. k \in Carry /\ out = a - b - c + R * k
    <2>1. CASE a >= b /\ diff >= c
        <3>1. ~(diff > a) /\ ~(c = 1 /\ diff = 0) BY <1>2, <1>3, <1>4, <2>1
        <3>2. k = 0 BY <3>1 DEF Bit
        <3> HIDE DEF k
        <3> QED BY <1>1, <1>2, <1>3, <1>5, <2>1, <3>2 DEF Carry
    <2>2. CASE a >= b /\ diff < c
        <3>1. ~(diff > a) /\ c = 1 /\ diff = 0 BY <1>2, <1>3, <1>4, <2>2
        <3>2. k = 1 BY <3>1 DEF Bit
        <3> HIDE DEF k
        <3> QED BY <1>1, <1>2, <1>3, <1>5, <2>2, <3>1, <3>2 DEF Carry
    <2>3. CASE a < b
        <3>1. diff > a /\ diff >= c /\ ~(diff = 0) BY <1>1, <1>2, <1>3, <2>3
        <3>2. k = 1 BY <3>1 DEF Bit
        <3> HIDE DEF k
        <3> QED BY <1>1, <1>2, <1>3, <1>5, <2>3, <3>1, <3>2 DEF Carry
    <2> QED BY <1>1, <1>2, <1>4, <2>1, <2>2, <2>3
<1> HIDE DEF k
<1> QED BY <1>5, <1>6, <1>8 DEF DigitCarry, R

(* The digits that a loop has put out, and its carries. *)
DigitsFrom(r, n) == [i \in 1 .. n |-> r[i].d]

LEMMA DigitsFromIs ==
    ASSUME NEW r, NEW n \in Nat, \A i \in 1 .. n : r[i].d \in Digit
    PROVE  /\ DigitsFrom(r, n) \in Seq(Digit) /\ Len(DigitsFrom(r, n)) = n
           /\ \A i \in 1 .. n : At(DigitsFrom(r, n), i) = r[i].d /\ DigitsFrom(r, n)[i] = r[i].d
<1> DEFINE s == DigitsFrom(r, n)
<1>1. s \in [1 .. n -> Digit] BY DEF DigitsFrom
<1>2. \A i \in 1 .. n : s[i] = r[i].d BY DEF DigitsFrom
<1> HIDE DEF s
<1>3. s \in Seq(Digit) /\ Len(s) = n BY <1>1
<1>4. \A i \in 1 .. n : At(s, i) = r[i].d BY <1>2, <1>3 DEF At
<1> QED BY <1>2, <1>3, <1>4 DEF s

(* The loop of AddDigits, unfolded. *)
LEMMA AddRun ==
    ASSUME NEW a \in Seq(Digit), NEW b \in Seq(Digit),
           NEW n \in Nat, n = IF Len(a) > Len(b) THEN Len(a) ELSE Len(b)
    PROVE  \E r : /\ \A i \in 0 .. n + 1 : r[i] \in DigitCarry
                  /\ r[0].carry = 0
                  /\ \A i \in 1 .. n + 1 : r[i] = AddDigit(At(a, i), At(b, i), r[i - 1].carry)
                  /\ AddDigits(a, b) = WithCarry(DigitsFrom(r, n + 1))
<1> DEFINE first == [d |-> 0, carry |-> 0]
           Body(h) == [i \in 0 .. n + 1 |-> IF i = 0 THEN first
                                            ELSE AddDigit(At(a, i), At(b, i), h[i - 1].carry)]
           r == CHOOSE h : h = Body(h)
           g == [v \in DigitCarry \X Nat |-> AddDigit(At(a, v[2]), At(b, v[2]), v[1].carry)]
<1>1. first \in DigitCarry BY RadixIs DEF DigitCarry, Carry
<1>2. ASSUME NEW v \in DigitCarry, NEW i \in Nat
      PROVE  AddDigit(At(a, i), At(b, i), v.carry) \in DigitCarry
    <2>1. At(a, i) \in Digit /\ At(b, i) \in Digit
        <3>1. i \in Int OBVIOUS
        <3> QED BY <3>1, AtIs
    <2>2. v.carry \in Carry BY DEF DigitCarry
    <2> QED BY <2>1, <2>2, AddDigitIs
<1>3. g \in [DigitCarry \X Nat -> DigitCarry]
    <2>1. ASSUME NEW v \in DigitCarry \X Nat
          PROVE  AddDigit(At(a, v[2]), At(b, v[2]), v[1].carry) \in DigitCarry
        <3>1. v[1] \in DigitCarry /\ v[2] \in Nat OBVIOUS
        <3> QED BY <1>2, <3>1
    <2> QED BY <2>1
<1>4. \A v \in DigitCarry, i \in Nat : g[<<v, i>>] = AddDigit(At(a, i), At(b, i), v.carry) OBVIOUS
<1> HIDE DEF g, first
<1>5. n + 1 \in Nat OBVIOUS
<1>6. PICK h \in [0 .. n + 1 -> DigitCarry] : RecursesUpto(h, first, g, n + 1)
    BY <1>1, <1>3, <1>5, UptoRecursion
<1>7. ASSUME NEW i \in 0 .. n + 1
      PROVE  h[i] = IF i = 0 THEN first ELSE AddDigit(At(a, i), At(b, i), h[i - 1].carry)
    <2>1. CASE i = 0 BY <1>6, <2>1 DEF RecursesUpto
    <2>2. CASE i # 0
        <3>1. i \in Nat /\ i - 1 \in 0 .. n + 1 BY <2>2
        <3>2. h[i] = g[<<h[i - 1], i>>] BY <1>6, <2>2 DEF RecursesUpto
        <3> QED BY <1>4, <2>2, <3>1, <3>2
    <2> QED BY <2>1, <2>2
<1>8. h = Body(h) BY <1>7
<1>9. r = Body(r) BY <1>8
<1>10. AddDigits(a, b) = WithCarry(DigitsFrom(r, n + 1)) BY DEF AddDigits, DigitsFrom, first
<1> HIDE DEF r
<1>11. r[0] = first /\ \A i \in 1 .. n + 1 : r[i] = AddDigit(At(a, i), At(b, i), r[i - 1].carry)
    <2>1. 0 \in 0 .. n + 1 OBVIOUS
    <2>2. r[0] = first BY <1>9, <2>1
    <2>3. ASSUME NEW i \in 1 .. n + 1 PROVE r[i] = AddDigit(At(a, i), At(b, i), r[i - 1].carry)
        <3>1. i \in 0 .. n + 1 /\ i # 0 OBVIOUS
        <3> QED BY <1>9, <3>1
    <2> QED BY <2>2, <2>3
<1> HIDE DEF Body
<1> DEFINE P == {i \in Nat : r[i] \in DigitCarry}
<1>12. 0 \in P BY <1>1, <1>11
<1>13. ASSUME NEW i \in 0 .. (n + 1) - 1, i \in P PROVE i + 1 \in P
    <2>1. i + 1 \in 1 .. n + 1 /\ i + 1 \in Nat /\ (i + 1) - 1 = i OBVIOUS
    <2> QED BY <1>2, <1>11, <1>13, <2>1
<1> HIDE DEF P
<1>14. \A i \in 0 .. n + 1 : i \in P BY <1>5, <1>12, <1>13, UptoInduct
<1>15. \A i \in 0 .. n + 1 : r[i] \in DigitCarry BY <1>14 DEF P
<1>16. r[0].carry = 0 BY <1>11 DEF first
<1> QED BY <1>10, <1>11, <1>15, <1>16

(* The sum of two strings of digits has a digit more than the longer one   *)
(* exactly when there is a carry out of the top.                           *)
LEMMA AddDigitsValue ==
    ASSUME NEW a \in Seq(Digit), NEW b \in Seq(Digit),
           NEW n \in Nat, n = IF Len(a) > Len(b) THEN Len(a) ELSE Len(b)
    PROVE  /\ AddDigits(a, b) \in Seq(Digit)
           /\ MagnitudeOf(AddDigits(a, b)) = MagnitudeOf(a) + MagnitudeOf(b)
           /\ \/ Len(AddDigits(a, b)) = n
              \/ Len(AddDigits(a, b)) = n + 1 /\ Top(AddDigits(a, b)) # 0
<1>1. PICK r : /\ \A i \in 0 .. n + 1 : r[i] \in DigitCarry
               /\ r[0].carry = 0
               /\ \A i \in 1 .. n + 1 : r[i] = AddDigit(At(a, i), At(b, i), r[i - 1].carry)
               /\ AddDigits(a, b) = WithCarry(DigitsFrom(r, n + 1))
    BY AddRun
<1> DEFINE s == DigitsFrom(r, n + 1)
<1>2. n + 1 \in Nat /\ \A i \in 1 .. n + 1 : r[i].d \in Digit
    <2>1. ASSUME NEW i \in 1 .. n + 1 PROVE r[i].d \in Digit
        <3>1. i \in 0 .. n + 1 OBVIOUS
        <3>2. r[i] \in DigitCarry BY <1>1, <3>1
        <3> QED BY <3>2 DEF DigitCarry
    <2> QED BY <2>1
<1>3. s \in Seq(Digit) /\ Len(s) = n + 1 /\ \A i \in 1 .. n + 1 : At(s, i) = r[i].d
    BY <1>2, DigitsFromIs
<1>4. AddDigits(a, b) = WithCarry(s) BY <1>1
<1> HIDE DEF s
<1> DEFINE P == {i \in Nat : Part(s, i) + r[i].carry * Weight(i) = Part(a, i) + Part(b, i)}
<1>5. 0 \in P
    <2>1. Part(s, 0) = 0 /\ Part(a, 0) = 0 /\ Part(b, 0) = 0 BY <1>3, PartIs
    <2>2. r[0].carry * Weight(0) = 0 BY <1>1, WeightIs
    <2> QED BY <2>1, <2>2
<1>6. ASSUME NEW i \in 0 .. (n + 1) - 1, i \in P PROVE i + 1 \in P
    <2> DEFINE w == Weight(i)
               u == At(a, i + 1)
               v == At(b, i + 1)
               d == r[i + 1].d
               c == r[i].carry
               e == r[i + 1].carry
               R == MP_RADIX
    <2>1. i \in Nat /\ i + 1 \in 1 .. n + 1 /\ i + 1 \in Int /\ (i + 1) - 1 = i /\ i \in 0 .. n + 1
        OBVIOUS
    <2>2. /\ Part(a, i + 1) = Part(a, i) + u * w /\ Part(a, i) \in Nat
          /\ Part(b, i + 1) = Part(b, i) + v * w /\ Part(b, i) \in Nat
          /\ Part(s, i + 1) = Part(s, i) + At(s, i + 1) * w /\ Part(s, i) \in Nat
        BY <1>3, <2>1, PartIs
    <2>3. w \in Nat /\ Weight(i + 1) = R * w BY <2>1, WeightIs
    <2>4. u \in Digit /\ v \in Digit BY <2>1, AtIs
    <2>5. c \in Carry
        <3>1. r[i] \in DigitCarry BY <1>1, <2>1
        <3> QED BY <3>1 DEF DigitCarry
    <2>6. r[i + 1] = AddDigit(u, v, c) BY <1>1, <2>1
    <2>7. d + R * e = u + v + c /\ d \in Int /\ e \in Int
        <3> HIDE DEF u, v, c
        <3>1. AddDigit(u, v, c) \in DigitCarry BY <2>4, <2>5, AddDigitIs
        <3>2. d \in Digit /\ e \in Carry BY <2>6, <3>1 DEF DigitCarry
        <3>3. d + R * e = u + v + c BY <2>4, <2>5, <2>6, AddDigitIs
        <3> QED BY <3>2, <3>3, DigitInt DEF Carry
    <2>8. At(s, i + 1) = d BY <1>3, <2>1
    <2>9. Part(s, i) + c * w = Part(a, i) + Part(b, i) BY <1>6
    <2>10. u \in Int /\ v \in Int /\ c \in Int /\ R \in Int BY <2>4, <2>5, DigitInt, RadixIs DEF Carry
    <2>11. SUFFICES Part(s, i + 1) + e * Weight(i + 1) = Part(a, i + 1) + Part(b, i + 1)
        BY <2>1
    <2> HIDE DEF w, u, v, d, c, e, R
    <2>12. (d + R * e) * w = (u + v + c) * w BY <2>7
    <2>13. (d + R * e) * w = d * w + e * (R * w) BY <2>3, <2>7, <2>10
    <2>14. (u + v + c) * w = u * w + v * w + c * w BY <2>3, <2>10
    <2>15. d * w \in Int /\ e * (R * w) \in Int /\ u * w \in Int /\ v * w \in Int /\ c * w \in Int
        BY <2>3, <2>7, <2>10
    <2> DEFINE dw == d * w
               ew == e * (R * w)
               uw == u * w
               vw == v * w
               cw == c * w
    <2>16. dw + ew = uw + vw + cw BY <2>12, <2>13, <2>14
    <2>17. e * Weight(i + 1) = ew BY <2>3
    <2>18. /\ Part(s, i + 1) = Part(s, i) + dw /\ Part(a, i + 1) = Part(a, i) + uw
           /\ Part(b, i + 1) = Part(b, i) + vw
           /\ Part(s, i) + cw = Part(a, i) + Part(b, i)
        BY <2>2, <2>8, <2>9
    <2>19. dw \in Int /\ ew \in Int /\ uw \in Int /\ vw \in Int /\ cw \in Int BY <2>15
    <2> DEFINE f == e * Weight(i + 1)
    <2> HIDE DEF dw, ew, uw, vw, cw
    <2>20. f = ew BY <2>17
    <2> HIDE DEF f
    <2>21. Part(s, i + 1) + f = Part(a, i + 1) + Part(b, i + 1)
        <3> DEFINE As == Part(a, i)
                   Bs == Part(b, i)
                   Ss == Part(s, i)
        <3>1. As \in Int /\ Bs \in Int /\ Ss \in Int BY <2>2
        <3>2. /\ Part(s, i + 1) = Ss + dw /\ Part(a, i + 1) = As + uw
              /\ Part(b, i + 1) = Bs + vw /\ Ss + cw = As + Bs
            BY <2>18
        <3> HIDE DEF As, Bs, Ss
        <3>3. (Ss + dw) + ew = (As + uw) + (Bs + vw) BY <2>16, <2>19, <3>1, <3>2
        <3> QED BY <2>20, <3>2, <3>3
    <2> QED BY <2>21 DEF f
<1> HIDE DEF P
<1>7. \A i \in 0 .. n + 1 : i \in P BY <1>2, <1>5, <1>6, UptoInduct
<1> DEFINE A == MagnitudeOf(a)
           B == MagnitudeOf(b)
           k == r[n].carry
<1>8. A \in Nat /\ B \in Nat /\ Part(a, n) = A /\ Part(b, n) = B /\ A < Weight(n) /\ B < Weight(n)
    <2>1. n >= Len(a) /\ n >= Len(b) /\ Len(a) \in Nat /\ Len(b) \in Nat OBVIOUS
    <2>2. /\ A \in Nat /\ B \in Nat /\ Part(a, n) = A /\ Part(b, n) = B
          /\ A < Weight(Len(a)) /\ B < Weight(Len(b))
        BY <2>1, MagnitudeIs
    <2>3. Weight(Len(a)) <= Weight(n) /\ Weight(Len(b)) <= Weight(n) BY <2>1, WeightMono
    <2>4. Weight(Len(a)) \in Nat /\ Weight(Len(b)) \in Nat /\ Weight(n) \in Nat BY <2>1, WeightIs
    <2> HIDE DEF A, B
    <2> QED BY <2>2, <2>3, <2>4
<1>9. Part(s, n) + k * Weight(n) = A + B
    <2>1. n \in P BY <1>7
    <2> QED BY <1>8, <2>1 DEF P
<1>10. k \in Carry
    <2>1. n \in 0 .. n + 1 OBVIOUS
    <2>2. r[n] \in DigitCarry BY <1>1, <2>1
    <2> QED BY <2>2 DEF DigitCarry
<1>11. At(s, n + 1) = k /\ s[n + 1] = k
    <2>1. n + 1 \in Int /\ n + 1 > Len(a) /\ n + 1 > Len(b) OBVIOUS
    <2>2. At(a, n + 1) = 0 /\ At(b, n + 1) = 0 BY <2>1, AtIs
    <2>3. n + 1 \in 1 .. n + 1 /\ (n + 1) - 1 = n OBVIOUS
    <2>4. r[n + 1] = AddDigit(0, 0, k) BY <1>1, <2>2, <2>3
    <2>5. 0 \in Digit BY RadixIs
    <2>6. /\ AddDigit(0, 0, k) \in DigitCarry
          /\ AddDigit(0, 0, k).d + MP_RADIX * AddDigit(0, 0, k).carry = 0 + 0 + k
        BY <1>10, <2>5, AddDigitIs
    <2>7. r[n + 1].d = k
        <3> DEFINE d == AddDigit(0, 0, k).d
                   e == AddDigit(0, 0, k).carry
        <3>1. d \in Digit /\ e \in Carry BY <2>6 DEF DigitCarry
        <3>2. d \in Nat /\ (e = 0 \/ e = 1) /\ MP_RADIX \in Nat /\ MP_RADIX >= 4 /\ k <= 1 /\ k \in Nat
            BY <1>10, <3>1, DigitInt, RadixIs DEF Carry
        <3>3. d + MP_RADIX * e = k BY <2>6, <3>2
        <3> HIDE DEF d, e, k
        <3>4. d = k BY <3>2, <3>3
        <3> QED BY <2>4, <3>4 DEF d
    <2>8. At(s, n + 1) = k BY <1>3, <2>3, <2>7
    <2>9. n + 1 \in 1 .. Len(s) BY <1>3, <2>3
    <2> QED BY <1>3, <2>8, <2>9 DEF At
<1>12. MagnitudeOf(s) = A + B
    <2>1. Part(s, n + 1) = Part(s, n) + At(s, n + 1) * Weight(n) BY <1>3, PartIs
    <2>2. Part(s, n + 1) = MagnitudeOf(s) BY <1>2, <1>3, MagnitudeIs
    <2> QED BY <1>9, <1>11, <2>1, <2>2
<1>13. Top(s) = k BY <1>3, <1>11 DEF Top
<1>14. CASE k # 0
    <2>1. AddDigits(a, b) = s BY <1>4, <1>13, <1>14 DEF WithCarry
    <2> QED BY <1>3, <1>12, <1>13, <1>14, <2>1
<1>15. CASE k = 0
    <2> DEFINE t == SubSeq(s, 1, n)
    <2>1. AddDigits(a, b) = t
        <3>1. Len(s) - 1 = n BY <1>3
        <3> QED BY <1>4, <1>13, <1>15, <3>1 DEF WithCarry
    <2>2. n \in 0 .. Len(s) BY <1>3
    <2>3. /\ t \in Seq(Digit) /\ Len(t) = n
          /\ \A i \in Int : At(t, i) = IF i <= n THEN At(s, i) ELSE 0
        BY <1>3, <2>2, PrefixIs
    <2> HIDE DEF t
    <2>4. \A i \in 1 .. n : At(t, i) = At(s, i) BY <2>3
    <2>5. Part(t, n) = Part(s, n) BY <1>3, <2>3, <2>4, PartSame
    <2>6. Part(t, n) = MagnitudeOf(t) BY <2>3, MagnitudeIs
    <2>7. 0 * Weight(n) = 0 /\ Part(s, n) \in Nat
        <3>1. Weight(n) \in Nat BY WeightIs
        <3>2. Part(s, n) \in Nat BY <1>3, PartIs
        <3> QED BY <3>1, <3>2
    <2>8. Part(s, n) + 0 * Weight(n) = A + B BY <1>9, <1>15
    <2>9. MagnitudeOf(t) = A + B BY <2>5, <2>6, <2>7, <2>8
    <2> QED BY <2>1, <2>3, <2>9
<1> QED BY <1>14, <1>15

(* Numbers without leading zeros have a sum without leading zeros. *)
LEMMA AddDigitsIs ==
    ASSUME NEW a, NEW b, Normal(a), Normal(b)
    PROVE  /\ Normal(AddDigits(a, b))
           /\ MagnitudeOf(AddDigits(a, b)) = MagnitudeOf(a) + MagnitudeOf(b)
<1> DEFINE n == IF Len(a) > Len(b) THEN Len(a) ELSE Len(b)
           s == AddDigits(a, b)
<1>1. a \in Seq(Digit) /\ b \in Seq(Digit) /\ Len(a) > 0 /\ Len(b) > 0 BY DEF Normal
<1>2. n \in Nat /\ n > 0 BY <1>1
<1>3. /\ s \in Seq(Digit) /\ MagnitudeOf(s) = MagnitudeOf(a) + MagnitudeOf(b)
      /\ \/ Len(s) = n
         \/ Len(s) = n + 1 /\ Top(s) # 0
    BY <1>1, <1>2, AddDigitsValue
<1>4. MagnitudeOf(a) \in Nat /\ MagnitudeOf(b) \in Nat /\ MagnitudeOf(s) \in Nat
    BY <1>1, <1>3, MagnitudeIs
<1>5. ASSUME n > 1 PROVE MagnitudeOf(s) >= Weight(n - 1)
    <2>1. Weight(n - 1) \in Nat
        <3>1. n - 1 \in Nat BY <1>2
        <3> QED BY <3>1, WeightIs
    <2>2. CASE n = Len(a)
        <3>1. MagnitudeOf(a) >= Weight(n - 1) BY <1>1, <1>5, <2>2, MagnitudeAbove DEF Normal
        <3> QED BY <1>3, <1>4, <2>1, <3>1
    <2>3. CASE n = Len(b)
        <3>1. MagnitudeOf(b) >= Weight(n - 1) BY <1>1, <1>5, <2>3, MagnitudeAbove DEF Normal
        <3> QED BY <1>3, <1>4, <2>1, <3>1
    <2> QED BY <2>2, <2>3
<1> HIDE DEF n, s
<1>6. ASSUME Len(s) = n, n > 1 PROVE Top(s) # 0
    <2> SUFFICES ASSUME Top(s) = 0 PROVE FALSE OBVIOUS
    <2> DEFINE k == n - 1
    <2>1. k \in Nat /\ k + 1 = n /\ n \in 1 .. Len(s) /\ n \in Int BY <1>2, <1>6
    <2>2. At(s, k + 1) = 0 BY <1>3, <1>6, <2>1, AtIs DEF Top
    <2>3. MagnitudeOf(s) = Part(s, k + 1) BY <1>2, <1>3, <1>6, <2>1, MagnitudeIs
    <2>4. Part(s, k + 1) = Part(s, k) + At(s, k + 1) * Weight(k) /\ Part(s, k) < Weight(k)
          /\ Part(s, k) \in Nat
        BY <1>3, <2>1, PartIs
    <2>5. Weight(k) \in Nat BY <2>1, WeightIs
    <2>6. 0 * Weight(k) = 0 BY <2>5
    <2>7. MagnitudeOf(s) < Weight(k) BY <2>2, <2>3, <2>4, <2>6
    <2> QED BY <1>4, <1>5, <1>6, <2>5, <2>7
<1>7. s # <<>> BY <1>2, <1>3
<1>8. Normal(s)
    <2>1. ASSUME Len(s) > 1 PROVE Top(s) # 0
        <3>1. CASE Len(s) = n BY <1>6, <2>1, <3>1
        <3>2. CASE Len(s) # n BY <1>3, <3>2
        <3> QED BY <3>1, <3>2
    <2> QED BY <1>3, <1>7, <2>1 DEF Normal
<1> QED BY <1>3, <1>8 DEF s

(* The loop of SubDigits, unfolded. *)
LEMMA SubRun ==
    ASSUME NEW a \in Seq(Digit), NEW b \in Seq(Digit), NEW n \in Nat, n = Len(a)
    PROVE  \E r : /\ \A i \in 0 .. n : r[i] \in DigitCarry
                  /\ r[0].carry = 0
                  /\ \A i \in 1 .. n : r[i] = SubDigit(At(a, i), At(b, i), r[i - 1].carry)
                  /\ SubDigits(a, b) = [dp |-> DigitsFrom(r, n), borrow |-> r[n].carry]
<1> DEFINE first == [d |-> 0, carry |-> 0]
           Body(h) == [i \in 0 .. n |-> IF i = 0 THEN first
                                        ELSE SubDigit(a[i], At(b, i), h[i - 1].carry)]
           r == CHOOSE h : h = Body(h)
           g == [v \in DigitCarry \X Nat |-> SubDigit(At(a, v[2]), At(b, v[2]), v[1].carry)]
<1>1. first \in DigitCarry BY RadixIs DEF DigitCarry, Carry
<1>2. ASSUME NEW v \in DigitCarry, NEW i \in Nat
      PROVE  SubDigit(At(a, i), At(b, i), v.carry) \in DigitCarry
    <2>1. At(a, i) \in Digit /\ At(b, i) \in Digit
        <3>1. i \in Int OBVIOUS
        <3> QED BY <3>1, AtIs
    <2>2. v.carry \in Carry BY DEF DigitCarry
    <2> QED BY <2>1, <2>2, SubDigitIs
<1>3. g \in [DigitCarry \X Nat -> DigitCarry]
    <2>1. ASSUME NEW v \in DigitCarry \X Nat
          PROVE  SubDigit(At(a, v[2]), At(b, v[2]), v[1].carry) \in DigitCarry
        <3>1. v[1] \in DigitCarry /\ v[2] \in Nat OBVIOUS
        <3> QED BY <1>2, <3>1
    <2> QED BY <2>1
<1>4. \A v \in DigitCarry, i \in Nat : g[<<v, i>>] = SubDigit(At(a, i), At(b, i), v.carry) OBVIOUS
<1> HIDE DEF g, first
<1>5. n \in 0 .. n /\ \A i \in 1 .. n : At(a, i) = a[i] BY AtIs
<1>6. PICK h \in [0 .. n -> DigitCarry] : RecursesUpto(h, first, g, n)
    BY <1>1, <1>3, UptoRecursion
<1>7. ASSUME NEW i \in 0 .. n
      PROVE  h[i] = IF i = 0 THEN first ELSE SubDigit(a[i], At(b, i), h[i - 1].carry)
    <2>1. CASE i = 0 BY <1>6, <2>1 DEF RecursesUpto
    <2>2. CASE i # 0
        <3>1. i \in Nat /\ i - 1 \in 0 .. n /\ At(a, i) = a[i] BY <1>5, <2>2
        <3>2. h[i] = g[<<h[i - 1], i>>] BY <1>6, <2>2 DEF RecursesUpto
        <3> QED BY <1>4, <2>2, <3>1, <3>2
    <2> QED BY <2>1, <2>2
<1>8. h = Body(h) BY <1>7
<1>9. r = Body(r) BY <1>8
<1>10. SubDigits(a, b) = [dp |-> DigitsFrom(r, n), borrow |-> r[n].carry]
    BY DEF SubDigits, DigitsFrom, first
<1> HIDE DEF r
<1>11. r[0] = first /\ \A i \in 1 .. n : r[i] = SubDigit(At(a, i), At(b, i), r[i - 1].carry)
    <2>1. 0 \in 0 .. n OBVIOUS
    <2>2. r[0] = first BY <1>9, <2>1
    <2>3. ASSUME NEW i \in 1 .. n PROVE r[i] = SubDigit(At(a, i), At(b, i), r[i - 1].carry)
        <3>1. i \in 0 .. n /\ i # 0 /\ At(a, i) = a[i] BY <1>5
        <3> QED BY <1>9, <3>1
    <2> QED BY <2>2, <2>3
<1> HIDE DEF Body
<1> DEFINE P == {i \in Nat : r[i] \in DigitCarry}
<1>12. 0 \in P BY <1>1, <1>11
<1>13. ASSUME NEW i \in 0 .. n - 1, i \in P PROVE i + 1 \in P
    <2>1. i + 1 \in 1 .. n /\ i + 1 \in Nat /\ (i + 1) - 1 = i OBVIOUS
    <2> QED BY <1>2, <1>11, <1>13, <2>1
<1> HIDE DEF P
<1>14. \A i \in 0 .. n : i \in P BY <1>12, <1>13, UptoInduct
<1>15. \A i \in 0 .. n : r[i] \in DigitCarry BY <1>14 DEF P
<1>16. r[0].carry = 0 BY <1>11 DEF first
<1> QED BY <1>10, <1>11, <1>15, <1>16

(* A borrow out of the top means that the second number is larger. *)
LEMMA SubDigitsIs ==
    ASSUME NEW a \in Seq(Digit), NEW b \in Seq(Digit), Len(b) <= Len(a)
    PROVE  /\ SubDigits(a, b).dp \in Seq(Digit) /\ Len(SubDigits(a, b).dp) = Len(a)
           /\ SubDigits(a, b).borrow # 0 <=> MagnitudeOf(a) < MagnitudeOf(b)
           /\ SubDigits(a, b).borrow = 0 =>
                MagnitudeOf(SubDigits(a, b).dp) = MagnitudeOf(a) - MagnitudeOf(b)
<1> DEFINE n == Len(a)
<1>0. n \in Nat OBVIOUS
<1>1. PICK r : /\ \A i \in 0 .. n : r[i] \in DigitCarry
               /\ r[0].carry = 0
               /\ \A i \in 1 .. n : r[i] = SubDigit(At(a, i), At(b, i), r[i - 1].carry)
               /\ SubDigits(a, b) = [dp |-> DigitsFrom(r, n), borrow |-> r[n].carry]
    BY <1>0, SubRun
<1> DEFINE s == DigitsFrom(r, n)
           k == r[n].carry
<1>2. \A i \in 1 .. n : r[i].d \in Digit
    <2>1. ASSUME NEW i \in 1 .. n PROVE r[i].d \in Digit
        <3>1. i \in 0 .. n OBVIOUS
        <3>2. r[i] \in DigitCarry BY <1>1, <3>1
        <3> QED BY <3>2 DEF DigitCarry
    <2> QED BY <2>1
<1>3. s \in Seq(Digit) /\ Len(s) = n /\ \A i \in 1 .. n : At(s, i) = r[i].d
    BY <1>0, <1>2, DigitsFromIs
<1>4. SubDigits(a, b) = [dp |-> s, borrow |-> k] BY <1>1
<1> HIDE DEF s, n
<1> DEFINE P == {i \in Nat : Part(s, i) = Part(a, i) - Part(b, i) + r[i].carry * Weight(i)}
<1>5. 0 \in P
    <2>1. Part(s, 0) = 0 /\ Part(a, 0) = 0 /\ Part(b, 0) = 0 BY <1>3, PartIs
    <2>2. r[0].carry * Weight(0) = 0 BY <1>1, WeightIs
    <2> QED BY <2>1, <2>2
<1>6. ASSUME NEW i \in 0 .. n - 1, i \in P PROVE i + 1 \in P
    <2> DEFINE w == Weight(i)
               u == At(a, i + 1)
               v == At(b, i + 1)
               d == r[i + 1].d
               c == r[i].carry
               e == r[i + 1].carry
               R == MP_RADIX
               As == Part(a, i)
               Bs == Part(b, i)
               Ss == Part(s, i)
    <2>1. i \in Nat /\ i + 1 \in 1 .. n /\ i + 1 \in Int /\ (i + 1) - 1 = i /\ i \in 0 .. n
        BY <1>0
    <2>2. /\ Part(a, i + 1) = As + u * w /\ Part(b, i + 1) = Bs + v * w
          /\ Part(s, i + 1) = Ss + At(s, i + 1) * w
        BY <1>3, <2>1, PartIs
    <2>3. As \in Int /\ Bs \in Int /\ Ss \in Int BY <1>3, <2>1, PartIs
    <2>4. w \in Nat /\ Weight(i + 1) = R * w BY <2>1, WeightIs
    <2>5. u \in Digit /\ v \in Digit BY <2>1, AtIs
    <2>6. c \in Carry
        <3>1. r[i] \in DigitCarry BY <1>1, <2>1
        <3> QED BY <3>1 DEF DigitCarry
    <2>7. r[i + 1] = SubDigit(u, v, c) BY <1>1, <2>1
    <2>8. d = u - v - c + R * e /\ d \in Int /\ e \in Int
        <3> HIDE DEF u, v, c
        <3>1. SubDigit(u, v, c) \in DigitCarry BY <2>5, <2>6, SubDigitIs
        <3>2. d \in Digit /\ e \in Carry BY <2>7, <3>1 DEF DigitCarry
        <3>3. d = u - v - c + R * e BY <2>5, <2>6, <2>7, SubDigitIs
        <3> QED BY <3>2, <3>3, DigitInt DEF Carry
    <2>9. At(s, i + 1) = d BY <1>3, <2>1
    <2>10. Ss = As - Bs + c * w BY <1>6
    <2>11. u \in Int /\ v \in Int /\ c \in Int /\ R \in Int BY <2>5, <2>6, DigitInt, RadixIs DEF Carry
    <2>12. SUFFICES Part(s, i + 1) = Part(a, i + 1) - Part(b, i + 1) + e * Weight(i + 1)
        BY <2>1
    <2> HIDE DEF w, u, v, d, c, e, R, As, Bs, Ss
    <2> DEFINE dw == d * w
               uw == u * w
               vw == v * w
               cw == c * w
               ew == e * (R * w)
               f == e * Weight(i + 1)
    <2>13. d * w = (u - v - c + R * e) * w BY <2>8
    <2>14. (u - v - c + R * e) * w = u * w - v * w - c * w + e * (R * w) BY <2>4, <2>8, <2>11
    <2>15. dw \in Int /\ ew \in Int /\ uw \in Int /\ vw \in Int /\ cw \in Int
        BY <2>4, <2>8, <2>11
    <2>16. dw = uw - vw - cw + ew BY <2>13, <2>14
    <2>17. f = ew BY <2>4
    <2>18. /\ Part(s, i + 1) = Ss + dw /\ Part(a, i + 1) = As + uw /\ Part(b, i + 1) = Bs + vw
           /\ Ss = As - Bs + cw
        BY <2>2, <2>9, <2>10
    <2> HIDE DEF dw, ew, uw, vw, cw, f
    <2>19. Ss + dw = (As + uw) - (Bs + vw) + ew BY <2>3, <2>15, <2>16, <2>18
    <2>20. Part(s, i + 1) = Part(a, i + 1) - Part(b, i + 1) + f BY <2>17, <2>18, <2>19
    <2> QED BY <2>20 DEF f
<1> HIDE DEF P
<1>7. n \in P
    <2>1. n \in 0 .. n BY <1>0
    <2> QED BY <1>0, <1>5, <1>6, <2>1, UptoInduct
<1> DEFINE A == MagnitudeOf(a)
           B == MagnitudeOf(b)
           S == MagnitudeOf(s)
           w == Weight(n)
<1>8. /\ Part(a, n) = A /\ Part(b, n) = B /\ Part(s, n) = S
      /\ A \in Nat /\ B \in Nat /\ S \in Nat
    BY <1>0, <1>3, MagnitudeIs DEF n
<1>9. A < w /\ S < w /\ w \in Nat
    <2>1. Part(a, n) < Weight(n) /\ Part(s, n) < Weight(n) BY <1>0, <1>3, PartIs
    <2> QED BY <1>0, <1>8, <2>1, WeightIs
<1>10. S = A - B + k * w BY <1>7, <1>8 DEF P
<1>11. k \in Carry
    <2>1. n \in 0 .. n BY <1>0
    <2>2. r[n] \in DigitCarry BY <1>1, <2>1
    <2> QED BY <2>2 DEF DigitCarry
<1> HIDE DEF A, B, S, w, k
<1>12. CASE k = 0
    <2>1. 0 * w = 0 BY <1>9
    <2>2. S = A - B /\ ~(A < B) BY <1>8, <1>10, <1>12, <2>1
    <2> QED BY <1>3, <1>4, <1>12, <2>2 DEF A, B, S, n
<1>13. CASE k = 1
    <2>1. 1 * w = w BY <1>9
    <2>2. A < B BY <1>8, <1>9, <1>10, <1>13, <2>1
    <2> QED BY <1>3, <1>4, <1>13, <2>2 DEF A, B, S, n
<1> QED BY <1>11, <1>12, <1>13 DEF Carry

-----------------------------------------------------------------------------
(* Signed numbers *)

LEMMA OneDigit ==
    ASSUME NEW d \in Digit
    PROVE  Normal(<<d>>) /\ MagnitudeOf(<<d>>) = d
<1> DEFINE s == <<d>>
<1>1. s \in Seq(Digit) /\ s # <<>> /\ Len(s) = 1 /\ s[1] = d OBVIOUS
<1> HIDE DEF s
<1>2. Normal(s) BY <1>1 DEF Normal
<1>3. At(s, 1) = d BY <1>1 DEF At
<1>4. Part(s, 1) = MagnitudeOf(s)
    <2>1. 1 \in Nat /\ 1 >= Len(s) BY <1>1
    <2> QED BY <1>1, <2>1, MagnitudeIs
<1>5. 0 + 1 = 1 OBVIOUS
<1>6. Part(s, 0 + 1) = Part(s, 0) + At(s, 0 + 1) * Weight(0) /\ Part(s, 0) = 0 BY <1>1, PartIs
<1>7. Weight(0) = 1 BY WeightIs
<1>8. Part(s, 1) = 0 + d * 1 BY <1>3, <1>5, <1>6, <1>7
<1>9. 0 + d * 1 = d BY DigitInt
<1> QED BY <1>2, <1>4, <1>8, <1>9 DEF s

LEMMA NormalIs ==
    ASSUME NEW dp, Normal(dp)
    PROVE  /\ dp \in Seq(Digit) /\ MagnitudeOf(dp) \in Nat
           /\ Len(dp) \in Nat /\ Len(dp) > 0 /\ dp[1] \in Digit
           /\ Len(dp) = 1 \/ Len(dp) > 1
           /\ MagnitudeOf(dp) = 0 <=> dp = <<0>>
           /\ Len(dp) = 1 => MagnitudeOf(dp) = dp[1]
           /\ Len(dp) > 1 => MagnitudeOf(dp) >= MP_RADIX
<1>1. dp \in Seq(Digit) /\ dp # <<>> BY DEF Normal
<1>2. Len(dp) \in Nat /\ Len(dp) > 0 /\ dp[1] \in Digit BY <1>1
<1>3. MagnitudeOf(dp) \in Nat BY <1>1, MagnitudeIs
<1> DEFINE l == Len(dp)
<1>6. (l = 1 \/ l > 1) /\ (l > 1 => l # 1)
    <2>1. l \in Nat /\ l > 0 BY <1>2
    <2> HIDE DEF l
    <2> QED BY <2>1
<1>4. CASE Len(dp) = 1
    <2>1. dp = <<dp[1]>> BY <1>1, <1>4
    <2>2. MagnitudeOf(<<dp[1]>>) = dp[1] BY <1>2, OneDigit
    <2> QED BY <1>1, <1>2, <1>3, <1>4, <2>1, <2>2
<1>5. CASE Len(dp) > 1
    <2> DEFINE k == Len(dp) - 1
    <2>1. k \in Nat /\ 1 <= k BY <1>2, <1>5
    <2>2. MagnitudeOf(dp) >= Weight(k) BY <1>1, <1>5, MagnitudeAbove DEF Normal
    <2>3. Weight(1) <= Weight(k) /\ Weight(k) \in Nat BY <2>1, WeightMono, WeightIs
    <2>4. Weight(0 + 1) = MP_RADIX * Weight(0) /\ Weight(0) = 1 BY WeightIs
    <2>5. 0 + 1 = 1 /\ MP_RADIX * 1 = MP_RADIX /\ MP_RADIX \in Nat /\ MP_RADIX >= 4 BY RadixIs
    <2>6. Weight(1) = MP_RADIX BY <2>4, <2>5
    <2> HIDE DEF k
    <2>7. MagnitudeOf(dp) >= MP_RADIX BY <1>3, <2>2, <2>3, <2>5, <2>6
    <2>8. dp # <<0>>
        <3>1. Len(<<0>>) = 1 OBVIOUS
        <3>2. Len(dp) # 1 BY <1>5, <1>6, Zenon
        <3> QED BY <3>1, <3>2, Zenon
    <2>9. Len(dp) # 1 BY <1>5, <1>6, Zenon
    <2>10. MagnitudeOf(dp) # 0
        <3> DEFINE m == MagnitudeOf(dp)
        <3> HIDE DEF m
        <3>1. m # 0 BY <1>3, <2>5, <2>7 DEF m
        <3> QED BY <3>1 DEF m
    <2> QED BY <1>1, <1>2, <1>3, <1>5, <2>7, <2>8, <2>9, <2>10, Zenon
<1> QED BY <1>4, <1>5, <1>6, Zenon

LEMMA CmpDigitIs ==
    ASSUME NEW dp, Normal(dp), NEW d \in Digit
    PROVE  s_mp_cmp_d(dp, d) = Sgn(MagnitudeOf(dp) - d)
<1>1. /\ MagnitudeOf(dp) \in Nat /\ Len(dp) \in Nat /\ Len(dp) > 0 /\ dp[1] \in Nat
      /\ Len(dp) = 1 => MagnitudeOf(dp) = dp[1]
      /\ Len(dp) > 1 => MagnitudeOf(dp) >= MP_RADIX
    BY NormalIs, DigitInt
<1>2. d \in Nat /\ d < MP_RADIX /\ MP_RADIX \in Nat BY DigitInt, RadixIs
<1> DEFINE m == MagnitudeOf(dp)
           s == Sgn(m - d)
<1>3. /\ m > d => s = MP_GT
      /\ m < d => s = MP_LT
      /\ m = d => s = MP_EQ
    BY <1>1, <1>2 DEF Sgn, MP_GT, MP_LT, MP_EQ
<1> HIDE DEF m, s
<1>4. CASE Len(dp) > 1
    <2>1. m > d BY <1>1, <1>2, <1>4 DEF m
    <2>2. Len(dp) # 1
        <3> DEFINE l == Len(dp)
        <3>1. l \in Nat /\ l > 1 BY <1>1, <1>4
        <3> HIDE DEF l
        <3>2. l # 1 BY <3>1
        <3> QED BY <3>2 DEF l
    <2>3. s_mp_cmp_d(dp, d) = s BY <1>3, <2>1, <2>2, Zenon DEF s_mp_cmp_d
    <2> QED BY <2>3 DEF m, s
<1>5. CASE Len(dp) = 1
    <2>1. m = dp[1] BY <1>1, <1>5 DEF m
    <2>2. m \in Int BY <1>1 DEF m
    <2>3. s_mp_cmp_d(dp, d) = s
        <3>1. CASE m > d
            <4>1. ~(m < d) /\ m # d BY <1>2, <2>2, <3>1
            <4> QED BY <1>3, <2>1, <3>1, <4>1, Zenon DEF s_mp_cmp_d
        <3>2. CASE m < d
            <4>1. m # d BY <1>2, <2>2, <3>2
            <4> QED BY <1>3, <1>5, <2>1, <3>2, <4>1, Zenon DEF s_mp_cmp_d
        <3>3. CASE m = d
            <4>1. ~(m < d) BY <1>2, <2>2, <3>3
            <4> QED BY <1>3, <1>5, <2>1, <3>3, <4>1, Zenon DEF s_mp_cmp_d
        <3> QED BY <1>2, <2>2, <3>1, <3>2, <3>3
    <2> QED BY <2>3 DEF m, s
<1> QED BY <1>4, <1>5, NormalIs, Zenon

(* The difference of magnitudes, the larger one first. *)
LEMMA DifferenceIs ==
    ASSUME NEW a, NEW b, NEW sign, Normal(a), Normal(b), MagnitudeOf(a) >= MagnitudeOf(b)
    PROVE  /\ Difference(sign, SubDigits(a, b)) = [sign |-> sign, dp |-> Difference(sign, SubDigits(a, b)).dp]
           /\ Normal(Difference(sign, SubDigits(a, b)).dp)
           /\ MagnitudeOf(Difference(sign, SubDigits(a, b)).dp) = MagnitudeOf(a) - MagnitudeOf(b)
<1> DEFINE r == SubDigits(a, b)
<1>1. a \in Seq(Digit) /\ b \in Seq(Digit) /\ MagnitudeOf(a) \in Nat /\ MagnitudeOf(b) \in Nat
      /\ Len(a) \in Nat /\ Len(b) \in Nat /\ Len(a) > 0
    BY NormalIs
<1>2. Len(b) <= Len(a)
    <2>1. ASSUME Len(b) > Len(a) PROVE FALSE
        <3>1. MagnitudeOf(b) > MagnitudeOf(a) BY <2>1, LongerIsLarger
        <3> QED BY <1>1, <3>1
    <2> QED BY <1>1, <2>1
<1>3. /\ r.dp \in Seq(Digit) /\ Len(r.dp) = Len(a)
      /\ r.borrow = 0 /\ MagnitudeOf(r.dp) = MagnitudeOf(a) - MagnitudeOf(b)
    <2>1. ~(MagnitudeOf(a) < MagnitudeOf(b)) BY <1>1
    <2> QED BY <1>1, <1>2, <2>1, SubDigitsIs
<1> HIDE DEF r
<1>4. Difference(sign, r) = [sign |-> sign, dp |-> s_mp_clamp(r.dp)] BY <1>3 DEF Difference
<1>5. r.dp # <<>> BY <1>1, <1>3
<1>6. Normal(s_mp_clamp(r.dp)) /\ MagnitudeOf(s_mp_clamp(r.dp)) = MagnitudeOf(r.dp)
    BY <1>3, <1>5, ClampIs
<1> QED BY <1>3, <1>4, <1>6 DEF r

(* The numbers that calls leave: no leading zeros, and zero is positive.   *)
Signed == [sign : {ZPOS, NEG}, dp : {dp \in Seq(Digit) : Normal(dp)}]
Numbers == {n \in Signed : n.dp = <<0>> => n.sign = ZPOS}

LEMMA SignedIs ==
    ASSUME NEW n \in Signed
    PROVE  /\ n = [sign |-> n.sign, dp |-> n.dp] /\ n.sign \in {ZPOS, NEG}
           /\ Normal(n.dp) /\ MagnitudeOf(n.dp) \in Nat /\ ValueOf(n) \in Int
           /\ n.sign = ZPOS => ValueOf(n) = MagnitudeOf(n.dp)
           /\ n.sign = NEG => ValueOf(n) = -MagnitudeOf(n.dp)
           /\ Abs(ValueOf(n)) = MagnitudeOf(n.dp)
<1>1. n = [sign |-> n.sign, dp |-> n.dp] /\ n.sign \in {ZPOS, NEG} /\ Normal(n.dp) BY DEF Signed
<1>2. MagnitudeOf(n.dp) \in Nat BY <1>1, NormalIs
<1>3. /\ n.sign = ZPOS => ValueOf(n) = MagnitudeOf(n.dp)
      /\ n.sign = NEG => ValueOf(n) = -MagnitudeOf(n.dp)
    BY DEF ValueOf, ZPOS, NEG
<1>4. ValueOf(n) \in Int /\ Abs(ValueOf(n)) = MagnitudeOf(n.dp) BY <1>1, <1>2, <1>3 DEF Abs
<1> QED BY <1>1, <1>2, <1>3, <1>4

LEMMA SignedOf ==
    ASSUME NEW dp, Normal(dp), NEW sign \in {ZPOS, NEG}
    PROVE  /\ [sign |-> sign, dp |-> dp] \in Signed
           /\ ValueOf([sign |-> sign, dp |-> dp])
                = IF sign = NEG THEN -MagnitudeOf(dp) ELSE MagnitudeOf(dp)
<1>1. dp \in Seq(Digit) BY DEF Normal
<1> QED BY <1>1 DEF Signed, ValueOf

LEMMA NumbersIs ==
    ASSUME NEW n \in Numbers
    PROVE  /\ n \in Signed
           /\ n.sign = NEG => ValueOf(n) < 0
           /\ n.sign = ZPOS => ValueOf(n) >= 0
<1>1. n \in Signed /\ (n.dp = <<0>> => n.sign = ZPOS) BY DEF Numbers
<1>2. ZPOS # NEG BY DEF ZPOS, NEG
<1>3. Normal(n.dp) BY <1>1, SignedIs
<1>4. MagnitudeOf(n.dp) = 0 <=> n.dp = <<0>> BY <1>3, NormalIs
<1>5. /\ MagnitudeOf(n.dp) \in Nat
      /\ n.sign = ZPOS => ValueOf(n) = MagnitudeOf(n.dp)
      /\ n.sign = NEG => ValueOf(n) = -MagnitudeOf(n.dp)
    BY <1>1, SignedIs
<1> QED BY <1>1, <1>2, <1>4, <1>5

(* No call leaves a negative zero. *)
LEMMA PositiveZeroIs ==
    ASSUME NEW n \in Signed
    PROVE  /\ PositiveZero(n) \in Numbers /\ ValueOf(PositiveZero(n)) = ValueOf(n)
           /\ PositiveZero(n).dp = n.dp
<1>1. n = [sign |-> n.sign, dp |-> n.dp] /\ n.sign \in {ZPOS, NEG} /\ Normal(n.dp)
    BY SignedIs
<1>2. ~Failed(n) BY <1>1 DEF Failed, Normal
<1>3. 0 \in Digit BY RadixIs
<1>4. /\ s_mp_cmp_d(n.dp, 0) = Sgn(MagnitudeOf(n.dp) - 0) /\ MagnitudeOf(n.dp) \in Nat
      /\ MagnitudeOf(n.dp) = 0 <=> n.dp = <<0>>
    BY <1>1, <1>3, CmpDigitIs, NormalIs
<1>5. s_mp_cmp_d(n.dp, 0) = MP_EQ <=> n.dp = <<0>>
    BY <1>4 DEF Sgn, MP_EQ
<1>6. CASE n.dp = <<0>>
    <2> DEFINE z == [sign |-> ZPOS, dp |-> n.dp]
    <2>1. PositiveZero(n) = z BY <1>1, <1>2, <1>5, <1>6 DEF PositiveZero
    <2>2. z \in Signed /\ ValueOf(z) = IF ZPOS = NEG THEN -MagnitudeOf(n.dp) ELSE MagnitudeOf(n.dp)
        BY <1>1, SignedOf
    <2>3. z \in Numbers BY <2>2 DEF Numbers
    <2>4. MagnitudeOf(n.dp) = 0 BY <1>4, <1>6
    <2>5. ValueOf(z) = 0 BY <2>2, <2>4
    <2>6. ValueOf(n) = 0
        <3> DEFINE m == MagnitudeOf(n.dp)
        <3>1. m = 0 BY <2>4
        <3>3. m \in Int BY <1>4
        <3> HIDE DEF m
        <3>4. -m = 0 - m BY <3>3
        <3>2. -m = 0 BY <3>1, <3>4
        <3> QED BY <3>1, <3>2 DEF ValueOf, m
    <2> QED BY <2>1, <2>3, <2>5, <2>6
<1>7. CASE n.dp # <<0>>
    <2>1. PositiveZero(n) = n BY <1>5, <1>7 DEF PositiveZero
    <2> QED BY <1>7, <2>1 DEF Numbers
<1> QED BY <1>6, <1>7

LEMMA NegIs ==
    ASSUME NEW n \in Signed
    PROVE  mp_neg(n) \in Numbers /\ ValueOf(mp_neg(n)) = -ValueOf(n) /\ mp_neg(n).dp = n.dp
<1> DEFINE t == [n EXCEPT !.sign = 1 - n.sign]
<1>1. /\ n = [sign |-> n.sign, dp |-> n.dp] /\ n.sign \in {ZPOS, NEG} /\ Normal(n.dp)
      /\ MagnitudeOf(n.dp) \in Nat
    BY SignedIs
<1>2. t = [sign |-> 1 - n.sign, dp |-> n.dp] BY <1>1
<1>3. 1 - n.sign \in {ZPOS, NEG} /\ (1 - n.sign = NEG <=> n.sign # NEG) BY <1>1 DEF ZPOS, NEG
<1> HIDE DEF t
<1>4. t \in Signed /\ ValueOf(t) = IF 1 - n.sign = NEG THEN -MagnitudeOf(n.dp) ELSE MagnitudeOf(n.dp)
    BY <1>1, <1>2, <1>3, SignedOf
<1>5. ValueOf(t) = -ValueOf(n) BY <1>1, <1>3, <1>4 DEF ValueOf
<1>6. mp_neg(n) = PositiveZero(t) BY DEF mp_neg, t
<1>7. t.dp = n.dp BY <1>2
<1> QED BY <1>4, <1>5, <1>6, <1>7, PositiveZeroIs

-----------------------------------------------------------------------------
(* The order and the sums of signed numbers *)

LEMMA CompareIs ==
    ASSUME NEW a \in Numbers, NEW b \in Numbers
    PROVE  /\ mp_cmp(a, b) = Sgn(ValueOf(a) - ValueOf(b))
           /\ mp_cmp_mag(a, b) = Sgn(Abs(ValueOf(a)) - Abs(ValueOf(b)))
           /\ mp_cmp_z(a) = Sgn(ValueOf(a))
           /\ \A d \in Digit : mp_cmp_d(a, d) = Sgn(ValueOf(a) - d)
<1> DEFINE A == MagnitudeOf(a.dp)
           B == MagnitudeOf(b.dp)
           V == ValueOf(a)
           W == ValueOf(b)
           c == s_mp_cmp(a.dp, b.dp)
<1>0. ZPOS # NEG /\ MP_LT = -1 /\ MP_GT = 1 /\ MP_EQ = 0 BY DEF ZPOS, NEG, MP_LT, MP_GT, MP_EQ
<1>1. /\ a.sign \in {ZPOS, NEG} /\ Normal(a.dp) /\ A \in Nat /\ Abs(V) = A /\ V \in Int
      /\ (a.sign = ZPOS => V = A) /\ (a.sign = NEG => V = -A)
      /\ (a.sign = NEG => V < 0) /\ (a.sign = ZPOS => V >= 0)
    BY NumbersIs, SignedIs
<1>2. /\ b.sign \in {ZPOS, NEG} /\ Normal(b.dp) /\ B \in Nat /\ Abs(W) = B /\ W \in Int
      /\ (b.sign = ZPOS => W = B) /\ (b.sign = NEG => W = -B)
      /\ (b.sign = NEG => W < 0) /\ (b.sign = ZPOS => W >= 0)
    BY NumbersIs, SignedIs
<1>3. c = Sgn(A - B) BY <1>1, <1>2, CmpIs
<1> HIDE DEF A, B, V, W, c
<1>4. mp_cmp_mag(a, b) = Sgn(Abs(V) - Abs(W)) BY <1>1, <1>2, <1>3 DEF mp_cmp_mag, c
<1>5. mp_cmp(a, b) = Sgn(V - W)
    <2>1. CASE a.sign = ZPOS /\ b.sign = ZPOS
        <3>1. mp_cmp(a, b) = c BY <2>1 DEF mp_cmp, c
        <3> QED BY <1>1, <1>2, <1>3, <2>1, <3>1
    <2>2. CASE a.sign = NEG /\ b.sign = NEG
        <3>1. mp_cmp(a, b) = -c BY <1>0, <2>2 DEF mp_cmp, c
        <3>2. V - W = B - A BY <1>1, <1>2, <2>2
        <3>3. -Sgn(A - B) = Sgn(B - A) BY <1>1, <1>2 DEF Sgn
        <3> QED BY <1>3, <3>1, <3>2, <3>3
    <2>3. CASE a.sign = ZPOS /\ b.sign = NEG
        <3>1. mp_cmp(a, b) = MP_GT BY <1>0, <2>3 DEF mp_cmp
        <3>2. V - W > 0 BY <1>1, <1>2, <2>3
        <3> QED BY <1>0, <1>1, <1>2, <3>1, <3>2 DEF Sgn
    <2>4. CASE a.sign = NEG /\ b.sign = ZPOS
        <3>1. mp_cmp(a, b) = MP_LT BY <1>0, <2>4 DEF mp_cmp
        <3>2. V - W < 0 BY <1>1, <1>2, <2>4
        <3> QED BY <1>0, <1>1, <1>2, <3>1, <3>2 DEF Sgn
    <2> QED BY <1>1, <1>2, <2>1, <2>2, <2>3, <2>4
<1>6. mp_cmp_z(a) = Sgn(V)
    <2>1. CASE a.sign = NEG BY <1>0, <1>1, <2>1 DEF mp_cmp_z, Sgn
    <2>2. CASE a.sign = ZPOS
        <3>1. A = 0 <=> a.dp = <<0>> BY <1>1, NormalIs DEF A
        <3>2. CASE A = 0
            <4>1. mp_cmp_z(a) = MP_EQ BY <1>0, <2>2, <3>1, <3>2, Zenon DEF mp_cmp_z
            <4> QED BY <1>0, <1>1, <2>2, <3>2, <4>1 DEF Sgn
        <3>3. CASE A # 0
            <4>1. mp_cmp_z(a) = MP_GT BY <1>0, <2>2, <3>1, <3>3, Zenon DEF mp_cmp_z
            <4> QED BY <1>0, <1>1, <2>2, <3>3, <4>1 DEF Sgn
        <3> QED BY <3>2, <3>3
    <2> QED BY <1>1, <2>1, <2>2
<1>7. ASSUME NEW d \in Digit PROVE mp_cmp_d(a, d) = Sgn(V - d)
    <2>1. d \in Nat BY DigitInt
    <2>2. CASE a.sign = NEG BY <1>0, <1>1, <2>1, <2>2 DEF mp_cmp_d, Sgn
    <2>3. CASE a.sign = ZPOS
        <3>1. s_mp_cmp_d(a.dp, d) = Sgn(A - d) BY <1>1, CmpDigitIs DEF A
        <3>2. mp_cmp_d(a, d) = s_mp_cmp_d(a.dp, d) BY <1>0, <2>3 DEF mp_cmp_d
        <3> QED BY <1>1, <2>3, <3>1, <3>2
    <2> QED BY <1>1, <2>2, <2>3
<1> QED BY <1>4, <1>5, <1>6, <1>7 DEF V, W

LEMMA AddSame ==
    ASSUME NEW a \in Signed, NEW b \in Signed
    PROVE  /\ s_mp_add_3arg(a, b) \in Signed
           /\ ValueOf(s_mp_add_3arg(a, b))
                = IF a.sign = NEG THEN -(MagnitudeOf(a.dp) + MagnitudeOf(b.dp))
                  ELSE MagnitudeOf(a.dp) + MagnitudeOf(b.dp)
<1>1. Normal(a.dp) /\ Normal(b.dp) /\ a.sign \in {ZPOS, NEG} BY SignedIs
<1>2. Normal(AddDigits(a.dp, b.dp))
      /\ MagnitudeOf(AddDigits(a.dp, b.dp)) = MagnitudeOf(a.dp) + MagnitudeOf(b.dp)
    BY <1>1, AddDigitsIs
<1> QED BY <1>1, <1>2, SignedOf DEF s_mp_add_3arg

LEMMA SubSame ==
    ASSUME NEW a \in Signed, NEW b \in Signed, MagnitudeOf(a.dp) >= MagnitudeOf(b.dp)
    PROVE  /\ s_mp_sub_3arg(a, b) \in Signed /\ s_mp_sub_3arg(a, b).sign = a.sign
           /\ MagnitudeOf(s_mp_sub_3arg(a, b).dp) = MagnitudeOf(a.dp) - MagnitudeOf(b.dp)
           /\ ValueOf(s_mp_sub_3arg(a, b))
                = IF a.sign = NEG THEN -(MagnitudeOf(a.dp) - MagnitudeOf(b.dp))
                  ELSE MagnitudeOf(a.dp) - MagnitudeOf(b.dp)
<1> DEFINE r == Difference(a.sign, SubDigits(a.dp, b.dp))
<1>1. Normal(a.dp) /\ Normal(b.dp) /\ a.sign \in {ZPOS, NEG} BY SignedIs
<1>2. /\ r = [sign |-> a.sign, dp |-> r.dp] /\ Normal(r.dp)
      /\ MagnitudeOf(r.dp) = MagnitudeOf(a.dp) - MagnitudeOf(b.dp)
    BY <1>1, DifferenceIs
<1>3. s_mp_sub_3arg(a, b) = r BY DEF s_mp_sub_3arg
<1> HIDE DEF r
<1> DEFINE t == [sign |-> a.sign, dp |-> r.dp]
<1>4. t \in Signed /\ ValueOf(t) = IF a.sign = NEG THEN -MagnitudeOf(r.dp) ELSE MagnitudeOf(r.dp)
    BY <1>1, <1>2, SignedOf
<1>5. t.sign = a.sign /\ t.dp = r.dp OBVIOUS
<1>6. s_mp_sub_3arg(a, b) = t BY <1>2, <1>3
<1> HIDE DEF t
<1> QED BY <1>2, <1>4, <1>5, <1>6

LEMMA AddIs ==
    ASSUME NEW a \in Signed, NEW b \in Signed
    PROVE  mp_add(a, b) \in Numbers /\ ValueOf(mp_add(a, b)) = ValueOf(a) + ValueOf(b)
<1> DEFINE A == MagnitudeOf(a.dp)
           B == MagnitudeOf(b.dp)
           t == IF a.sign = b.sign THEN s_mp_add_3arg(a, b)
                ELSE IF s_mp_cmp(a.dp, b.dp) >= 0 THEN s_mp_sub_3arg(a, b)
                ELSE s_mp_sub_3arg(b, a)
<1>0. ZPOS # NEG BY DEF ZPOS, NEG
<1>1. /\ a.sign \in {ZPOS, NEG} /\ Normal(a.dp) /\ A \in Nat
      /\ (a.sign = ZPOS => ValueOf(a) = A) /\ (a.sign = NEG => ValueOf(a) = -A)
    BY SignedIs
<1>2. /\ b.sign \in {ZPOS, NEG} /\ Normal(b.dp) /\ B \in Nat
      /\ (b.sign = ZPOS => ValueOf(b) = B) /\ (b.sign = NEG => ValueOf(b) = -B)
    BY SignedIs
<1>3. s_mp_cmp(a.dp, b.dp) >= 0 <=> A >= B
    <2>1. s_mp_cmp(a.dp, b.dp) = Sgn(A - B) BY <1>1, <1>2, CmpIs
    <2> HIDE DEF A, B
    <2> QED BY <1>1, <1>2, <2>1 DEF Sgn
<1>4. mp_add(a, b) = PositiveZero(t) BY DEF mp_add
<1>5. CASE a.sign = b.sign
    <2> DEFINE s == s_mp_add_3arg(a, b)
    <2>1. t = s BY <1>5
    <2>2. s \in Signed /\ ValueOf(s) = IF a.sign = NEG THEN -(A + B) ELSE A + B BY AddSame
    <2> HIDE DEF t, s, A, B
    <2>3. ValueOf(t) = ValueOf(a) + ValueOf(b) BY <1>1, <1>2, <1>5, <2>1, <2>2
    <2> QED BY <1>4, <2>1, <2>2, <2>3, PositiveZeroIs
<1>6. CASE a.sign # b.sign /\ A >= B
    <2> DEFINE s == s_mp_sub_3arg(a, b)
    <2>1. t = s BY <1>3, <1>6
    <2>2. s \in Signed /\ ValueOf(s) = IF a.sign = NEG THEN -(A - B) ELSE A - B
        BY <1>6, SubSame
    <2> HIDE DEF t, s, A, B
    <2>3. ValueOf(t) = ValueOf(a) + ValueOf(b) BY <1>0, <1>1, <1>2, <1>6, <2>1, <2>2
    <2> QED BY <1>4, <2>1, <2>2, <2>3, PositiveZeroIs
<1>7. CASE a.sign # b.sign /\ ~(A >= B)
    <2> DEFINE s == s_mp_sub_3arg(b, a)
    <2>1. t = s BY <1>3, <1>7
    <2>2. B >= A BY <1>1, <1>2, <1>7
    <2>3. s \in Signed /\ ValueOf(s) = IF b.sign = NEG THEN -(B - A) ELSE B - A
        BY <2>2, SubSame
    <2> HIDE DEF t, s, A, B
    <2>4. ValueOf(t) = ValueOf(a) + ValueOf(b) BY <1>0, <1>1, <1>2, <1>7, <2>1, <2>3
    <2> QED BY <1>4, <2>1, <2>3, <2>4, PositiveZeroIs
<1> QED BY <1>5, <1>6, <1>7

LEMMA SubIs ==
    ASSUME NEW a \in Signed, NEW b \in Signed
    PROVE  mp_sub(a, b) \in Numbers /\ ValueOf(mp_sub(a, b)) = ValueOf(a) - ValueOf(b)
<1> DEFINE A == MagnitudeOf(a.dp)
           B == MagnitudeOf(b.dp)
           c == s_mp_cmp(a.dp, b.dp)
           t == CASE a.sign # b.sign -> s_mp_add_3arg(a, b)
                  [] a.sign = b.sign /\ c = MP_EQ -> mp_zero
                  [] a.sign = b.sign /\ c = MP_GT -> s_mp_sub_3arg(a, b)
                  [] OTHER -> [s_mp_sub_3arg(b, a) EXCEPT !.sign = 1 - a.sign]
<1>0. ZPOS = 0 /\ NEG = 1 /\ MP_EQ = 0 /\ MP_GT = 1 BY DEF ZPOS, NEG, MP_EQ, MP_GT
<1>1. /\ a.sign \in {ZPOS, NEG} /\ Normal(a.dp) /\ A \in Nat
      /\ (a.sign = ZPOS => ValueOf(a) = A) /\ (a.sign = NEG => ValueOf(a) = -A)
    BY SignedIs
<1>2. /\ b.sign \in {ZPOS, NEG} /\ Normal(b.dp) /\ B \in Nat
      /\ (b.sign = ZPOS => ValueOf(b) = B) /\ (b.sign = NEG => ValueOf(b) = -B)
    BY SignedIs
<1>3. (c = MP_EQ <=> A = B) /\ (c = MP_GT <=> A > B)
    <2>1. c = Sgn(A - B) BY <1>1, <1>2, CmpIs
    <2> HIDE DEF A, B, c
    <2> QED BY <1>0, <1>1, <1>2, <2>1 DEF Sgn
<1>4. mp_sub(a, b) = PositiveZero(t) BY DEF mp_sub
<1> HIDE DEF c
<1>5. CASE a.sign # b.sign
    <2> DEFINE s == s_mp_add_3arg(a, b)
    <2>1. t = s BY <1>5
    <2>2. s \in Signed /\ ValueOf(s) = IF a.sign = NEG THEN -(A + B) ELSE A + B BY AddSame
    <2> HIDE DEF t, s, A, B
    <2>3. ValueOf(t) = ValueOf(a) - ValueOf(b) BY <1>0, <1>1, <1>2, <1>5, <2>1, <2>2
    <2> QED BY <1>4, <2>1, <2>2, <2>3, PositiveZeroIs
<1>6. CASE a.sign = b.sign /\ A = B
    <2> DEFINE z == [sign |-> ZPOS, dp |-> <<0>>]
    <2>1. t = z
        <3>1. c = MP_EQ /\ c # MP_GT BY <1>0, <1>3, <1>6
        <3> QED BY <1>6, <3>1 DEF mp_zero
    <2>2. 0 \in Digit BY RadixIs
    <2>3. Normal(<<0>>) /\ MagnitudeOf(<<0>>) = 0 BY <2>2, OneDigit
    <2>4. z \in Signed /\ ValueOf(z) = IF ZPOS = NEG THEN -MagnitudeOf(<<0>>) ELSE MagnitudeOf(<<0>>)
        BY <2>3, SignedOf
    <2>5. ValueOf(z) = 0 BY <1>0, <2>3, <2>4
    <2> HIDE DEF t, z, A, B
    <2>6. ValueOf(t) = ValueOf(a) - ValueOf(b) BY <1>1, <1>2, <1>6, <2>1, <2>5
    <2> QED BY <1>4, <2>1, <2>4, <2>6, PositiveZeroIs
<1>7. CASE a.sign = b.sign /\ A > B
    <2> DEFINE s == s_mp_sub_3arg(a, b)
    <2>1. t = s
        <3>1. c # MP_EQ /\ c = MP_GT BY <1>0, <1>3, <1>7
        <3> QED BY <1>7, <3>1
    <2>2. A >= B BY <1>1, <1>2, <1>7
    <2>3. s \in Signed /\ ValueOf(s) = IF a.sign = NEG THEN -(A - B) ELSE A - B
        BY <2>2, SubSame
    <2> HIDE DEF t, s, A, B
    <2>4. ValueOf(t) = ValueOf(a) - ValueOf(b) BY <1>0, <1>1, <1>2, <1>7, <2>1, <2>3
    <2> QED BY <1>4, <2>1, <2>3, <2>4, PositiveZeroIs
<1>8. CASE a.sign = b.sign /\ A < B
    <2> DEFINE s == s_mp_sub_3arg(b, a)
               u == [sign |-> 1 - a.sign, dp |-> s.dp]
    <2>1. t = [s EXCEPT !.sign = 1 - a.sign]
        <3>1. A # B /\ ~(A > B) BY <1>1, <1>2, <1>8
        <3>2. c # MP_EQ /\ c # MP_GT BY <1>3, <3>1
        <3> QED BY <1>8, <3>2
    <2>2. B >= A BY <1>1, <1>2, <1>8
    <2>3. s \in Signed /\ MagnitudeOf(s.dp) = B - A BY <2>2, SubSame
    <2>4. s = [sign |-> s.sign, dp |-> s.dp] /\ Normal(s.dp) BY <2>3, SignedIs
    <2> HIDE DEF s, t
    <2>5. t = u BY <2>1, <2>4
    <2>6. 1 - a.sign \in {ZPOS, NEG} /\ (1 - a.sign = NEG <=> a.sign = ZPOS) BY <1>0, <1>1
    <2>7. u \in Signed /\ ValueOf(u) = IF 1 - a.sign = NEG THEN -MagnitudeOf(s.dp) ELSE MagnitudeOf(s.dp)
        BY <2>4, <2>6, SignedOf
    <2> HIDE DEF u, A, B
    <2>8. ValueOf(t) = ValueOf(a) - ValueOf(b)
        BY <1>0, <1>1, <1>2, <1>8, <2>3, <2>5, <2>6, <2>7
    <2> QED BY <1>4, <2>5, <2>7, <2>8, PositiveZeroIs
<1>9. A = B \/ A > B \/ A < B
    <2> HIDE DEF A, B
    <2> QED BY <1>1, <1>2
<1> QED BY <1>5, <1>6, <1>7, <1>8, <1>9

(* Sums and differences with a digit. *)
LEMMA AddMagnitude ==
    ASSUME NEW a \in Signed, NEW d \in Digit
    PROVE  /\ [a EXCEPT !.dp = s_mp_add_d(a.dp, d)] \in Signed
           /\ ValueOf([a EXCEPT !.dp = s_mp_add_d(a.dp, d)])
                = IF a.sign = NEG THEN -(MagnitudeOf(a.dp) + d) ELSE MagnitudeOf(a.dp) + d
<1> DEFINE s == s_mp_add_d(a.dp, d)
<1>1. a = [sign |-> a.sign, dp |-> a.dp] /\ Normal(a.dp) /\ a.sign \in {ZPOS, NEG} BY SignedIs
<1>2. Normal(<<d>>) /\ MagnitudeOf(<<d>>) = d BY OneDigit
<1>3. Normal(s) /\ MagnitudeOf(s) = MagnitudeOf(a.dp) + d
    BY <1>1, <1>2, AddDigitsIs DEF s_mp_add_d
<1> HIDE DEF s
<1> DEFINE t == [sign |-> a.sign, dp |-> s]
<1>4. [a EXCEPT !.dp = s] = t BY <1>1
<1>5. t \in Signed /\ ValueOf(t) = IF a.sign = NEG THEN -MagnitudeOf(s) ELSE MagnitudeOf(s)
    BY <1>1, <1>3, SignedOf
<1> HIDE DEF t
<1>6. [a EXCEPT !.dp = s] \in Signed
      /\ ValueOf([a EXCEPT !.dp = s]) = IF a.sign = NEG THEN -MagnitudeOf(s) ELSE MagnitudeOf(s)
    BY <1>4, <1>5
<1> QED BY <1>3, <1>6, Zenon DEF s

LEMMA SubMagnitude ==
    ASSUME NEW a \in Signed, NEW d \in Digit, MagnitudeOf(a.dp) >= d
    PROVE  /\ [a EXCEPT !.dp = s_mp_sub_d(a.dp, d)] \in Signed
           /\ ValueOf([a EXCEPT !.dp = s_mp_sub_d(a.dp, d)])
                = IF a.sign = NEG THEN -(MagnitudeOf(a.dp) - d) ELSE MagnitudeOf(a.dp) - d
<1> DEFINE s == s_mp_sub_d(a.dp, d)
<1>1. a = [sign |-> a.sign, dp |-> a.dp] /\ Normal(a.dp) /\ a.sign \in {ZPOS, NEG} BY SignedIs
<1>2. Normal(<<d>>) /\ MagnitudeOf(<<d>>) = d BY OneDigit
<1>3. Normal(s) /\ MagnitudeOf(s) = MagnitudeOf(a.dp) - d
    BY <1>1, <1>2, DifferenceIs DEF s_mp_sub_d
<1> HIDE DEF s
<1> DEFINE t == [sign |-> a.sign, dp |-> s]
<1>4. [a EXCEPT !.dp = s] = t BY <1>1
<1>5. t \in Signed /\ ValueOf(t) = IF a.sign = NEG THEN -MagnitudeOf(s) ELSE MagnitudeOf(s)
    BY <1>1, <1>3, SignedOf
<1> HIDE DEF t
<1>6. [a EXCEPT !.dp = s] \in Signed
      /\ ValueOf([a EXCEPT !.dp = s]) = IF a.sign = NEG THEN -MagnitudeOf(s) ELSE MagnitudeOf(s)
    BY <1>4, <1>5
<1> QED BY <1>3, <1>6, Zenon DEF s

(* A digit that is larger than the number: the number has one digit. *)
LEMMA FromDigit ==
    ASSUME NEW a \in Signed, NEW d \in Digit, NEW sign \in {ZPOS, NEG}, MagnitudeOf(a.dp) < d
    PROVE  /\ [a.dp EXCEPT ![1] = Wrap(d - a.dp[1])] = <<d - MagnitudeOf(a.dp)>>
           /\ [sign |-> sign, dp |-> <<d - MagnitudeOf(a.dp)>>] \in Signed
           /\ ValueOf([sign |-> sign, dp |-> <<d - MagnitudeOf(a.dp)>>])
                = IF sign = NEG THEN -(d - MagnitudeOf(a.dp)) ELSE d - MagnitudeOf(a.dp)
<1> DEFINE m == MagnitudeOf(a.dp)
           e == d - m
<1>1. Normal(a.dp) /\ m \in Nat BY SignedIs
<1>2. d \in Nat /\ d < MP_RADIX /\ MP_RADIX \in Nat BY DigitInt, RadixIs
<1>3. Len(a.dp) = 1
    <2>1. ~(m >= MP_RADIX) BY <1>1, <1>2
    <2> QED BY <1>1, <2>1, NormalIs
<1>4. a.dp[1] = m /\ a.dp \in Seq(Digit) BY <1>1, <1>3, NormalIs
<1> HIDE DEF m
<1>5. e \in Int /\ e >= 0 /\ e < MP_RADIX BY <1>1, <1>2 DEF m
<1> HIDE DEF e
<1>6. Wrap(e) = e /\ e \in Digit
    <2>1. Wrap(e) = e /\ Wrap(e) \in Digit BY <1>5, WrapIs
    <2> QED BY <2>1
<1>7. [a.dp EXCEPT ![1] = e] = <<e>> BY <1>3, <1>4
<1>8. Normal(<<e>>) /\ MagnitudeOf(<<e>>) = e BY <1>6, OneDigit
<1>9. /\ [sign |-> sign, dp |-> <<e>>] \in Signed
      /\ ValueOf([sign |-> sign, dp |-> <<e>>]) = IF sign = NEG THEN -MagnitudeOf(<<e>>) ELSE MagnitudeOf(<<e>>)
    BY <1>8, SignedOf
<1>10. Wrap(d - a.dp[1]) = e BY <1>4, <1>6 DEF e
<1> QED BY <1>7, <1>8, <1>9, <1>10 DEF e, m

LEMMA AddDigitOps ==
    ASSUME NEW a \in Signed, NEW d \in Digit
    PROVE  /\ mp_add_d(a, d) \in Numbers /\ ValueOf(mp_add_d(a, d)) = ValueOf(a) + d
           /\ mp_sub_d(a, d) \in Numbers /\ ValueOf(mp_sub_d(a, d)) = ValueOf(a) - d
<1> DEFINE M == MagnitudeOf(a.dp)
           up == [a EXCEPT !.dp = s_mp_add_d(a.dp, d)]
           down == [a EXCEPT !.dp = s_mp_sub_d(a.dp, d)]
           turned(sign) == [sign |-> sign, dp |-> <<d - M>>]
           t == mp_neg(a)
<1>0. ZPOS = 0 /\ NEG = 1 BY DEF ZPOS, NEG
<1>1. /\ a = [sign |-> a.sign, dp |-> a.dp] /\ a.sign \in {ZPOS, NEG} /\ Normal(a.dp) /\ M \in Nat
      /\ (a.sign = ZPOS => ValueOf(a) = M) /\ (a.sign = NEG => ValueOf(a) = -M)
    BY SignedIs
<1>2. d \in Nat BY DigitInt
<1>3. up \in Signed /\ ValueOf(up) = IF a.sign = NEG THEN -(M + d) ELSE M + d
    BY AddMagnitude
<1>4. M >= d => down \in Signed /\ ValueOf(down) = IF a.sign = NEG THEN -(M - d) ELSE M - d
    BY SubMagnitude
<1>5. ASSUME M < d, NEW sign \in {ZPOS, NEG}
      PROVE  /\ turned(sign) \in Signed
             /\ ValueOf(turned(sign)) = IF sign = NEG THEN -(d - M) ELSE d - M
             /\ [a.dp EXCEPT ![1] = Wrap(d - a.dp[1])] = <<d - M>>
    BY <1>5, FromDigit
<1>6. s_mp_cmp_d(a.dp, d) >= 0 <=> M >= d
    <2>1. s_mp_cmp_d(a.dp, d) = Sgn(M - d) BY <1>1, CmpDigitIs
    <2> HIDE DEF M
    <2> QED BY <1>1, <1>2, <2>1 DEF Sgn
<1>7. t \in Signed /\ t.dp = a.dp /\ (a.sign = NEG => t.sign = ZPOS)
    <2>1. t \in Numbers /\ ValueOf(t) = -ValueOf(a) /\ t.dp = a.dp BY NegIs
    <2>2. t \in Signed /\ (t.sign = NEG => ValueOf(t) < 0) BY <2>1, NumbersIs
    <2>3. t.sign \in {ZPOS, NEG} BY <2>2, SignedIs
    <2> HIDE DEF t, M
    <2>4. ASSUME a.sign = NEG PROVE t.sign = ZPOS
        <3>1. ValueOf(t) >= 0
            <4>1. ValueOf(a) = -M BY <1>1, <2>4
            <4> QED BY <1>1, <2>1, <4>1
        <3>2. ~(ValueOf(t) < 0) BY <1>1, <2>1, <3>1
        <3> QED BY <2>2, <2>3, <3>2
    <2> QED BY <2>1, <2>2, <2>4
<1>8. mp_add_d(a, d) \in Numbers /\ ValueOf(mp_add_d(a, d)) = ValueOf(a) + d
    <2> DEFINE u == CASE a.sign = ZPOS -> up
                      [] a.sign = NEG /\ s_mp_cmp_d(a.dp, d) >= 0 -> down
                      [] OTHER -> [t EXCEPT !.dp[1] = Wrap(d - t.dp[1])]
    <2>1. mp_add_d(a, d) = PositiveZero(u) BY DEF mp_add_d
    <2>2. SUFFICES u \in Signed /\ ValueOf(u) = ValueOf(a) + d BY <2>1, PositiveZeroIs
    <2> HIDE DEF up, down, t
    <2>3. CASE a.sign = ZPOS
        <3>1. u = up BY <1>0, <2>3
        <3> HIDE DEF u, M
        <3> QED BY <1>0, <1>1, <1>2, <1>3, <2>3, <3>1
    <2>4. CASE a.sign = NEG /\ M >= d
        <3>1. u = down BY <1>0, <1>6, <2>4
        <3> HIDE DEF u, M
        <3> QED BY <1>0, <1>1, <1>2, <1>4, <2>4, <3>1
    <2>5. CASE a.sign = NEG /\ M < d
        <3>1. ~(M >= d) BY <1>1, <1>2, <2>5
        <3>2. u = [t EXCEPT !.dp[1] = Wrap(d - t.dp[1])] BY <1>0, <1>6, <2>5, <3>1
        <3>3. t = [sign |-> ZPOS, dp |-> a.dp] BY <1>7, <2>5, SignedIs
        <3>4. [a.dp EXCEPT ![1] = Wrap(d - a.dp[1])] = <<d - M>> BY <1>5, <2>5
        <3>5. u = [sign |-> ZPOS, dp |-> [a.dp EXCEPT ![1] = Wrap(d - a.dp[1])]] BY <3>2, <3>3
        <3>6. u = turned(ZPOS) BY <3>4, <3>5
        <3>7. turned(ZPOS) \in Signed /\ ValueOf(turned(ZPOS)) = IF ZPOS = NEG THEN -(d - M) ELSE d - M
            BY <1>5, <2>5
        <3> HIDE DEF u, M, turned
        <3> QED BY <1>0, <1>1, <1>2, <2>5, <3>6, <3>7
    <2>6. M >= d \/ M < d
        <3> HIDE DEF M
        <3> QED BY <1>1, <1>2
    <2> QED BY <1>1, <2>3, <2>4, <2>5, <2>6
<1>9. mp_sub_d(a, d) \in Numbers /\ ValueOf(mp_sub_d(a, d)) = ValueOf(a) - d
    <2> DEFINE u == CASE a.sign = NEG -> up
                      [] a.sign = ZPOS /\ s_mp_cmp_d(a.dp, d) >= 0 -> down
                      [] OTHER -> [sign |-> NEG, dp |-> [a.dp EXCEPT ![1] = Wrap(d - @)]]
    <2>1. mp_sub_d(a, d) = PositiveZero(u) BY DEF mp_sub_d
    <2>2. SUFFICES u \in Signed /\ ValueOf(u) = ValueOf(a) - d BY <2>1, PositiveZeroIs
    <2> HIDE DEF up, down
    <2>3. CASE a.sign = NEG
        <3>1. u = up BY <1>0, <2>3
        <3> HIDE DEF u, M
        <3> QED BY <1>0, <1>1, <1>2, <1>3, <2>3, <3>1
    <2>4. CASE a.sign = ZPOS /\ M >= d
        <3>1. u = down BY <1>0, <1>6, <2>4
        <3> HIDE DEF u, M
        <3> QED BY <1>0, <1>1, <1>2, <1>4, <2>4, <3>1
    <2>5. CASE a.sign = ZPOS /\ M < d
        <3>1. ~(M >= d) BY <1>1, <1>2, <2>5
        <3>2. u = [sign |-> NEG, dp |-> [a.dp EXCEPT ![1] = Wrap(d - a.dp[1])]]
            BY <1>0, <1>6, <2>5, <3>1
        <3>3. [a.dp EXCEPT ![1] = Wrap(d - a.dp[1])] = <<d - M>> BY <1>5, <2>5
        <3>4. u = turned(NEG) BY <3>2, <3>3
        <3>5. turned(NEG) \in Signed /\ ValueOf(turned(NEG)) = IF NEG = NEG THEN -(d - M) ELSE d - M
            BY <1>5, <2>5
        <3> HIDE DEF u, M, turned
        <3> QED BY <1>0, <1>1, <1>2, <2>5, <3>4, <3>5
    <2>6. M >= d \/ M < d
        <3> HIDE DEF M
        <3> QED BY <1>1, <1>2
    <2> QED BY <1>1, <2>3, <2>4, <2>5, <2>6
<1> QED BY <1>8, <1>9

-----------------------------------------------------------------------------
(* Digits above digits *)

LEMMA WeightSum ==
    ASSUME NEW m \in Nat, NEW n \in Nat
    PROVE  Weight(m + n) = Weight(m) * Weight(n)
<1> DEFINE P == {i \in Nat : Weight(m + i) = Weight(m) * Weight(i)}
<1>1. 0 \in P
    <2>1. m + 0 = m /\ Weight(0) = 1 /\ Weight(m) \in Nat BY WeightIs
    <2>2. Weight(m) * 1 = Weight(m) BY <2>1
    <2> QED BY <2>1, <2>2
<1>2. ASSUME NEW i \in Nat, i \in P PROVE i + 1 \in P
    <2> DEFINE u == Weight(m)
               v == Weight(i)
               R == MP_RADIX
    <2>1. m + i \in Nat /\ m + (i + 1) = (m + i) + 1 /\ i + 1 \in Nat OBVIOUS
    <2>2. Weight((m + i) + 1) = R * Weight(m + i) BY <2>1, WeightIs
    <2>3. Weight(i + 1) = R * v /\ v \in Nat /\ u \in Nat BY WeightIs
    <2>4. Weight(m + i) = u * v BY <1>2
    <2>5. R \in Nat BY RadixIs
    <2> HIDE DEF u, v, R
    <2>6. R * (u * v) = u * (R * v) BY <2>3, <2>5
    <2>7. Weight(m + (i + 1)) = u * Weight(i + 1) BY <2>1, <2>2, <2>3, <2>4, <2>6
    <2> QED BY <2>1, <2>7 DEF u
<1> HIDE DEF P
<1>3. n \in P BY <1>1, <1>2, NatInduct
<1> QED BY <1>3 DEF P

LEMMA ConcatIs ==
    ASSUME NEW a \in Seq(Digit), NEW b \in Seq(Digit)
    PROVE  /\ a \o b \in Seq(Digit) /\ Len(a \o b) = Len(a) + Len(b)
           /\ \A i \in Nat \ {0} : At(a \o b, i) = IF i <= Len(a) THEN At(a, i) ELSE At(b, i - Len(a))
           /\ MagnitudeOf(a \o b) = MagnitudeOf(a) + Weight(Len(a)) * MagnitudeOf(b)
<1> DEFINE c == a \o b
           m == Len(a)
           n == Len(b)
<1>0. m \in Nat /\ n \in Nat OBVIOUS
<1>1. c \in Seq(Digit) /\ Len(c) = m + n OBVIOUS
<1>2. ASSUME NEW i \in Nat \ {0} PROVE At(c, i) = IF i <= m THEN At(a, i) ELSE At(b, i - m)
    <2>1. CASE i <= m
        <3>1. i \in 1 .. m /\ i \in 1 .. Len(c) BY <1>0, <1>1, <2>1
        <3>2. c[i] = a[i] BY <3>1
        <3> QED BY <2>1, <3>1, <3>2 DEF At
    <2>2. CASE i > m /\ i <= m + n
        <3>1. i - m \in 1 .. n /\ i \in 1 .. Len(c) /\ ~(i <= m) BY <1>0, <1>1, <2>2
        <3>2. c[i] = b[i - m] BY <2>2
        <3> QED BY <3>1, <3>2 DEF At
    <2>3. CASE i > m + n
        <3>1. i - m \notin 1 .. n /\ i \notin 1 .. Len(c) /\ ~(i <= m) BY <1>0, <1>1, <2>3
        <3> QED BY <3>1 DEF At
    <2> QED BY <1>0, <2>1, <2>2, <2>3
<1> HIDE DEF c, m, n
<1>3. Part(c, m) = Part(a, m)
    <2>1. \A i \in 1 .. m : At(c, i) = At(a, i) BY <1>0, <1>2
    <2> QED BY <1>0, <1>1, <2>1, PartSame
<1> DEFINE P == {i \in Nat : Part(c, m + i) = Part(a, m) + Weight(m) * Part(b, i)}
<1>4. 0 \in P
    <2>1. m + 0 = m /\ Part(b, 0) = 0 /\ Weight(m) \in Nat /\ Part(a, m) \in Nat
        <3>1. Part(b, 0) = 0 BY PartIs
        <3>2. Weight(m) \in Nat BY <1>0, WeightIs
        <3>3. Part(a, m) \in Nat BY <1>0, PartIs
        <3> QED BY <1>0, <3>1, <3>2, <3>3
    <2>2. Weight(m) * 0 = 0 BY <2>1
    <2> QED BY <1>3, <2>1, <2>2
<1>5. ASSUME NEW i \in Nat, i \in P PROVE i + 1 \in P
    <2> DEFINE w == Weight(m)
               v == Weight(i)
               d == At(b, i + 1)
               p == Part(b, i)
               q == Part(a, m)
    <2>1. m + i \in Nat /\ m + (i + 1) = (m + i) + 1 /\ i + 1 \in Nat /\ i + 1 \in Int
          /\ (m + i) + 1 \in Nat \ {0} /\ ~((m + i) + 1 <= m) /\ ((m + i) + 1) - m = i + 1
        BY <1>0
    <2>2. At(c, (m + i) + 1) = d BY <1>2, <2>1
    <2>3. Part(c, (m + i) + 1) = Part(c, m + i) + d * Weight(m + i) BY <1>1, <2>1, <2>2, PartIs
    <2>4. Weight(m + i) = w * v BY <1>0, WeightSum
    <2>5. Part(b, i + 1) = p + d * v /\ p \in Nat /\ q \in Nat BY <1>0, PartIs
    <2>6. w \in Nat /\ v \in Nat BY <1>0, WeightIs
    <2>7. d \in Nat
        <3>1. d \in Digit BY <2>1, AtIs
        <3> QED BY <3>1, DigitInt
    <2>8. Part(c, m + i) = q + w * p BY <1>5
    <2> HIDE DEF w, v, d, p, q
    <2>9. w * (p + d * v) = w * p + d * (w * v) BY <2>5, <2>6, <2>7
    <2>10. w * p \in Nat /\ d * (w * v) \in Nat BY <2>5, <2>6, <2>7
    <2>11. Part(c, m + (i + 1)) = q + w * Part(b, i + 1)
        BY <2>1, <2>3, <2>4, <2>5, <2>8, <2>9, <2>10
    <2> QED BY <2>1, <2>11 DEF q, w
<1> HIDE DEF P
<1>6. n \in P BY <1>0, <1>4, <1>5, NatInduct
<1>7. Part(c, m + n) = MagnitudeOf(c)
    <2>1. m + n \in Nat /\ m + n >= Len(c) BY <1>0, <1>1
    <2> QED BY <1>1, <2>1, MagnitudeIs
<1>8. Part(a, m) = MagnitudeOf(a) /\ Part(b, n) = MagnitudeOf(b)
    <2>1. m >= Len(a) /\ n >= Len(b) BY <1>0 DEF m, n
    <2> QED BY <1>0, <2>1, MagnitudeIs
<1>9. MagnitudeOf(c) = MagnitudeOf(a) + Weight(m) * MagnitudeOf(b)
    BY <1>6, <1>7, <1>8 DEF P
<1> QED BY <1>1, <1>2, <1>9 DEF c, m, n

LEMMA ConcatTop ==
    ASSUME NEW a \in Seq(Digit), NEW b \in Seq(Digit), Len(b) > 0
    PROVE  Top(a \o b) = Top(b)
<1> DEFINE m == Len(a)
           n == Len(b)
<1>1. m + n \in 1 .. m + n /\ n \in 1 .. n OBVIOUS
<1>2. Len(a \o b) = m + n /\ (a \o b)[m + n] = b[n] OBVIOUS
<1> QED BY <1>2 DEF Top

LEMMA ZerosAre ==
    ASSUME NEW k \in Nat
    PROVE  /\ Zeros(k) \in Seq(Digit) /\ Len(Zeros(k)) = k /\ MagnitudeOf(Zeros(k)) = 0
           /\ \A i \in 1 .. k : Zeros(k)[i] = 0
<1> DEFINE z == Zeros(k)
<1>1. 0 \in Digit BY RadixIs
<1>2. z \in [1 .. k -> Digit] /\ \A i \in 1 .. k : z[i] = 0 BY <1>1 DEF Zeros
<1> HIDE DEF z
<1>3. z \in Seq(Digit) /\ Len(z) = k BY <1>2
<1>4. \A i \in 0 + 1 .. k : At(z, i) = 0 BY <1>2, <1>3 DEF At
<1>5. Part(z, k) = Part(z, 0) /\ Part(z, 0) = 0
    <2>1. 0 \in Nat /\ 0 <= k OBVIOUS
    <2> QED BY <1>3, <1>4, <2>1, PartEnd, PartIs
<1>6. Part(z, k) = MagnitudeOf(z)
    <2>1. k >= Len(z) BY <1>3
    <2> QED BY <1>3, <2>1, MagnitudeIs
<1> QED BY <1>2, <1>3, <1>5, <1>6 DEF z

(* A sum at an offset of k digits. *)
LEMMA AddOffsetIs ==
    ASSUME NEW a \in Signed, NEW b \in Signed, NEW k \in Nat
    PROVE  MagnitudeOf(s_mp_add_offset(a, b, k).dp)
             = MagnitudeOf(a.dp) + Weight(k) * MagnitudeOf(b.dp)
<1> DEFINE z == Zeros(k) \o b.dp
           s == AddDigits(a.dp, z)
           n == IF Len(a.dp) > Len(z) THEN Len(a.dp) ELSE Len(z)
<1>1. /\ a = [sign |-> a.sign, dp |-> a.dp] /\ Normal(a.dp) /\ Normal(b.dp) BY SignedIs
<1>2. a.dp \in Seq(Digit) /\ b.dp \in Seq(Digit) /\ MagnitudeOf(b.dp) \in Nat /\ a.dp # <<>>
    BY <1>1, NormalIs DEF Normal
<1>3. z \in Seq(Digit) /\ MagnitudeOf(z) = Weight(k) * MagnitudeOf(b.dp)
    <2>1. Zeros(k) \in Seq(Digit) /\ Len(Zeros(k)) = k /\ MagnitudeOf(Zeros(k)) = 0 BY ZerosAre
    <2>2. z \in Seq(Digit) /\ MagnitudeOf(z) = 0 + Weight(k) * MagnitudeOf(b.dp)
        BY <1>2, <2>1, ConcatIs
    <2>3. Weight(k) * MagnitudeOf(b.dp) \in Nat
        <3>1. Weight(k) \in Nat BY WeightIs
        <3> QED BY <1>2, <3>1
    <2> QED BY <2>2, <2>3
<1> HIDE DEF z
<1>4. n \in Nat /\ n > 0 BY <1>2, <1>3
<1>5. s \in Seq(Digit) /\ MagnitudeOf(s) = MagnitudeOf(a.dp) + MagnitudeOf(z) /\ s # <<>>
    <2>1. /\ s \in Seq(Digit) /\ MagnitudeOf(s) = MagnitudeOf(a.dp) + MagnitudeOf(z)
          /\ \/ Len(s) = n
             \/ Len(s) = n + 1 /\ Top(s) # 0
        BY <1>2, <1>3, <1>4, AddDigitsValue
    <2> HIDE DEF s, n
    <2>2. Len(s) > 0 BY <1>4, <2>1
    <2>3. s # <<>> BY <2>1, <2>2
    <2> QED BY <2>1, <2>3
<1> HIDE DEF s
<1>6. MagnitudeOf(s_mp_clamp(s)) = MagnitudeOf(s) BY <1>5, ClampIs
<1> DEFINE c == s_mp_clamp(s)
<1>7. s_mp_add_offset(a, b, k) = [a EXCEPT !.dp = c] BY DEF s_mp_add_offset, s, z
<1> HIDE DEF c
<1>8. s_mp_add_offset(a, b, k).dp = c BY <1>1, <1>7
<1> QED BY <1>3, <1>5, <1>6, <1>8 DEF c

-----------------------------------------------------------------------------
(* The two numbers of MpiLong *)

LongInv == \A n \in {x, y} : n \in Numbers /\ n.sign = ZPOS

LEMMA ZeroIs == mp_zero \in Numbers /\ mp_zero.sign = ZPOS /\ ValueOf(mp_zero) = 0
<1>1. 0 \in Digit /\ ZPOS # NEG BY RadixIs DEF ZPOS, NEG
<1>2. Normal(<<0>>) /\ MagnitudeOf(<<0>>) = 0 BY <1>1, OneDigit
<1>3. mp_zero = [sign |-> ZPOS, dp |-> <<0>>] BY DEF mp_zero
<1>4. mp_zero \in Signed /\ ValueOf(mp_zero) = IF ZPOS = NEG THEN -MagnitudeOf(<<0>>) ELSE MagnitudeOf(<<0>>)
    BY <1>2, <1>3, SignedOf
<1>5. mp_zero.sign = ZPOS BY <1>3
<1> QED BY <1>1, <1>2, <1>4, <1>5 DEF Numbers

LEMMA ReadIs ==
    ASSUME NEW a \in Numbers, a.sign = ZPOS, NEW d \in Digit
    PROVE  ReadDigit(a, d) \in Numbers /\ ReadDigit(a, d).sign = ZPOS
<1>0. ZPOS = 0 /\ NEG = 1 /\ MP_EQ = 0 /\ MP_GT = 1 BY DEF ZPOS, NEG, MP_EQ, MP_GT
<1>1. a = [sign |-> a.sign, dp |-> a.dp] /\ Normal(a.dp) BY NumbersIs, SignedIs
<1>2. CASE a.dp = <<0>>
    <2> DEFINE n == [sign |-> ZPOS, dp |-> <<d>>]
    <2>1. mp_cmp_z(a) = MP_EQ BY <1>0, <1>2 DEF mp_cmp_z
    <2>2. ReadDigit(a, d) = n BY <2>1 DEF ReadDigit, mp_set
    <2>3. Normal(<<d>>) BY OneDigit
    <2>4. n \in Signed BY <2>3, SignedOf
    <2>5. n.sign = ZPOS OBVIOUS
    <2> QED BY <2>2, <2>4, <2>5 DEF Numbers
<1>3. CASE a.dp # <<0>>
    <2> DEFINE z == Zeros(1)
               l == z \o a.dp
               s == [l EXCEPT ![1] = d]
               n == [sign |-> ZPOS, dp |-> s]
    <2>1. mp_cmp_z(a) # MP_EQ
        <3>1. mp_cmp_z(a) = MP_GT
            <4>1. a.sign # NEG BY <1>0
            <4> QED BY <1>3, <4>1, Zenon DEF mp_cmp_z
        <3> QED BY <1>0, <3>1
    <2>2. ReadDigit(a, d) = n BY <1>1, <1>3, <2>1 DEF ReadDigit, s_mp_lshd
    <2>3. a.dp \in Seq(Digit) /\ Len(a.dp) \in Nat /\ Len(a.dp) > 0
        BY <1>1, NormalIs
    <2>4. z \in Seq(Digit) /\ Len(z) = 1
        <3>1. 1 \in Nat OBVIOUS
        <3> QED BY <3>1, ZerosAre
    <2> HIDE DEF z
    <2>5. l \in Seq(Digit) /\ Len(l) = 1 + Len(a.dp) /\ l[Len(l)] = a.dp[Len(a.dp)]
        <3>1. l \in Seq(Digit) /\ Len(l) = 1 + Len(a.dp) BY <2>3, <2>4, ConcatIs
        <3>2. Top(l) = Top(a.dp) BY <2>3, <2>4, ConcatTop
        <3> QED BY <3>1, <3>2 DEF Top
    <2> HIDE DEF l
    <2>6. s \in Seq(Digit) /\ Len(s) = Len(l) /\ s[Len(s)] = l[Len(l)]
        <3>1. 1 # Len(l) BY <2>3, <2>5
        <3>2. s \in Seq(Digit) /\ Len(s) = Len(l) BY <2>5
        <3>3. Len(l) \in DOMAIN l BY <2>3, <2>5
        <3> QED BY <3>1, <3>2, <3>3
    <2>7. Top(a.dp) # 0
        <3>1. CASE Len(a.dp) > 1 BY <1>1, <3>1 DEF Normal
        <3>2. CASE Len(a.dp) = 1
            <4>1. MagnitudeOf(a.dp) = a.dp[1] BY <1>1, <3>2, NormalIs
            <4>2. MagnitudeOf(a.dp) # 0 BY <1>1, <1>3, NormalIs
            <4> QED BY <3>2, <4>1, <4>2 DEF Top
        <3> QED BY <1>1, <3>1, <3>2, NormalIs
    <2>8. Top(s) # 0 BY <2>5, <2>6, <2>7 DEF Top
    <2>9. s # <<>> BY <2>3, <2>5, <2>6
    <2>10. Normal(s) BY <2>6, <2>8, <2>9 DEF Normal
    <2> HIDE DEF s
    <2>11. n \in Signed BY <2>10, SignedOf
    <2>12. n.sign = ZPOS OBVIOUS
    <2> QED BY <2>2, <2>11, <2>12 DEF Numbers
<1> QED BY <1>2, <1>3

LEMMA LongInvHolds == LongSpec => []LongInv
<1>1. Init => LongInv
    <2> SUFFICES ASSUME Init PROVE LongInv OBVIOUS
    <2>1. x = mp_zero /\ y = mp_zero BY DEF Init
    <2> QED BY <2>1, ZeroIs DEF LongInv
<1>2. LongInv /\ [ReadX \/ ReadY]_vars => LongInv'
    <2> SUFFICES ASSUME LongInv, [ReadX \/ ReadY]_vars PROVE LongInv' OBVIOUS
    <2>1. x \in Numbers /\ x.sign = ZPOS /\ y \in Numbers /\ y.sign = ZPOS BY DEF LongInv
    <2>2. Sample \subseteq Digit BY MpiLongAssumption
    <2>3. CASE ReadX
        <3>1. PICK d \in Digit : x' = ReadDigit(x, d) BY <2>2, <2>3 DEF ReadX
        <3>2. x' \in Numbers /\ x'.sign = ZPOS /\ y' = y BY <2>1, <2>3, <3>1, ReadIs DEF ReadX
        <3> QED BY <2>1, <3>2 DEF LongInv
    <2>4. CASE ReadY
        <3>1. PICK d \in Digit : y' = ReadDigit(y, d) BY <2>2, <2>4 DEF ReadY
        <3>2. y' \in Numbers /\ y'.sign = ZPOS /\ x' = x BY <2>1, <2>4, <3>1, ReadIs DEF ReadY
        <3> QED BY <2>1, <3>2 DEF LongInv
    <2>5. CASE UNCHANGED vars
        <3>1. x' = x /\ y' = y BY <2>5 DEF vars
        <3> QED BY <2>1, <3>1 DEF LongInv
    <2> QED BY <2>3, <2>4, <2>5
<1> QED BY <1>1, <1>2, PTL DEF LongSpec

(* Whatever two signed numbers without leading zeros a call of mpi.c is    *)
(* made on, and however wide a digit is, they are ordered as integers, and *)
(* no carry or borrow of their sums and differences is lost.               *)
LEMMA NumbersExact ==
    ASSUME x \in Numbers, y \in Numbers
    PROVE  OrderExact /\ AdditionExact
<1>1. OrderExact BY CompareIs DEF OrderExact, X, Y
<1>2. x \in Signed /\ y \in Signed BY NumbersIs
<1>3. MagnitudeOf(s_mp_add_offset(x, y, 1).dp) = Abs(X) + MP_RADIX * Abs(Y)
    <2>1. 1 \in Nat OBVIOUS
    <2>2. MagnitudeOf(s_mp_add_offset(x, y, 1).dp)
            = MagnitudeOf(x.dp) + Weight(1) * MagnitudeOf(y.dp)
        BY <1>2, <2>1, AddOffsetIs
    <2>3. Abs(X) = MagnitudeOf(x.dp) /\ Abs(Y) = MagnitudeOf(y.dp) BY <1>2, SignedIs DEF X, Y
    <2>4. Weight(1) = MP_RADIX
        <3>1. Weight(0 + 1) = MP_RADIX * Weight(0) /\ Weight(0) = 1 BY WeightIs
        <3>2. 0 + 1 = 1 /\ MP_RADIX * 1 = MP_RADIX BY RadixIs
        <3> QED BY <3>1, <3>2
    <2> QED BY <2>2, <2>3, <2>4
<1>4. ValueOf(mp_add(x, y)) = X + Y BY <1>2, AddIs DEF X, Y
<1>5. ValueOf(mp_sub(x, y)) = X - Y BY <1>2, SubIs DEF X, Y
<1>6. \A d \in Digit : /\ ValueOf(mp_add_d(x, d)) = X + d
                       /\ ValueOf(mp_sub_d(x, d)) = X - d
    BY <1>2, AddDigitOps DEF X
<1>7. AdditionExact BY <1>3, <1>4, <1>5, <1>6 DEF AdditionExact
<1> QED BY <1>1, <1>7

THEOREM AdditionExactHolds == LongSpec => []AdditionExact
<1>1. LongInv => AdditionExact
    <2> SUFFICES ASSUME LongInv PROVE AdditionExact OBVIOUS
    <2>1. x \in Numbers /\ y \in Numbers BY DEF LongInv
    <2> QED BY <2>1, NumbersExact
<1> QED BY <1>1, LongInvHolds, PTL

THEOREM OrderExactHolds == LongSpec => []OrderExact
<1>1. LongInv => OrderExact
    <2> SUFFICES ASSUME LongInv PROVE OrderExact OBVIOUS
    <2>1. x \in Numbers /\ y \in Numbers BY DEF LongInv
    <2> QED BY <2>1, NumbersExact
<1> QED BY <1>1, LongInvHolds, PTL

-----------------------------------------------------------------------------
(* Products of digits, from half digits *)

Half == 0 .. MP_HALF_RADIX - 1
DigitPair == [hi : Digit, lo : Digit]

LEMMA HalvesAre ==
    ASSUME NEW d \in Nat
    PROVE  /\ Hi(d) \in Nat /\ Lo(d) \in Nat /\ Lo(d) < MP_HALF_RADIX
           /\ d = Hi(d) * MP_HALF_RADIX + Lo(d)
           /\ d \in Digit => Hi(d) < MP_HALF_RADIX
<1> DEFINE h == MP_HALF_RADIX
           u == Hi(d)
           v == Lo(d)
<1>1. h \in Nat /\ h >= 2 /\ MP_RADIX = h * h BY RadixIs
<1>2. u \in Nat /\ v \in Nat /\ v < h /\ d = u * h + v BY <1>1, DivisionIs DEF Hi, Lo
<1>3. ASSUME d < MP_RADIX PROVE u < h
    <2> HIDE DEF h, u, v
    <2> SUFFICES ASSUME u >= h PROVE FALSE BY <1>1, <1>2
    <2>1. u * h >= h * h BY <1>1, <1>2
    <2>2. u * h \in Nat /\ h * h \in Nat BY <1>1, <1>2
    <2>3. d >= h * h BY <1>2, <2>1, <2>2
    <2> QED BY <1>1, <1>3, <2>2, <2>3
<1>4. d \in Digit => d < MP_RADIX BY DigitInt
<1> QED BY <1>2, <1>3, <1>4

(* The low digit of a sum of two, and its carry into the high digit. *)
LEMMA AddLowIs ==
    ASSUME NEW hi \in Nat, NEW lo \in Digit, NEW up \in Digit,
           hi * MP_RADIX + lo + up < MP_RADIX * MP_RADIX
    PROVE  /\ AddLow(hi, lo, up) \in DigitPair
           /\ AddLow(hi, lo, up).hi * MP_RADIX + AddLow(hi, lo, up).lo = hi * MP_RADIX + lo + up
<1> DEFINE R == MP_RADIX
           s == Wrap(lo + up)
           k == Bit(s < up)
           g == hi + k
           p == hi * R
<1>1. R \in Nat /\ R >= 4 /\ lo \in Nat /\ lo < R /\ up \in Nat /\ up < R
    BY RadixIs, DigitInt
<1>2. s \in Digit /\ (lo + up < R => s = lo + up) /\ (lo + up >= R => s = lo + up - R)
    BY <1>1, WrapIs
<1>3. s \in Nat /\ s < R BY <1>2, DigitInt
<1>4. AddLow(hi, lo, up) = [hi |-> Wrap(g), lo |-> s] BY DEF AddLow
<1> HIDE DEF s
<1>5. k \in {0, 1} /\ s + k * R = lo + up
    <2>1. CASE lo + up < R
        <3>1. ~(s < up) BY <1>1, <1>2, <2>1
        <3>2. k = 0 BY <3>1 DEF Bit
        <3> HIDE DEF k
        <3> QED BY <1>1, <1>2, <2>1, <3>2
    <2>2. CASE lo + up >= R
        <3>1. s < up BY <1>1, <1>2, <2>2
        <3>2. k = 1 BY <3>1 DEF Bit
        <3> HIDE DEF k
        <3> QED BY <1>1, <1>2, <2>2, <3>2
    <2> QED BY <1>1, <2>1, <2>2
<1>6. p \in Nat BY <1>1
<1> HIDE DEF k, R
<1>7. g * R = p + k * R BY <1>1, <1>5
<1> HIDE DEF p
<1>8. k * R \in Nat BY <1>1, <1>5
<1>9. g * R + s = p + lo + up BY <1>1, <1>3, <1>5, <1>6, <1>7, <1>8
<1>10. g \in Nat BY <1>5
<1>11. p + lo + up < R * R BY DEF p, R
<1> HIDE DEF g
<1>12. g < R
    <2> SUFFICES ASSUME g >= R PROVE FALSE BY <1>1, <1>10
    <2>1. g * R >= R * R BY <1>1, <1>10
    <2>2. g * R \in Nat /\ R * R \in Nat BY <1>1, <1>10
    <2>3. g * R + s < R * R BY <1>9, <1>11
    <2> QED BY <1>3, <2>1, <2>2, <2>3
<1>13. Wrap(g) = g /\ g \in Digit
    <2>1. g \in Int /\ g >= 0 /\ g < MP_RADIX BY <1>10, <1>12 DEF R
    <2> QED BY <2>1, WrapIs
<1> QED BY <1>2, <1>4, <1>9, <1>13 DEF DigitPair, R, p

(* Half digits shifted up by half a digit wrap to their low half. *)
LEMMA WrapHalf ==
    ASSUME NEW m \in Nat
    PROVE  /\ Wrap(m * MP_HALF_RADIX) = Lo(m) * MP_HALF_RADIX
           /\ Lo(m) * MP_HALF_RADIX \in Digit
           /\ m * MP_HALF_RADIX = Hi(m) * MP_RADIX + Lo(m) * MP_HALF_RADIX
<1> DEFINE h == MP_HALF_RADIX
           R == MP_RADIX
           u == Hi(m)
           v == Lo(m)
           r == v * h
<1>1. h \in Nat /\ h >= 2 /\ R = h * h /\ R \in Nat /\ R >= 4 BY RadixIs
<1>2. u \in Nat /\ v \in Nat /\ v < h /\ m = u * h + v BY HalvesAre
<1> HIDE DEF h, R, u, v
<1>3. (u * h + v) * h = u * (h * h) + v * h BY <1>1, <1>2
<1>4. m * h = u * R + r BY <1>1, <1>2, <1>3
<1>5. r \in Nat /\ r < R
    <2>1. (v + 1) * h <= h * h /\ (v + 1) * h = v * h + h BY <1>1, <1>2
    <2>2. v * h \in Nat /\ h * h \in Nat BY <1>1, <1>2
    <2> QED BY <1>1, <2>1, <2>2
<1> DEFINE n == m * h
<1>6. n \in Nat /\ R > 0 BY <1>1
<1> HIDE DEF r, n
<1>7. (n % R) = r
    <2>1. n = u * R + r BY <1>4 DEF n
    <2> QED BY <1>1, <1>2, <1>5, <1>6, <2>1, DivisionUnique
<1>8. r \in Digit BY <1>5, RadixIs DEF R
<1> QED BY <1>4, <1>7, <1>8 DEF Wrap, r, h, R, u, v, n

LEMMA ProductBound ==
    ASSUME NEW a \in Digit, NEW b \in Digit
    PROVE  /\ a * b \in Nat /\ a * b <= (MP_RADIX - 1) * (MP_RADIX - 1)
           /\ a * b < MP_RADIX * MP_RADIX
<1> DEFINE R == MP_RADIX
<1>1. R \in Nat /\ R >= 4 /\ a \in Nat /\ a <= R - 1 /\ b \in Nat /\ b <= R - 1
    BY RadixIs, DigitInt
<1> HIDE DEF R
<1>2. a * b \in Nat /\ a * b <= a * (R - 1) /\ a * (R - 1) <= (R - 1) * (R - 1) BY <1>1
<1>3. (R - 1) * (R - 1) = R * R - 2 * R + 1 BY <1>1
<1>4. a * (R - 1) \in Nat /\ (R - 1) * (R - 1) \in Nat /\ R * R \in Nat BY <1>1
<1>5. a * b <= (R - 1) * (R - 1) BY <1>2, <1>4
<1> DEFINE p == a * b
           q == (R - 1) * (R - 1)
           s == R * R
<1>6. p \in Nat /\ q \in Nat /\ s \in Nat /\ p <= q /\ q = s - 2 * R + 1 BY <1>2, <1>3, <1>4, <1>5
<1> HIDE DEF p, q, s
<1>7. p < s BY <1>1, <1>6
<1> QED BY <1>2, <1>5, <1>7 DEF p, s, R

(* MP_MUL_DxD loses no carry, neither of the middle sum nor of the low digit. *)
LEMMA MulDxDIs ==
    ASSUME NEW a \in Digit, NEW b \in Digit
    PROVE  /\ MP_MUL_DxD(a, b) \in DigitPair
           /\ MP_MUL_DxD(a, b).hi * MP_RADIX + MP_MUL_DxD(a, b).lo = a * b
<1> DEFINE h == MP_HALF_RADIX
           R == MP_RADIX
           a1 == Hi(a)
           a0 == Lo(a)
           b1 == Hi(b)
           b0 == Lo(b)
           p11 == a1 * b1
           p10 == a1 * b0
           p01 == a0 * b1
           p00 == a0 * b0
           w == Wrap(p01)
           m == Wrap(p10 + w)
           c == IF m < w THEN h ELSE 0
           hi == p11 + Hi(m) + c
           up == Wrap(m * h)
<1>1. h \in Nat /\ h >= 2 /\ R = h * h /\ R \in Nat /\ R >= 4 BY RadixIs
<1>2. /\ a1 \in Nat /\ a0 \in Nat /\ a1 < h /\ a0 < h /\ a = a1 * h + a0
      /\ b1 \in Nat /\ b0 \in Nat /\ b1 < h /\ b0 < h /\ b = b1 * h + b0
    BY DigitInt, HalvesAre
<1>3. MP_MUL_DxD(a, b) = AddLow(hi, p00, up) BY DEF MP_MUL_DxD, AddMiddle
<1> HIDE DEF h, R, a1, a0, b1, b0
<1>4. ASSUME NEW i \in Nat, NEW j \in Nat, i < h, j < h PROVE i * j \in Nat /\ i * j < R
    <2>1. i * j <= i * h /\ i * h <= (h - 1) * h /\ (h - 1) * h = h * h - h BY <1>1, <1>4
    <2>2. i * j \in Nat /\ i * h \in Nat /\ (h - 1) * h \in Nat /\ h * h \in Nat BY <1>1, <1>4
    <2> QED BY <1>1, <2>1, <2>2
<1>5. p10 \in Nat /\ p10 < R /\ p01 \in Nat /\ p01 < R /\ p00 \in Nat /\ p00 < R /\ p11 \in Nat
    BY <1>2, <1>4
<1>6. a * b = p11 * R + (p10 + p01) * h + p00
    <2>1. (a1 * h + a0) * (b1 * h + b0)
            = (a1 * b1) * (h * h) + (a1 * b0 + a0 * b1) * h + a0 * b0
        BY <1>1, <1>2
    <2> QED BY <1>1, <1>2, <2>1
<1> HIDE DEF p11, p10, p01, p00
<1>7. w = p01 BY <1>5, WrapIs DEF R
<1>8. /\ m \in Digit /\ (p10 + p01 < R => m = p10 + p01)
      /\ (p10 + p01 >= R => m = p10 + p01 - R)
    <2> DEFINE s == p10 + p01
    <2>1. s \in Nat /\ s < 2 * R /\ s >= 0 BY <1>1, <1>5
    <2>2. m = Wrap(s) BY <1>7
    <2> HIDE DEF s, m
    <2>3. Wrap(s) \in Digit /\ (s < R => Wrap(s) = s) /\ (s >= R => Wrap(s) = s - R)
        BY <2>1, WrapIs DEF R
    <2>4. m \in Digit /\ (s < R => m = s) /\ (s >= R => m = s - R) BY <2>2, <2>3
    <2> QED BY <1>1, <1>5, <2>4 DEF s, m
<1> HIDE DEF w, m
<1>9. m \in Nat BY <1>8, DigitInt
<1>10. c \in Nat /\ (p10 + p01) * h = m * h + c * R
    <2>1. CASE p10 + p01 < R
        <3>1. ~(m < w) BY <1>5, <1>7, <1>8, <2>1
        <3>2. c = 0 BY <3>1
        <3>3. 0 * R = 0 /\ m * h \in Nat BY <1>1, <1>9
        <3> HIDE DEF c
        <3> QED BY <1>8, <2>1, <3>2, <3>3
    <2>2. CASE p10 + p01 >= R
        <3>1. m < w BY <1>1, <1>5, <1>7, <1>8, <1>9, <2>2
        <3>2. c = h BY <3>1
        <3> HIDE DEF c
        <3>3. p10 + p01 = m + R BY <1>1, <1>5, <1>8, <1>9, <2>2
        <3>4. (m + R) * h = m * h + h * R BY <1>1, <1>9
        <3> QED BY <1>1, <3>2, <3>3, <3>4
    <2> QED BY <1>1, <1>5, <2>1, <2>2
<1>11. up = Lo(m) * h /\ up \in Digit /\ m * h = Hi(m) * R + up /\ Hi(m) \in Nat
    BY <1>9, WrapHalf, HalvesAre DEF h, R
<1> DEFINE n == Hi(m)
<1> HIDE DEF c, up, n
<1>12. up \in Nat BY <1>11, DigitInt
<1>13. (p11 + n + c) * R = p11 * R + n * R + c * R BY <1>1, <1>5, <1>10, <1>11 DEF n
<1> DEFINE t == hi * R
           t1 == p11 * R
           t2 == n * R
           t3 == c * R
           mh == m * h
           sh == (p10 + p01) * h
           ab == a * b
<1>14. t1 \in Nat /\ t2 \in Nat /\ t3 \in Nat /\ mh \in Nat BY <1>1, <1>5, <1>9, <1>10, <1>11 DEF n
<1>15. t = t1 + t2 + t3 /\ sh = mh + t3 /\ mh = t2 + up /\ ab = t1 + sh + p00
    BY <1>6, <1>10, <1>11, <1>13 DEF n
<1>16. hi \in Nat BY <1>5, <1>10, <1>11
<1> HIDE DEF t, t1, t2, t3, mh, sh, ab
<1>17. t + p00 + up = ab BY <1>5, <1>12, <1>14, <1>15
<1>18. ab < R * R BY ProductBound DEF ab, R
<1> HIDE DEF hi
<1>19. p00 \in Digit BY <1>5, RadixIs DEF R
<1>20. hi * R + p00 + up = ab /\ hi * R + p00 + up < R * R BY <1>17, <1>18 DEF t
<1>21. /\ AddLow(hi, p00, up) \in DigitPair
       /\ AddLow(hi, p00, up).hi * R + AddLow(hi, p00, up).lo = hi * R + p00 + up
    BY <1>11, <1>16, <1>19, <1>20, AddLowIs DEF R
<1> QED BY <1>3, <1>20, <1>21 DEF ab, R

(* The middle product of a square is counted twice by a shift that is split *)
(* at half a digit.                                                         *)
LEMMA SqrDIs ==
    ASSUME NEW a \in Digit
    PROVE  /\ MP_SQR_D(a) \in DigitPair
           /\ MP_SQR_D(a).hi * MP_RADIX + MP_SQR_D(a).lo = a * a
<1> DEFINE h == MP_HALF_RADIX
           R == MP_RADIX
           a1 == Hi(a)
           a0 == Lo(a)
           p11 == a1 * a1
           p00 == a0 * a0
           mid == a0 * a1
           m == mid * 2
           n == m \div h
           hi == p11 + n
           up == Lo(m) * h
<1>1. h \in Nat /\ h >= 2 /\ R = h * h /\ R \in Nat /\ R >= 4 BY RadixIs
<1>2. a1 \in Nat /\ a0 \in Nat /\ a1 < h /\ a0 < h /\ a = a1 * h + a0
    BY DigitInt, HalvesAre
<1> HIDE DEF h, R, a1, a0
<1>3. mid \in Nat /\ p11 \in Nat /\ p00 \in Nat BY <1>2
<1>4. p00 < R
    <2>1. a0 * a0 <= a0 * h /\ a0 * h <= (h - 1) * h /\ (h - 1) * h = h * h - h BY <1>1, <1>2
    <2>2. a0 * h \in Nat /\ (h - 1) * h \in Nat /\ h * h \in Nat BY <1>1, <1>2
    <2> QED BY <1>1, <1>3, <2>1, <2>2
<1>5. a * a = p11 * R + m * h + p00
    <2>1. (a1 * h + a0) * (a1 * h + a0) = (a1 * a1) * (h * h) + ((a0 * a1) * 2) * h + a0 * a0
        BY <1>1, <1>2
    <2> QED BY <1>1, <1>2, <2>1
<1>6. m \in Nat /\ mid * h * 2 = m * h
    <2> HIDE DEF mid
    <2> QED BY <1>1, <1>3
<1>7. MP_SQR_D(a) = AddLow(hi, p00, Wrap(m * h))
    <2>1. MP_SQR_D(a) = AddLow(hi, p00, Wrap(mid * h * 2)) BY DEF MP_SQR_D, h, a1, a0
    <2> HIDE DEF m, mid, hi, p00
    <2> QED BY <1>6, <2>1
<1> HIDE DEF m, mid, p11, p00
<1>8. Wrap(m * h) = up /\ up \in Digit /\ m * h = n * R + up /\ n \in Nat
    <2>1. n = Hi(m) BY DEF Hi, h
    <2> QED BY <1>6, <2>1, WrapHalf, HalvesAre DEF h, R
<1> HIDE DEF n, up
<1>9. up \in Nat BY <1>8, DigitInt
<1>10. (p11 + n) * R = p11 * R + n * R BY <1>1, <1>3, <1>8
<1> DEFINE t == hi * R
           t1 == p11 * R
           t2 == n * R
           mh == m * h
           aa == a * a
<1>11. t1 \in Nat /\ t2 \in Nat /\ mh \in Nat BY <1>1, <1>3, <1>6, <1>8
<1>12. t = t1 + t2 /\ mh = t2 + up /\ aa = t1 + mh + p00 BY <1>5, <1>8, <1>10
<1>13. hi \in Nat BY <1>3, <1>8
<1> HIDE DEF t, t1, t2, mh, aa
<1>14. t + p00 + up = aa BY <1>3, <1>9, <1>11, <1>12
<1>15. aa < R * R BY ProductBound DEF aa, R
<1> HIDE DEF hi
<1>16. p00 \in Digit BY <1>3, <1>4, RadixIs DEF R
<1>17. hi * R + p00 + up = aa /\ hi * R + p00 + up < R * R BY <1>14, <1>15 DEF t
<1>18. /\ AddLow(hi, p00, up) \in DigitPair
       /\ AddLow(hi, p00, up).hi * R + AddLow(hi, p00, up).lo = hi * R + p00 + up
    BY <1>8, <1>13, <1>16, <1>17, AddLowIs DEF R
<1> QED BY <1>7, <1>8, <1>17, <1>18 DEF aa, R

-----------------------------------------------------------------------------
(* Two digits divided by a normalised one *)

(* Half a quotient.  The guess from the high half of the divisor is at most *)
(* two too large, and the comparisons of wrapped values find out.           *)
LEMMA HalfQuotientIs ==
    ASSUME NEW n \in Nat, NEW low \in Half, NEW D \in Digit, D >= MP_RADIX \div 2, n < D
    PROVE  /\ HalfQuotient(n, low, D).q \in Half
           /\ HalfQuotient(n, low, D).r \in Nat /\ HalfQuotient(n, low, D).r < D
           /\ HalfQuotient(n, low, D).q * D + HalfQuotient(n, low, D).r = n * MP_HALF_RADIX + low
<1> DEFINE h == MP_HALF_RADIX
           R == MP_RADIX
           d1 == Hi(D)
           d0 == Lo(D)
           q == n \div d1
           r0 == n % d1
           r == Wrap(r0 * h) + low
           m == Wrap(q * d0)
           t == HalfQuotient(n, low, D)
           N == n * h + low
<1>1. h \in Nat /\ h >= 2 /\ R = h * h /\ R \in Nat /\ R >= 4 BY RadixIs
<1>2. low \in Nat /\ low < h BY <1>1 DEF Half
<1>3. /\ D \in Nat /\ D < R
      /\ d1 \in Nat /\ d0 \in Nat /\ d1 < h /\ d0 < h /\ D = d1 * h + d0
    BY DigitInt, HalvesAre
<1>4. 2 * D >= R - 1
    <2> HIDE DEF R
    <2>1. D >= R \div 2 BY DEF R
    <2>2. 2 * (R \div 2) >= R - 1 /\ R \div 2 \in Nat BY <1>1
    <2> QED BY <1>1, <1>3, <2>1, <2>2
<1>5. t = TakenBack(q, r, m, D) BY DEF HalfQuotient
<1> HIDE DEF h, R, d1, d0
<1>6. 2 * d1 >= h - 1 /\ d1 > 0
    <2> DEFINE e == 2 * d1
    <2>1. e \in Nat BY <1>3
    <2>2. e * h + 2 * d0 >= h * h - 1
        <3>1. 2 * (d1 * h + d0) = (2 * d1) * h + 2 * d0 BY <1>1, <1>3
        <3> QED BY <1>1, <1>3, <1>4, <3>1
    <2>3. ASSUME e <= h - 2 PROVE FALSE
        <3> HIDE DEF e
        <3>1. e * h <= (h - 2) * h /\ (h - 2) * h = h * h - 2 * h BY <1>1, <2>1, <2>3
        <3>2. e * h \in Nat /\ h * h \in Nat BY <1>1, <2>1
        <3> DEFINE eh == e * h
                   hh == h * h
        <3>3. eh \in Nat /\ hh \in Nat /\ eh <= hh - 2 * h /\ eh + 2 * d0 >= hh - 1
            BY <2>2, <3>1, <3>2
        <3> HIDE DEF eh, hh
        <3> QED BY <1>1, <1>3, <3>3
    <2>4. e >= h - 1
        <3> HIDE DEF e
        <3> QED BY <1>1, <2>1, <2>3
    <2> QED BY <1>1, <1>3, <2>4
<1>7. q \in Nat /\ r0 \in Nat /\ r0 < d1 /\ n = q * d1 + r0
    BY <1>3, <1>6, DivisionIs
<1> HIDE DEF q, r0
<1>8. r0 * h \in Nat /\ r0 * h + h <= d1 * h
    <2>1. (r0 + 1) * h <= d1 * h /\ (r0 + 1) * h = r0 * h + h BY <1>1, <1>3, <1>7
    <2>2. r0 * h \in Nat BY <1>1, <1>7
    <2> QED BY <2>1, <2>2
<1>9. d1 * h \in Nat /\ d1 * h <= D BY <1>1, <1>3
<1>10. r = r0 * h + low /\ r \in Nat /\ r < d1 * h
    <2> DEFINE s == r0 * h
               u == d1 * h
    <2>1. s \in Nat /\ u \in Nat /\ s + h <= u /\ u <= D BY <1>8, <1>9
    <2>2. Wrap(s) = s
        <3> HIDE DEF s, u
        <3>1. s >= 0 /\ s < R /\ s \in Int BY <1>1, <1>3, <2>1
        <3> QED BY <3>1, WrapIs DEF R
    <2>3. r = s + low BY <2>2
    <2> HIDE DEF s, u, r
    <2>4. r \in Nat /\ r < u BY <1>1, <1>2, <2>1, <2>3
    <2> QED BY <2>3, <2>4 DEF s, u
<1>11. q <= h + 1
    <2> SUFFICES ASSUME q >= h + 2 PROVE FALSE BY <1>1, <1>7
    <2>1. q * d1 >= (h + 2) * d1 /\ (h + 2) * d1 = d1 * h + 2 * d1 BY <1>1, <1>3, <1>7
    <2>2. q * d1 \in Nat /\ d1 * h \in Nat BY <1>1, <1>3, <1>7
    <2> DEFINE a == q * d1
               b == d1 * h
    <2>3. a \in Nat /\ b \in Nat /\ a >= b + 2 * d1 /\ n = a + r0 /\ D = b + d0
        BY <1>3, <1>7, <2>1, <2>2
    <2> HIDE DEF a, b
    <2> QED BY <1>1, <1>3, <1>6, <1>7, <2>3
<1>12. q * d0 \in Nat /\ q * d0 <= R - 1
    <2>1. q * d0 <= (h + 1) * d0 /\ (h + 1) * d0 <= (h + 1) * (h - 1) /\ (h + 1) * (h - 1) = h * h - 1
        BY <1>1, <1>3, <1>7, <1>11
    <2>2. q * d0 \in Nat /\ (h + 1) * d0 \in Nat /\ (h + 1) * (h - 1) \in Nat
        BY <1>1, <1>3, <1>7
    <2> QED BY <1>1, <2>1, <2>2
<1>13. m = q * d0 /\ m \in Nat /\ m <= R - 1
    <2> DEFINE s == q * d0
    <2>1. s \in Int /\ s >= 0 /\ s < R BY <1>1, <1>12
    <2> HIDE DEF s
    <2>2. Wrap(s) = s BY <2>1, WrapIs DEF R
    <2>3. m = s BY <2>2 DEF s
    <2> QED BY <1>12, <2>3 DEF s
<1> HIDE DEF r, m
<1>14. N + m = q * D + r /\ N \in Nat
    <2>1. (q * d1 + r0) * h + low = (q * (d1 * h + d0) - q * d0) + (r0 * h + low)
        BY <1>1, <1>2, <1>3, <1>7
    <2>2. N = (q * D - m) + r BY <1>3, <1>7, <1>10, <1>13, <2>1
    <2>3. q * D \in Nat /\ N \in Nat BY <1>1, <1>2, <1>3, <1>7
    <2> HIDE DEF N
    <2> QED BY <1>10, <1>13, <2>2, <2>3
<1>15. N < D * h
    <2>1. (n + 1) * h <= D * h /\ (n + 1) * h = n * h + h BY <1>1, <1>3
    <2>2. n * h \in Nat /\ D * h \in Nat BY <1>1, <1>3
    <2> QED BY <1>1, <1>2, <2>1, <2>2
<1> HIDE DEF N, t
<1>16. SUFFICES t.q \in Int /\ t.r \in Nat /\ t.r < D /\ t.q * D + t.r = N
    <2> SUFFICES ASSUME t.q \in Int, t.r \in Nat, t.r < D, t.q * D + t.r = N
                 PROVE  t.q \in Half
        BY DEF t, N, h
    <2> DEFINE Q == t.q
    <2>1. Q \in Int /\ Q * D + t.r = N /\ t.r \in Nat /\ t.r < D OBVIOUS
    <2> HIDE DEF Q
    <2>2. Q >= 0
        <3> SUFFICES ASSUME Q <= -1 PROVE FALSE BY <2>1
        <3>1. Q * D <= (-1) * D /\ (-1) * D = -D /\ Q * D \in Int BY <1>3, <2>1
        <3> QED BY <1>3, <1>14, <2>1, <3>1
    <2>3. Q <= h - 1
        <3> SUFFICES ASSUME Q >= h PROVE FALSE BY <1>1, <2>1
        <3> DEFINE e == Q * D
                   f == D * h
        <3>1. e >= f /\ e \in Nat /\ f \in Nat
            <4>1. Q * D >= h * D /\ h * D = D * h /\ Q * D \in Nat /\ D * h \in Nat
                BY <1>1, <1>3, <2>1, <2>2
            <4> QED BY <4>1
        <3>2. N < f /\ e + t.r = N BY <1>15, <2>1
        <3> HIDE DEF e, f
        <3> QED BY <1>14, <2>1, <3>1, <3>2
    <2> QED BY <1>1, <2>1, <2>2, <2>3 DEF Half, Q, h
<1> DEFINE once == Wrap(r + D)
           twice == once >= D /\ once < m
<1>17. CASE r >= m
    <2>1. t = [q |-> q, r |-> Wrap(r - m)]
        <3>1. ~(r < m) BY <1>10, <1>13, <1>17
        <3> QED BY <1>5, <1>17, <3>1, Zenon DEF TakenBack
    <2>2. r - m \in Nat /\ r - m < D BY <1>1, <1>3, <1>9, <1>10, <1>13, <1>17
    <2>3. Wrap(r - m) = r - m
        <3>1. r - m \in Int /\ r - m >= 0 /\ r - m < MP_RADIX BY <1>1, <1>3, <2>2 DEF R
        <3> QED BY <3>1, WrapIs
    <2>4. q * D \in Nat BY <1>3, <1>7
    <2>5. q * D + (r - m) = N BY <1>10, <1>13, <1>14, <2>4
    <2> QED BY <1>7, <2>1, <2>2, <2>3, <2>5
<1>18. r + D \in Nat /\ r + D < 2 * R /\ r < R BY <1>1, <1>3, <1>9, <1>10
<1>19. /\ once \in Nat /\ once < R
       /\ (r + D < R => once = r + D) /\ (r + D >= R => once = (r + D) - R)
    <2> DEFINE s == r + D
    <2>1. s \in Int /\ s >= 0 /\ s < 2 * R BY <1>18
    <2> HIDE DEF s
    <2>2. Wrap(s) \in Digit /\ (s < R => Wrap(s) = s) /\ (s >= R => Wrap(s) = s - R)
        BY <2>1, WrapIs DEF R
    <2>3. Wrap(s) \in Nat /\ Wrap(s) < R BY <2>2, DigitInt DEF R
    <2> QED BY <2>2, <2>3 DEF s
<1> HIDE DEF once
<1>20. (q - 1) * D = q * D - D /\ (q - 2) * D = q * D - 2 * D /\ q * D \in Nat BY <1>3, <1>7
<1>21. CASE r < m /\ ~twice
    <2>1. t = [q |-> q - 1, r |-> Wrap(once - m)]
        <3>1. ~(r >= m) BY <1>10, <1>13, <1>21
        <3> QED BY <1>5, <1>21, <3>1, Zenon DEF TakenBack, once
    <2> DEFINE e == (r + D) - m
    <2>2. e \in Nat /\ e < D
        <3>1. CASE r + D < R
            <4>1. ~(once < m) BY <1>3, <1>10, <1>19, <1>21, <3>1
            <4> QED BY <1>3, <1>10, <1>13, <1>19, <1>21, <3>1, <4>1
        <3>2. CASE r + D >= R BY <1>1, <1>3, <1>10, <1>13, <1>21, <3>2
        <3> QED BY <1>1, <1>18, <3>1, <3>2
    <2>3. Wrap(once - m) = e
        <3> DEFINE f == once - m
        <3>1. CASE r + D < R
            <4>1. f = e BY <1>3, <1>10, <1>13, <1>19, <3>1
            <4>2. f \in Int /\ f >= 0 /\ f < R BY <1>1, <1>3, <2>2, <4>1
            <4> HIDE DEF f, e
            <4>3. Wrap(f) = f BY <4>2, WrapIs DEF R
            <4> QED BY <4>1, <4>3 DEF f
        <3>2. CASE r + D >= R
            <4>1. f = e - R BY <1>1, <1>3, <1>10, <1>13, <1>19, <3>2
            <4>2. f \in Int /\ f < 0 /\ f >= -R BY <1>1, <1>3, <2>2, <4>1
            <4> HIDE DEF f, e
            <4>3. Wrap(f) = f + R BY <4>2, WrapIs DEF R
            <4>4. f + R = e BY <1>1, <2>2, <4>1
            <4> QED BY <4>3, <4>4 DEF f
        <3> QED BY <1>1, <1>18, <3>1, <3>2
    <2>4. (q - 1) * D + e = N BY <1>3, <1>10, <1>13, <1>14, <1>20
    <2> HIDE DEF e
    <2> QED BY <1>7, <2>1, <2>2, <2>3, <2>4
<1>22. CASE r < m /\ twice
    <2>1. t = [q |-> q - 2, r |-> Wrap(once + D - m)]
        <3>1. ~(r >= m) BY <1>10, <1>13, <1>22
        <3> QED BY <1>5, <1>22, <3>1, Zenon DEF TakenBack, once
    <2>2. once = r + D
        <3> SUFFICES ASSUME r + D >= R PROVE FALSE BY <1>1, <1>18, <1>19
        <3> QED BY <1>1, <1>3, <1>10, <1>18, <1>19, <1>22
    <2> DEFINE e == (r + 2 * D) - m
    <2>3. e \in Nat /\ e < D BY <1>1, <1>3, <1>4, <1>10, <1>13, <1>22, <2>2
    <2>4. once + D - m = e BY <1>3, <1>10, <1>13, <2>2
    <2> HIDE DEF e
    <2>5. Wrap(e) = e
        <3>1. e \in Int /\ e >= 0 /\ e < R BY <1>1, <1>3, <2>3
        <3> QED BY <3>1, WrapIs DEF R
    <2>6. (q - 2) * D + e = N BY <1>3, <1>10, <1>13, <1>14, <1>20 DEF e
    <2> QED BY <1>7, <2>1, <2>3, <2>4, <2>5, <2>6
<1>23. r >= m \/ r < m BY <1>10, <1>13
<1> QED BY <1>17, <1>21, <1>22, <1>23

(* s_mpv_div_2dx1d is exact for a divisor whose highest bit is set. *)
LEMMA Div2dx1dIs ==
    ASSUME NEW a \in Digit, NEW low \in Digit, NEW D \in Digit, D >= MP_RADIX \div 2, a < D
    PROVE  /\ s_mpv_div_2dx1d(a, low, D).q \in Digit
           /\ s_mpv_div_2dx1d(a, low, D).r \in Nat /\ s_mpv_div_2dx1d(a, low, D).r < D
           /\ s_mpv_div_2dx1d(a, low, D).q * D + s_mpv_div_2dx1d(a, low, D).r
                = a * MP_RADIX + low
<1> DEFINE h == MP_HALF_RADIX
           R == MP_RADIX
           u == Hi(low)
           v == Lo(low)
           t1 == HalfQuotient(a, u, D)
           t0 == HalfQuotient(t1.r, v, D)
           q1 == t1.q
           r1 == t1.r
           q0 == t0.q
           r0 == t0.r
           q == q1 * h + q0
           s == s_mpv_div_2dx1d(a, low, D)
<1>1. h \in Nat /\ h >= 2 /\ R = h * h /\ R \in Nat /\ R >= 4 BY RadixIs
<1>2. a \in Nat /\ D \in Nat /\ low \in Nat BY DigitInt
<1>3. u \in Half /\ v \in Half /\ u \in Nat /\ v \in Nat /\ low = u * h + v
    <2>1. u \in Nat /\ v \in Nat /\ v < h /\ u < h /\ low = u * h + v BY <1>2, HalvesAre
    <2> HIDE DEF u, v, h
    <2>2. u \in 0 .. h - 1 /\ v \in 0 .. h - 1 BY <1>1, <2>1
    <2> QED BY <2>1, <2>2 DEF Half, h
<1> HIDE DEF u, v
<1>4. q1 \in Half /\ r1 \in Nat /\ r1 < D /\ q1 * D + r1 = a * h + u
    BY <1>2, <1>3, HalfQuotientIs
<1> HIDE DEF t1
<1>5. q0 \in Half /\ r0 \in Nat /\ r0 < D /\ q0 * D + r0 = r1 * h + v
    BY <1>2, <1>3, <1>4, HalfQuotientIs
<1>6. s = [q |-> Wrap(q1 * h) + q0, r |-> r0]
    BY DEF s_mpv_div_2dx1d, SecondHalf, BothHalves, t1, u, v
<1> HIDE DEF t0, s, h, R
<1>7. q1 \in Nat /\ q1 <= h - 1 /\ q0 \in Nat /\ q0 <= h - 1 BY <1>1, <1>4, <1>5 DEF Half, h
<1> HIDE DEF q1, q0, r1, r0
<1>8. q1 * h \in Nat /\ q1 * h <= R - h
    <2>1. q1 * h <= (h - 1) * h /\ (h - 1) * h = h * h - h BY <1>1, <1>7
    <2>2. q1 * h \in Nat /\ h * h \in Nat BY <1>1, <1>7
    <2> QED BY <1>1, <2>1, <2>2
<1>9. Wrap(q1 * h) = q1 * h
    <2> DEFINE e == q1 * h
    <2>1. e \in Int /\ e >= 0 /\ e < R BY <1>1, <1>8
    <2> HIDE DEF e
    <2> QED BY <2>1, WrapIs DEF R, e
<1>10. q \in Digit
    <2> DEFINE e == q1 * h
    <2>1. e \in Nat /\ e <= R - h BY <1>8
    <2> HIDE DEF e
    <2>2. e + q0 \in 0 .. R - 1 BY <1>1, <1>7, <2>1
    <2>3. Digit = 0 .. R - 1 BY RadixIs DEF R
    <2> QED BY <2>2, <2>3 DEF e
<1>11. q * D + r0 = a * R + low
    <2>1. (q1 * h + q0) * D = (q1 * D) * h + q0 * D BY <1>1, <1>2, <1>7
    <2>2. (a * h + u) * h = a * (h * h) + u * h BY <1>1, <1>2, <1>3
    <2>3. (q1 * D + r1) * h = (q1 * D) * h + r1 * h BY <1>1, <1>2, <1>4, <1>7
    <2> DEFINE A == (q1 * D) * h
               B == q0 * D
               C == r1 * h
               E == a * R
               F == u * h
               G == (q1 * h + q0) * D
    <2>4. A \in Nat /\ B \in Nat /\ C \in Nat /\ E \in Nat /\ F \in Nat /\ G \in Nat
        BY <1>1, <1>2, <1>3, <1>4, <1>7
    <2>5. G = A + B BY <2>1
    <2>6. A + C = E + F BY <1>1, <1>4, <2>2, <2>3
    <2>7. B + r0 = C + v BY <1>5
    <2>8. low = F + v BY <1>3
    <2> HIDE DEF A, B, C, E, F, G
    <2>9. G + r0 = E + low BY <1>3, <1>5, <2>4, <2>5, <2>6, <2>7, <2>8
    <2> QED BY <2>9 DEF G, E
<1> HIDE DEF q
<1>12. s.q = q /\ s.r = r0 BY <1>6, <1>9 DEF q
<1> QED BY <1>5, <1>10, <1>11, <1>12 DEF s, R

(* The primitives that the inner loops are built from, for digits of every *)
(* width: this is what a build without a two-digit type rests on.          *)
THEOREM PrimitivesExactHolds == LongSpec => []PrimitivesExact
<1>1. LongInv => PrimitivesExact
    <2> SUFFICES ASSUME LongInv PROVE PrimitivesExact OBVIOUS
    <2> DEFINE a == x.dp[1]
               b == y.dp[1]
    <2>1. x \in Numbers /\ y \in Numbers BY DEF LongInv
    <2>2. Normal(x.dp) /\ Normal(y.dp) BY <2>1, NumbersIs, SignedIs
    <2>3. a \in Digit /\ b \in Digit BY <2>2, NormalIs
    <2> HIDE DEF a, b
    <2>4. MP_MUL_DxD(a, b).hi * MP_RADIX + MP_MUL_DxD(a, b).lo = a * b BY <2>3, MulDxDIs
    <2>5. MP_SQR_D(a).hi * MP_RADIX + MP_SQR_D(a).lo = a * a BY <2>3, SqrDIs
    <2>6. ASSUME b >= MP_RADIX \div 2, a < b, NEW low \in Digit
          PROVE  /\ s_mpv_div_2dx1d(a, low, b).q * b + s_mpv_div_2dx1d(a, low, b).r
                      = a * MP_RADIX + low
                 /\ s_mpv_div_2dx1d(a, low, b).r < b
        BY <2>3, <2>6, Div2dx1dIs
    <2> QED BY <2>4, <2>5, <2>6, Zenon DEF PrimitivesExact, a, b
<1> QED BY <1>1, LongInvHolds, PTL

-----------------------------------------------------------------------------
(* A number times a digit *)

DigitStep == [d : Digit, carry : Digit]

(* A carry shows in the wrapped sum being below a term. *)
LEMMA CarryIs ==
    ASSUME NEW a \in Digit, NEW b \in Digit
    PROVE  /\ Wrap(a + b) \in Digit /\ Bit(Wrap(a + b) < b) \in {0, 1}
           /\ a + b = Wrap(a + b) + MP_RADIX * Bit(Wrap(a + b) < b)
<1> DEFINE R == MP_RADIX
           s == Wrap(a + b)
           k == Bit(s < b)
<1>1. R \in Nat /\ R >= 4 /\ a \in Nat /\ a < R /\ b \in Nat /\ b < R BY RadixIs, DigitInt
<1>2. s \in Digit /\ (a + b < R => s = a + b) /\ (a + b >= R => s = a + b - R)
    BY <1>1, WrapIs
<1> HIDE DEF s
<1>3. s \in Nat BY <1>2, DigitInt
<1>4. CASE a + b < R
    <2>1. ~(s < b) BY <1>1, <1>2, <1>4
    <2>2. k = 0 BY <2>1 DEF Bit
    <2> HIDE DEF k
    <2>3. a + b = s + R * k BY <1>1, <1>2, <1>4, <2>2
    <2> QED BY <1>2, <2>2, <2>3 DEF s, k
<1>5. CASE a + b >= R
    <2>1. s < b BY <1>1, <1>2, <1>5
    <2>2. k = 1 BY <2>1 DEF Bit
    <2> HIDE DEF k
    <2>3. a + b = s + R * k BY <1>1, <1>2, <1>3, <1>5, <2>2
    <2> QED BY <1>2, <2>2, <2>3 DEF s, k
<1>6. a + b < R \/ a + b >= R BY <1>1
<1> QED BY <1>4, <1>5, <1>6

(* A product, a carry and a digit are never more than two digits. *)
LEMMA MulStepIs ==
    ASSUME NEW p \in DigitPair, NEW k \in Digit, NEW c \in Digit,
           p.hi * MP_RADIX + p.lo <= (MP_RADIX - 1) * (MP_RADIX - 1)
    PROVE  /\ MulStep(p, k, c) \in DigitStep
           /\ MulStep(p, k, c).d + MP_RADIX * MulStep(p, k, c).carry
                = p.hi * MP_RADIX + p.lo + k + c
<1> DEFINE R == MP_RADIX
           h == p.hi
           l == p.lo
           low == Wrap(l + k)
           out == Wrap(low + c)
           u == Bit(low < k)
           v == Bit(out < c)
           g == h + u + v
           q == h * R
<1>0. h \in Digit /\ l \in Digit BY DEF DigitPair
<1>1. R \in Nat /\ R >= 4 /\ h \in Nat /\ l \in Nat /\ k \in Nat /\ k < R /\ c \in Nat /\ c < R
    BY <1>0, RadixIs, DigitInt
<1>2. MulStep(p, k, c) = [d |-> out, carry |-> Wrap(g)] BY DEF MulStep
<1>3. low \in Digit /\ u \in {0, 1} /\ l + k = low + R * u BY <1>0, CarryIs
<1>4. out \in Digit /\ v \in {0, 1} /\ low + c = out + R * v
    <2> HIDE DEF low
    <2> QED BY <1>3, CarryIs
<1>5. low \in Nat /\ out \in Nat BY <1>3, <1>4, DigitInt
<1>6. q \in Nat /\ q + l <= (R - 1) * (R - 1) BY <1>1
<1> HIDE DEF R, h, l, low, out, u, v
<1>7. g * R = q + R * u + R * v BY <1>1, <1>3, <1>4
<1> HIDE DEF q
<1>8. g \in Nat /\ R * u \in Nat /\ R * v \in Nat BY <1>1, <1>3, <1>4
<1>9. g * R + out = q + l + k + c
    <2> DEFINE ru == R * u
               rv == R * v
               gr == g * R
    <2>1. ru \in Nat /\ rv \in Nat /\ gr = q + ru + rv /\ l + k = low + ru /\ low + c = out + rv
        BY <1>3, <1>4, <1>7, <1>8
    <2> HIDE DEF ru, rv, gr
    <2>2. gr + out = q + l + k + c BY <1>1, <1>5, <1>6, <2>1
    <2> QED BY <2>2 DEF gr
<1> HIDE DEF g
<1>10. g < R
    <2>1. (R - 1) * (R - 1) = R * R - 2 * R + 1 BY <1>1
    <2> DEFINE rr == R * R
               gr == g * R
               b == (R - 1) * (R - 1)
    <2>2. rr \in Nat /\ gr \in Nat /\ b = rr - 2 * R + 1 /\ q + l <= b BY <1>1, <1>6, <1>8, <2>1
    <2>3. gr + out = q + l + k + c BY <1>9
    <2> HIDE DEF rr, gr, b
    <2>4. gr < rr BY <1>1, <1>5, <1>6, <2>2, <2>3
    <2> SUFFICES ASSUME g >= R PROVE FALSE BY <1>1, <1>8
    <2>5. g * R >= R * R BY <1>1, <1>8
    <2> QED BY <2>2, <2>4, <2>5 DEF gr, rr
<1>11. Wrap(g) = g /\ g \in Digit
    <2>1. g \in Int /\ g >= 0 /\ g < MP_RADIX BY <1>8, <1>10 DEF R
    <2> QED BY <2>1, WrapIs
<1>12. MulStep(p, k, c) = [d |-> out, carry |-> g] BY <1>2, <1>11
<1>13. R * g = g * R BY <1>1, <1>8
<1>14. out + R * g = q + l + k + c
    <2> DEFINE gr == g * R
    <2>1. gr \in Nat /\ gr + out = q + l + k + c BY <1>1, <1>8, <1>9
    <2> HIDE DEF gr
    <2>2. out + gr = q + l + k + c BY <1>5, <2>1
    <2> QED BY <1>13, <2>2 DEF gr
<1> QED BY <1>4, <1>11, <1>12, <1>14 DEF DigitStep, R, h, l, q

(* The step of MulDigits and of the squares. *)
LEMMA MulDigitIs ==
    ASSUME NEW a \in Digit, NEW b \in Digit, NEW k \in Digit, NEW c \in Digit
    PROVE  /\ MulStep(MP_MUL_DxD(a, b), k, c) \in DigitStep
           /\ MulStep(MP_MUL_DxD(a, b), k, c).d
                + MP_RADIX * MulStep(MP_MUL_DxD(a, b), k, c).carry = a * b + k + c
<1> DEFINE p == MP_MUL_DxD(a, b)
<1>1. p \in DigitPair /\ p.hi * MP_RADIX + p.lo = a * b BY MulDxDIs
<1>2. a * b <= (MP_RADIX - 1) * (MP_RADIX - 1) BY ProductBound
<1> HIDE DEF p
<1>3. p.hi * MP_RADIX + p.lo <= (MP_RADIX - 1) * (MP_RADIX - 1) BY <1>1, <1>2
<1>4. /\ MulStep(p, k, c) \in DigitStep
      /\ MulStep(p, k, c).d + MP_RADIX * MulStep(p, k, c).carry = p.hi * MP_RADIX + p.lo + k + c
    BY <1>1, <1>3, MulStepIs
<1> QED BY <1>1, <1>4 DEF p

(* The loop of MulDigits, unfolded. *)
LEMMA MulRun ==
    ASSUME NEW a \in Seq(Digit), NEW b \in Digit, NEW c \in Seq(Digit)
    PROVE  \E r : /\ \A i \in 0 .. Len(a) + 1 : r[i] \in DigitStep
                  /\ r[0].carry = 0
                  /\ \A i \in 1 .. Len(a) :
                       r[i] = MulStep(MP_MUL_DxD(At(a, i), b), r[i - 1].carry, At(c, i))
                  /\ r[Len(a) + 1].d = r[Len(a)].carry
                  /\ MulDigits(a, b, c) = DigitsFrom(r, Len(a) + 1)
<1> DEFINE n == Len(a)
           first == [d |-> 0, carry |-> 0]
           Body(h) == [i \in 0 .. n + 1 |->
                         CASE i = 0 -> first
                           [] i \in 1 .. n ->
                                MulStep(MP_MUL_DxD(a[i], b), h[i - 1].carry, At(c, i))
                           [] OTHER -> [d |-> h[i - 1].carry, carry |-> 0]]
           r == CHOOSE h : h = Body(h)
           Step(v, i) == IF i \in 1 .. n THEN MulStep(MP_MUL_DxD(At(a, i), b), v.carry, At(c, i))
                         ELSE [d |-> v.carry, carry |-> 0]
           g == [v \in DigitStep \X Nat |-> Step(v[1], v[2])]
<1>0. n \in Nat OBVIOUS
<1>1. first \in DigitStep BY RadixIs DEF DigitStep
<1>2. ASSUME NEW v \in DigitStep, NEW i \in Nat PROVE Step(v, i) \in DigitStep
    <2>1. At(a, i) \in Digit /\ At(c, i) \in Digit
        <3>1. i \in Int OBVIOUS
        <3> QED BY <3>1, AtIs
    <2>2. v.carry \in Digit /\ 0 \in Digit BY RadixIs DEF DigitStep
    <2>3. MulStep(MP_MUL_DxD(At(a, i), b), v.carry, At(c, i)) \in DigitStep
        BY <2>1, <2>2, MulDigitIs
    <2>4. [d |-> v.carry, carry |-> 0] \in DigitStep BY <2>2 DEF DigitStep
    <2> QED BY <2>3, <2>4
<1>3. g \in [DigitStep \X Nat -> DigitStep]
    <2> HIDE DEF Step
    <2>1. ASSUME NEW v \in DigitStep \X Nat PROVE Step(v[1], v[2]) \in DigitStep
        <3>1. v[1] \in DigitStep /\ v[2] \in Nat OBVIOUS
        <3> QED BY <1>2, <3>1
    <2> QED BY <2>1
<1>4. \A v \in DigitStep, i \in Nat : g[<<v, i>>] = Step(v, i)
    <2> HIDE DEF Step
    <2> QED OBVIOUS
<1> HIDE DEF g
<1>5. n + 1 \in Nat BY <1>0
<1>6. PICK h \in [0 .. n + 1 -> DigitStep] : RecursesUpto(h, first, g, n + 1)
    <2> HIDE DEF n, first
    <2> QED BY <1>1, <1>3, <1>5, UptoRecursion
<1>7. ASSUME NEW i \in 0 .. n + 1
      PROVE  h[i] = IF i = 0 THEN first ELSE Step(h[i - 1], i)
    <2> HIDE DEF n, first, Step
    <2>1. CASE i = 0 BY <1>6, <2>1 DEF RecursesUpto
    <2>2. CASE i # 0
        <3>1. i \in Nat /\ i - 1 \in 0 .. n + 1 BY <1>0, <2>2
        <3>2. h[i] = g[<<h[i - 1], i>>] BY <1>6, <2>2 DEF RecursesUpto
        <3>3. h[i - 1] \in DigitStep BY <1>6, <3>1
        <3> QED BY <1>4, <2>2, <3>1, <3>2, <3>3
    <2> QED BY <2>1, <2>2
<1>8. ASSUME NEW f, NEW i \in 0 .. n + 1
      PROVE  (CASE i = 0 -> first
                [] i \in 1 .. n -> MulStep(MP_MUL_DxD(a[i], b), f[i - 1].carry, At(c, i))
                [] OTHER -> [d |-> f[i - 1].carry, carry |-> 0])
               = IF i = 0 THEN first ELSE Step(f[i - 1], i)
    <2> HIDE DEF first
    <2>1. CASE i = 0
        <3>1. i \notin 1 .. n BY <2>1
        <3> QED BY <2>1, <3>1
    <2>2. CASE i \in 1 .. n
        <3>1. i # 0 BY <2>2
        <3>2. At(a, i) = a[i] BY <2>2 DEF At
        <3> QED BY <2>2, <3>1, <3>2
    <2>3. CASE i # 0 /\ i \notin 1 .. n BY <2>3
    <2> QED BY <2>1, <2>2, <2>3
<1>9. h = Body(h)
    <2> DEFINE s == Body(h)
    <2>1. \A i \in 0 .. n + 1 : s[i] = IF i = 0 THEN first ELSE Step(h[i - 1], i) BY <1>8
    <2>2. DOMAIN s = 0 .. n + 1 /\ s = [i \in 0 .. n + 1 |-> s[i]] OBVIOUS
    <2> HIDE DEF s, Step, first, n
    <2>3. \A i \in 0 .. n + 1 : h[i] = s[i] BY <1>7, <2>1
    <2>4. h = s BY <2>2, <2>3
    <2> QED BY <2>4 DEF s, Step, first, n
<1>10. r = Body(r) BY <1>9
<1>11. MulDigits(a, b, c) = DigitsFrom(r, n + 1) BY DEF MulDigits, DigitsFrom, first
<1> HIDE DEF r
<1>12. \A i \in 0 .. n + 1 : r[i] = IF i = 0 THEN first ELSE Step(r[i - 1], i)
    <2> DEFINE s == Body(r)
    <2>1. \A i \in 0 .. n + 1 : s[i] = IF i = 0 THEN first ELSE Step(r[i - 1], i) BY <1>8
    <2>2. r = s BY <1>10
    <2> HIDE DEF s, Step, first, n
    <2> QED BY <2>1, <2>2
<1> HIDE DEF Body
<1> DEFINE P == {i \in Nat : r[i] \in DigitStep}
<1>13. 0 \in P
    <2>1. 0 \in 0 .. n + 1 BY <1>0
    <2> HIDE DEF Step, n, first
    <2>2. r[0] = first BY <1>12, <2>1
    <2> QED BY <1>1, <2>2
<1>14. ASSUME NEW i \in 0 .. (n + 1) - 1, i \in P PROVE i + 1 \in P
    <2> HIDE DEF Step, first, n
    <2>1. i + 1 \in 0 .. n + 1 /\ i + 1 \in Nat /\ (i + 1) - 1 = i /\ i + 1 # 0 BY <1>0
    <2>2. r[i + 1] = Step(r[i], i + 1) BY <1>12, <2>1
    <2> QED BY <1>2, <1>14, <2>1, <2>2
<1> HIDE DEF P
<1>15. \A i \in 0 .. n + 1 : i \in P
    <2> HIDE DEF n
    <2> QED BY <1>5, <1>13, <1>14, UptoInduct
<1>16. \A i \in 0 .. n + 1 : r[i] \in DigitStep BY <1>15 DEF P
<1>17. r[0].carry = 0
    <2>1. 0 \in 0 .. n + 1 BY <1>0
    <2> HIDE DEF Step, n
    <2>2. r[0] = first BY <1>12, <2>1
    <2> QED BY <2>2
<1>18. ASSUME NEW i \in 1 .. n
       PROVE  r[i] = MulStep(MP_MUL_DxD(At(a, i), b), r[i - 1].carry, At(c, i))
    <2>1. i \in 0 .. n + 1 /\ i # 0 BY <1>0
    <2>2. Step(r[i - 1], i) = MulStep(MP_MUL_DxD(At(a, i), b), r[i - 1].carry, At(c, i))
        OBVIOUS
    <2> HIDE DEF Step, n, first
    <2> QED BY <1>12, <2>1, <2>2
<1>19. r[n + 1].d = r[n].carry
    <2>1. n + 1 \in 0 .. n + 1 /\ n + 1 # 0 /\ (n + 1) - 1 = n /\ n + 1 \notin 1 .. n BY <1>0
    <2>2. Step(r[n], n + 1) = [d |-> r[n].carry, carry |-> 0] BY <2>1
    <2> HIDE DEF Step, n, first
    <2>3. r[n + 1] = Step(r[n], n + 1) BY <1>12, <2>1
    <2> QED BY <2>2, <2>3
<1> QED BY <1>11, <1>16, <1>17, <1>18, <1>19

(* The digits of c + a * b, as far as a goes. *)
LEMMA MulDigitsIs ==
    ASSUME NEW a \in Seq(Digit), NEW b \in Digit, NEW c \in Seq(Digit)
    PROVE  /\ MulDigits(a, b, c) \in Seq(Digit) /\ Len(MulDigits(a, b, c)) = Len(a) + 1
           /\ MagnitudeOf(MulDigits(a, b, c)) = MagnitudeOf(a) * b + Part(c, Len(a))
<1> DEFINE n == Len(a)
<1>0. n \in Nat /\ n + 1 \in Nat OBVIOUS
<1>1. PICK r : /\ \A i \in 0 .. n + 1 : r[i] \in DigitStep
               /\ r[0].carry = 0
               /\ \A i \in 1 .. n : r[i] = MulStep(MP_MUL_DxD(At(a, i), b), r[i - 1].carry, At(c, i))
               /\ r[n + 1].d = r[n].carry
               /\ MulDigits(a, b, c) = DigitsFrom(r, n + 1)
    BY MulRun
<1> HIDE DEF n
<1> DEFINE s == DigitsFrom(r, n + 1)
<1>2. \A i \in 0 .. n + 1 : r[i].d \in Digit /\ r[i].carry \in Digit BY <1>1 DEF DigitStep
<1>3. s \in Seq(Digit) /\ Len(s) = n + 1 /\ \A i \in 1 .. n + 1 : At(s, i) = r[i].d
    <2>1. \A i \in 1 .. n + 1 : r[i].d \in Digit BY <1>0, <1>2
    <2> QED BY <1>0, <2>1, DigitsFromIs
<1> HIDE DEF s
<1> DEFINE P == {i \in Nat : Part(s, i) + r[i].carry * Weight(i) = Part(a, i) * b + Part(c, i)}
<1>4. 0 \in P
    <2>1. Part(s, 0) = 0 /\ Part(a, 0) = 0 /\ Part(c, 0) = 0 BY <1>3, PartIs
    <2>2. r[0].carry * Weight(0) = 0 BY <1>1, WeightIs
    <2>3. 0 * b = 0 BY DigitInt
    <2> QED BY <2>1, <2>2, <2>3
<1>5. ASSUME NEW i \in 0 .. n - 1, i \in P PROVE i + 1 \in P
    <2> DEFINE w == Weight(i)
               u == At(a, i + 1)
               v == At(c, i + 1)
               d == r[i + 1].d
               k == r[i].carry
               e == r[i + 1].carry
               R == MP_RADIX
               As == Part(a, i)
               Cs == Part(c, i)
               Ss == Part(s, i)
    <2>1. i \in Nat /\ i + 1 \in 1 .. n + 1 /\ i + 1 \in 1 .. n /\ i + 1 \in Int
          /\ (i + 1) - 1 = i /\ i \in 0 .. n + 1 /\ i + 1 \in 0 .. n + 1
        BY <1>0
    <2>2. /\ Part(a, i + 1) = As + u * w /\ As \in Nat
          /\ Part(c, i + 1) = Cs + v * w /\ Cs \in Nat
          /\ Part(s, i + 1) = Ss + At(s, i + 1) * w /\ Ss \in Nat
        BY <1>3, <2>1, PartIs
    <2>3. w \in Nat /\ Weight(i + 1) = R * w BY <2>1, WeightIs
    <2>4. u \in Digit /\ v \in Digit BY <2>1, AtIs
    <2>5. k \in Digit /\ d \in Digit /\ e \in Digit BY <1>2, <2>1
    <2>6. r[i + 1] = MulStep(MP_MUL_DxD(u, b), k, v) BY <1>1, <2>1
    <2>7. d + R * e = u * b + k + v
        <3> HIDE DEF u, v, k
        <3> QED BY <2>4, <2>5, <2>6, MulDigitIs
    <2>8. At(s, i + 1) = d BY <1>3, <2>1
    <2>9. Ss + k * w = As * b + Cs BY <1>5
    <2>10. u \in Nat /\ v \in Nat /\ k \in Nat /\ d \in Nat /\ e \in Nat /\ R \in Nat /\ b \in Nat
        BY <2>4, <2>5, DigitInt, RadixIs
    <2>11. SUFFICES Part(s, i + 1) + e * Weight(i + 1) = Part(a, i + 1) * b + Part(c, i + 1)
        BY <2>1
    <2> HIDE DEF w, u, v, d, k, e, R, As, Cs, Ss
    <2>12. (d + R * e) * w = (u * b + k + v) * w BY <2>7
    <2>13. (d + R * e) * w = d * w + e * (R * w) BY <2>3, <2>10
    <2>14. (u * b + k + v) * w = (u * w) * b + k * w + v * w BY <2>3, <2>10
    <2>15. (As + u * w) * b = As * b + (u * w) * b BY <2>2, <2>3, <2>10
    <2> DEFINE dw == d * w
               ew == e * (R * w)
               ub == (u * w) * b
               kw == k * w
               vw == v * w
               ab == As * b
               f == e * Weight(i + 1)
               t == Part(a, i + 1) * b
    <2>16. dw \in Nat /\ ew \in Nat /\ ub \in Nat /\ kw \in Nat /\ vw \in Nat /\ ab \in Nat
        BY <2>2, <2>3, <2>10
    <2>17. dw + ew = ub + kw + vw BY <2>12, <2>13, <2>14
    <2>18. f = ew BY <2>3
    <2>19. t = ab + ub BY <2>2, <2>15
    <2>20. Part(s, i + 1) = Ss + dw /\ Part(c, i + 1) = Cs + vw /\ Ss + kw = ab + Cs
        BY <2>2, <2>8, <2>9
    <2> HIDE DEF dw, ew, ub, kw, vw, ab, f, t
    <2>21. (Ss + dw) + ew = (ab + ub) + (Cs + vw) BY <2>2, <2>16, <2>17, <2>20
    <2>22. Part(s, i + 1) + f = t + Part(c, i + 1) BY <2>18, <2>19, <2>20, <2>21
    <2> QED BY <2>22 DEF f, t
<1> HIDE DEF P
<1>6. \A i \in 0 .. n : i \in P BY <1>0, <1>4, <1>5, UptoInduct
<1>7. Part(s, n) + r[n].carry * Weight(n) = Part(a, n) * b + Part(c, n)
    <2>1. n \in P BY <1>0, <1>6
    <2> QED BY <2>1 DEF P
<1>8. Part(s, n + 1) = Part(s, n) + r[n].carry * Weight(n)
    <2>1. Part(s, n + 1) = Part(s, n) + At(s, n + 1) * Weight(n) BY <1>0, <1>3, PartIs
    <2>2. At(s, n + 1) = r[n].carry
        <3>1. n + 1 \in 1 .. n + 1 BY <1>0
        <3> QED BY <1>1, <1>3, <3>1
    <2> QED BY <2>1, <2>2
<1>9. Part(s, n + 1) = MagnitudeOf(s) /\ Part(a, n) = MagnitudeOf(a)
    <2>1. n + 1 >= Len(s) /\ n >= Len(a) BY <1>0, <1>3 DEF n
    <2> QED BY <1>0, <1>3, <2>1, MagnitudeIs
<1>10. MagnitudeOf(s) = MagnitudeOf(a) * b + Part(c, n) BY <1>7, <1>8, <1>9
<1> QED BY <1>1, <1>3, <1>10 DEF s, n
-----------------------------------------------------------------------------
(* Products of numbers *)

LEMMA LessTimes ==
    ASSUME NEW a \in Nat, NEW b \in Nat, NEW c \in Nat, NEW d \in Nat
    PROVE  /\ a <= c /\ b <= d => a * b <= c * d
           /\ a < c /\ b < d => a * b < c * d
<1>1. ASSUME a <= c, b <= d PROVE a * b <= c * d
    <2>1. a * b <= c * b BY <1>1
    <2>2. c * b <= c * d BY <1>1
    <2> QED BY <2>1, <2>2
<1>2. ASSUME a < c, b < d PROVE a * b < c * d
    <2>1. a <= c - 1 /\ b <= d - 1 /\ c - 1 \in Nat /\ d - 1 \in Nat BY <1>2
    <2> DEFINE e == c - 1
               f == d - 1
    <2>2. e \in Nat /\ f \in Nat /\ a <= e /\ b <= f /\ c = e + 1 /\ d = f + 1 BY <2>1
    <2> HIDE DEF e, f
    <2>3. a * b <= e * b BY <2>2
    <2>4. e * b <= e * f BY <2>2
    <2>5. (e + 1) * (f + 1) = e * f + e + f + 1 BY <2>2
    <2> DEFINE ef == e * f
               ab == a * b
               eb == e * b
    <2>6. ef \in Nat /\ ab \in Nat /\ eb \in Nat BY <2>2
    <2> HIDE DEF ef, ab, eb
    <2>7. ab < ef + e + f + 1 BY <2>2, <2>3, <2>4, <2>6 DEF ef, ab, eb
    <2>8. c * d = ef + e + f + 1 BY <2>2, <2>5 DEF ef
    <2> QED BY <2>7, <2>8 DEF ab
<1> QED BY <1>1, <1>2

(* The digits above the first k. *)
LEMMA SuffixIs ==
    ASSUME NEW dp \in Seq(Digit), NEW k \in 0 .. Len(dp)
    PROVE  /\ SubSeq(dp, k + 1, Len(dp)) \in Seq(Digit)
           /\ Len(SubSeq(dp, k + 1, Len(dp))) = Len(dp) - k
           /\ \A i \in Nat \ {0} : At(SubSeq(dp, k + 1, Len(dp)), i) = At(dp, k + i)
           /\ MagnitudeOf(dp)
                = Part(dp, k) + Weight(k) * MagnitudeOf(SubSeq(dp, k + 1, Len(dp)))
<1> DEFINE n == Len(dp)
           s == SubSeq(dp, k + 1, n)
           p == SubSeq(dp, 1, k)
<1>0. n \in Nat /\ k \in Nat /\ k <= n OBVIOUS
<1>1. s \in Seq(Digit) /\ Len(s) = n - k /\ \A i \in 1 .. n - k : s[i] = dp[k + i]
    <2>1. k + 1 \in Int /\ n \in Int /\ k + 1 > 0 /\ k + 1 <= n + 1 BY <1>0
    <2>2. \A i \in k + 1 .. n : dp[i] \in Digit BY <1>0
    <2>3. s = [i \in 1 .. n - k |-> dp[k + i]]
        <3>1. IF k + 1 <= n THEN (n - (k + 1)) + 1 = n - k ELSE n - k = 0 BY <1>0
        <3> QED BY <1>0, <3>1
    <2>4. \A i \in 1 .. n - k : dp[k + i] \in Digit BY <1>0, <2>2
    <2> HIDE DEF s, n
    <2> QED BY <1>0, <2>3, <2>4
<1>2. ASSUME NEW i \in Nat \ {0} PROVE At(s, i) = At(dp, k + i)
    <2>1. CASE i <= n - k
        <3>1. i \in 1 .. Len(s) /\ k + i \in 1 .. n BY <1>0, <1>1, <2>1
        <3>2. s[i] = dp[k + i] BY <1>0, <1>1, <2>1
        <3> HIDE DEF s
        <3> QED BY <3>1, <3>2 DEF At
    <2>2. CASE i > n - k
        <3>1. i \notin 1 .. Len(s) /\ k + i \notin 1 .. n BY <1>0, <1>1, <2>2
        <3> HIDE DEF s
        <3> QED BY <3>1 DEF At
    <2> QED BY <1>0, <2>1, <2>2
<1>3. p \in Seq(Digit) /\ Len(p) = k /\ \A i \in Int : At(p, i) = IF i <= k THEN At(dp, i) ELSE 0
    BY PrefixIs
<1> HIDE DEF s, p
<1>4. MagnitudeOf(p) = Part(dp, k)
    <2>1. Part(p, k) = MagnitudeOf(p) BY <1>0, <1>3, MagnitudeIs
    <2>2. \A i \in 1 .. k : At(p, i) = At(dp, i) BY <1>0, <1>3
    <2> QED BY <1>0, <1>3, <2>1, <2>2, PartSame
<1>5. MagnitudeOf(p \o s) = MagnitudeOf(p) + Weight(k) * MagnitudeOf(s)
    BY <1>1, <1>3, ConcatIs
<1>6. MagnitudeOf(p \o s) = MagnitudeOf(dp)
    <2>1. p \o s \in Seq(Digit) BY <1>1, <1>3
    <2>2. ASSUME NEW i \in Nat \ {0} PROVE At(p \o s, i) = At(dp, i)
        <3>1. At(p \o s, i) = IF i <= k THEN At(p, i) ELSE At(s, i - k) BY <1>1, <1>3, ConcatIs
        <3>2. CASE i <= k BY <1>3, <3>1, <3>2
        <3>3. CASE i > k
            <4>1. i - k \in Nat \ {0} /\ k + (i - k) = i /\ ~(i <= k) BY <1>0, <3>3
            <4>2. At(s, i - k) = At(dp, i) BY <1>2, <4>1
            <4> QED BY <3>1, <4>1, <4>2
        <3> QED BY <1>0, <3>2, <3>3
    <2> QED BY <2>1, <2>2, SameMagnitude
<1> QED BY <1>1, <1>2, <1>4, <1>5, <1>6 DEF s

(* A small number has no digits high up. *)
LEMMA NoDigitAbove ==
    ASSUME NEW dp \in Seq(Digit), NEW k \in Nat, MagnitudeOf(dp) < Weight(k)
    PROVE  \A i \in Nat : i > k => At(dp, i) = 0
<1> SUFFICES ASSUME NEW i \in Nat, i > k, At(dp, i) # 0 PROVE FALSE OBVIOUS
<1> DEFINE j == i - 1
           n == IF i > Len(dp) THEN i ELSE Len(dp)
<1>1. j \in Nat /\ j + 1 = i /\ k <= j /\ i \in Nat /\ i \in Int OBVIOUS
<1>2. At(dp, i) \in Digit BY <1>1, AtIs
<1>3. At(dp, i) \in Nat /\ At(dp, i) >= 1 BY <1>2, DigitInt
<1>4. Part(dp, i) = Part(dp, j) + At(dp, i) * Weight(j) /\ Part(dp, j) \in Nat BY <1>1, PartIs
<1>5. Weight(k) <= Weight(j) /\ Weight(j) \in Nat /\ Weight(k) \in Nat BY <1>1, WeightMono, WeightIs
<1>6. Part(dp, i) >= Weight(j)
    <2> DEFINE w == Weight(j)
               a == At(dp, i)
    <2>1. w \in Nat /\ a \in Nat /\ a >= 1 BY <1>3, <1>5
    <2> HIDE DEF w, a
    <2>2. a * w >= w BY <2>1
    <2>3. a * w \in Nat BY <2>1
    <2> QED BY <1>4, <2>1, <2>2, <2>3 DEF w, a
<1>7. MagnitudeOf(dp) >= Part(dp, i)
    <2>1. CASE i > Len(dp)
        <3>1. i >= Len(dp) BY <2>1
        <3>2. Part(dp, i) = MagnitudeOf(dp) BY <3>1, MagnitudeIs
        <3>3. MagnitudeOf(dp) \in Nat BY MagnitudeIs
        <3> QED BY <3>2, <3>3
    <2>2. CASE i <= Len(dp)
        <3>1. i \in 0 .. Len(dp) BY <2>2
        <3> DEFINE s == SubSeq(dp, i + 1, Len(dp))
        <3>2. s \in Seq(Digit) /\ MagnitudeOf(dp) = Part(dp, i) + Weight(i) * MagnitudeOf(s)
            BY <3>1, SuffixIs
        <3> HIDE DEF s
        <3>3. MagnitudeOf(s) \in Nat BY <3>2, MagnitudeIs
        <3>4. Weight(i) \in Nat /\ Part(dp, i) \in Nat BY PartIs, WeightIs
        <3>5. Weight(i) * MagnitudeOf(s) \in Nat BY <3>3, <3>4
        <3> QED BY <3>2, <3>4, <3>5
    <2> QED BY <2>1, <2>2
<1>8. MagnitudeOf(dp) \in Nat /\ Part(dp, i) \in Nat BY MagnitudeIs, PartIs
<1> QED BY <1>5, <1>6, <1>7, <1>8

LEMMA NormalFrom ==
    ASSUME NEW dp \in Seq(Digit), dp # <<>>, Len(dp) > 1 => MagnitudeOf(dp) >= Weight(Len(dp) - 1)
    PROVE  Normal(dp)
<1>1. SUFFICES ASSUME Len(dp) > 1, Top(dp) = 0 PROVE FALSE BY DEF Normal
<1> DEFINE n == Len(dp) - 1
<1>2. n \in Nat /\ n + 1 = Len(dp) /\ n + 1 \in 1 .. Len(dp) /\ n + 1 \in Nat BY <1>1
<1>3. At(dp, n + 1) = 0 BY <1>1, <1>2 DEF At, Top
<1>4. Part(dp, n + 1) = Part(dp, n) + 0 * Weight(n) /\ Part(dp, n) < Weight(n) /\ Part(dp, n) \in Nat
    BY <1>2, <1>3, PartIs
<1>5. Weight(n) \in Nat BY <1>2, WeightIs
<1>6. 0 * Weight(n) = 0 BY <1>5
<1>7. Part(dp, n + 1) = MagnitudeOf(dp)
    <2>1. n + 1 >= Len(dp) BY <1>2
    <2> QED BY <1>2, <2>1, MagnitudeIs
<1>8. MagnitudeOf(dp) >= Weight(n) BY <1>1
<1> QED BY <1>4, <1>5, <1>6, <1>7, <1>8

(* The loop that adds a multiple of a to c, with room above a. *)
LEMMA MulAddIs ==
    ASSUME NEW a \in Seq(Digit), NEW b \in Digit, NEW c \in Seq(Digit),
           Len(c) >= Len(a) + 1, At(c, Len(a) + 1) = 0
    PROVE  /\ s_mpv_mul_d_add(a, b, c) \in Seq(Digit) /\ Len(s_mpv_mul_d_add(a, b, c)) = Len(c)
           /\ MagnitudeOf(s_mpv_mul_d_add(a, b, c)) = MagnitudeOf(a) * b + MagnitudeOf(c)
<1> DEFINE n == Len(a)
           m == MulDigits(a, b, c)
           s == SubSeq(c, (n + 1) + 1, Len(c))
<1>0. n \in Nat /\ n + 1 \in 0 .. Len(c) /\ (n + 1) + 1 = n + 2 /\ n + 1 \in Nat OBVIOUS
<1>1. m \in Seq(Digit) /\ Len(m) = n + 1 /\ MagnitudeOf(m) = MagnitudeOf(a) * b + Part(c, n)
    BY MulDigitsIs
<1>2. s \in Seq(Digit) /\ Len(s) = Len(c) - (n + 1)
      /\ MagnitudeOf(c) = Part(c, n + 1) + Weight(n + 1) * MagnitudeOf(s)
    BY <1>0, SuffixIs
<1>3. Part(c, n + 1) = Part(c, n)
    <2>1. Part(c, n + 1) = Part(c, n) + 0 * Weight(n) /\ Part(c, n) \in Nat BY <1>0, PartIs
    <2>2. Weight(n) \in Nat BY <1>0, WeightIs
    <2>3. 0 * Weight(n) = 0 BY <2>2
    <2> QED BY <2>1, <2>3
<1>4. s_mpv_mul_d_add(a, b, c) = m \o s BY <1>0 DEF s_mpv_mul_d_add
<1> HIDE DEF m, s, n
<1>5. m \o s \in Seq(Digit) /\ Len(m \o s) = Len(m) + Len(s)
      /\ MagnitudeOf(m \o s) = MagnitudeOf(m) + Weight(Len(m)) * MagnitudeOf(s)
    BY <1>1, <1>2, ConcatIs
<1>6. Len(m) + Len(s) = Len(c)
    <2>1. Len(c) \in Nat OBVIOUS
    <2> QED BY <1>0, <1>1, <1>2, <2>1
<1>7. MagnitudeOf(m \o s) = MagnitudeOf(a) * b + MagnitudeOf(c)
    <2> DEFINE ab == MagnitudeOf(a) * b
               ws == Weight(n + 1) * MagnitudeOf(s)
               p == Part(c, n)
    <2>1. ab \in Nat
        <3>1. MagnitudeOf(a) \in Nat /\ b \in Nat BY MagnitudeIs, DigitInt
        <3> QED BY <3>1
    <2>2. ws \in Nat
        <3>1. MagnitudeOf(s) \in Nat BY <1>2, MagnitudeIs
        <3>2. Weight(n + 1) \in Nat BY <1>0, WeightIs
        <3> QED BY <3>1, <3>2
    <2>3. p \in Nat BY <1>0, PartIs
    <2>4. MagnitudeOf(m \o s) = (ab + p) + ws /\ MagnitudeOf(c) = p + ws
        BY <1>1, <1>2, <1>3, <1>5
    <2> HIDE DEF ab, ws, p
    <2>5. MagnitudeOf(m \o s) = ab + MagnitudeOf(c) BY <2>1, <2>2, <2>3, <2>4
    <2> QED BY <2>5 DEF ab
<1> QED BY <1>4, <1>5, <1>6, <1>7

(* A row of a product: a multiple of a added at the digit k. *)
AddedAt(row, k, t) == SubSeq(row, 1, k) \o t

LEMMA AddedAtIs ==
    ASSUME NEW row \in Seq(Digit), NEW k \in 0 .. Len(row), NEW t \in Seq(Digit)
    PROVE  /\ AddedAt(row, k, t) \in Seq(Digit) /\ Len(AddedAt(row, k, t)) = k + Len(t)
           /\ MagnitudeOf(AddedAt(row, k, t)) = Part(row, k) + Weight(k) * MagnitudeOf(t)
<1> DEFINE p == SubSeq(row, 1, k)
<1>0. k \in Nat OBVIOUS
<1>1. p \in Seq(Digit) /\ Len(p) = k /\ \A i \in Int : At(p, i) = IF i <= k THEN At(row, i) ELSE 0
    BY PrefixIs
<1> HIDE DEF p
<1>2. MagnitudeOf(p) = Part(row, k)
    <2>1. Part(p, k) = MagnitudeOf(p) BY <1>0, <1>1, MagnitudeIs
    <2>2. \A i \in 1 .. k : At(p, i) = At(row, i) BY <1>0, <1>1
    <2> QED BY <1>0, <1>1, <2>1, <2>2, PartSame
<1>3. p \o t \in Seq(Digit) /\ Len(p \o t) = k + Len(t)
      /\ MagnitudeOf(p \o t) = MagnitudeOf(p) + Weight(k) * MagnitudeOf(t)
    BY <1>1, ConcatIs
<1> QED BY <1>2, <1>3 DEF AddedAt, p

LEMMA RowIs ==
    ASSUME NEW row \in Seq(Digit), NEW k \in Nat, NEW a \in Seq(Digit), NEW b \in Digit,
           k + Len(a) + 1 <= Len(row), MagnitudeOf(row) < Weight(k + Len(a))
    PROVE  LET upper == SubSeq(row, k + 1, Len(row))
               r == AddedAt(row, k, s_mpv_mul_d_add(a, b, upper))
           IN  /\ upper \in Seq(Digit) /\ Len(upper) = Len(row) - k /\ At(upper, Len(a) + 1) = 0
               /\ AddedAt(row, k, upper) \in Seq(Digit) /\ Len(AddedAt(row, k, upper)) = Len(row)
               /\ MagnitudeOf(AddedAt(row, k, upper)) = MagnitudeOf(row)
               /\ r \in Seq(Digit) /\ Len(r) = Len(row)
               /\ MagnitudeOf(r) = MagnitudeOf(row) + Weight(k) * (MagnitudeOf(a) * b)
<1> DEFINE n == Len(a)
           upper == SubSeq(row, k + 1, Len(row))
           t == s_mpv_mul_d_add(a, b, upper)
<1>0. n \in Nat /\ k \in 0 .. Len(row) /\ n + 1 \in Nat \ {0} /\ Len(row) \in Nat
      /\ Len(row) - k >= n + 1 /\ k + (n + 1) \in Nat /\ k + (n + 1) > k + n /\ k + n \in Nat
    OBVIOUS
<1>1. /\ upper \in Seq(Digit) /\ Len(upper) = Len(row) - k
      /\ \A i \in Nat \ {0} : At(upper, i) = At(row, k + i)
      /\ MagnitudeOf(row) = Part(row, k) + Weight(k) * MagnitudeOf(upper)
    BY <1>0, SuffixIs
<1> HIDE DEF upper
<1>2. At(upper, n + 1) = 0
    <2>1. At(row, k + (n + 1)) = 0 BY <1>0, NoDigitAbove
    <2> QED BY <1>0, <1>1, <2>1
<1>3. t \in Seq(Digit) /\ Len(t) = Len(upper) /\ MagnitudeOf(t) = MagnitudeOf(a) * b + MagnitudeOf(upper)
    BY <1>0, <1>1, <1>2, MulAddIs
<1> HIDE DEF t
<1>4. /\ AddedAt(row, k, upper) \in Seq(Digit) /\ Len(AddedAt(row, k, upper)) = k + Len(upper)
      /\ MagnitudeOf(AddedAt(row, k, upper)) = Part(row, k) + Weight(k) * MagnitudeOf(upper)
    BY <1>0, <1>1, AddedAtIs
<1>5. /\ AddedAt(row, k, t) \in Seq(Digit) /\ Len(AddedAt(row, k, t)) = k + Len(t)
      /\ MagnitudeOf(AddedAt(row, k, t)) = Part(row, k) + Weight(k) * MagnitudeOf(t)
    BY <1>0, <1>3, AddedAtIs
<1>6. k + Len(upper) = Len(row) BY <1>0, <1>1
<1>7. Part(row, k) + Weight(k) * MagnitudeOf(t)
        = MagnitudeOf(row) + Weight(k) * (MagnitudeOf(a) * b)
    <2> DEFINE w == Weight(k)
               m == MagnitudeOf(a) * b
               u == MagnitudeOf(upper)
               p == Part(row, k)
    <2>1. m \in Nat
        <3>1. MagnitudeOf(a) \in Nat /\ b \in Nat BY MagnitudeIs, DigitInt
        <3> QED BY <3>1
    <2>2. w \in Nat /\ p \in Nat BY PartIs, WeightIs
    <2>3. u \in Nat BY <1>1, MagnitudeIs
    <2> HIDE DEF w, m, u, p
    <2>4. w * (m + u) = w * m + w * u /\ w * m \in Nat /\ w * u \in Nat BY <2>1, <2>2, <2>3
    <2>5. MagnitudeOf(t) = m + u /\ MagnitudeOf(row) = p + w * u BY <1>1, <1>3 DEF m, u, w, p
    <2> DEFINE wm == w * m
               wu == w * u
    <2>6. wm \in Nat /\ wu \in Nat /\ w * MagnitudeOf(t) = wm + wu /\ MagnitudeOf(row) = p + wu
        BY <2>4, <2>5
    <2> HIDE DEF wm, wu
    <2>7. p + w * MagnitudeOf(t) = MagnitudeOf(row) + wm BY <2>2, <2>6
    <2> QED BY <2>7 DEF wm, w, m, p
<1> QED BY <1>1, <1>2, <1>3, <1>4, <1>5, <1>6, <1>7 DEF upper, t, n

(* The rows of a product, one for each digit of the shorter number. *)
LEMMA MulRowIs ==
    ASSUME NEW row \in Seq(Digit), NEW long \in Seq(Digit), NEW d \in Digit,
           NEW i \in Nat \ {0}, (i - 1) + Len(long) + 1 <= Len(row),
           MagnitudeOf(row) < Weight((i - 1) + Len(long))
    PROVE  /\ MulRow(row, long, d, i) \in Seq(Digit)
           /\ Len(MulRow(row, long, d, i)) = Len(row)
           /\ MagnitudeOf(MulRow(row, long, d, i))
                = MagnitudeOf(row) + Weight(i - 1) * (MagnitudeOf(long) * d)
<1> DEFINE k == i - 1
           n == Len(long)
           upper == SubSeq(row, k + 1, Len(row))
           t == s_mpv_mul_d_add(long, d, upper)
<1>0. k \in Nat /\ k + 1 = i /\ n \in Nat /\ Len(row) \in Nat OBVIOUS
<1>1. /\ upper \in Seq(Digit) /\ Len(upper) = Len(row) - k /\ At(upper, n + 1) = 0
      /\ AddedAt(row, k, upper) \in Seq(Digit) /\ Len(AddedAt(row, k, upper)) = Len(row)
      /\ MagnitudeOf(AddedAt(row, k, upper)) = MagnitudeOf(row)
      /\ AddedAt(row, k, t) \in Seq(Digit) /\ Len(AddedAt(row, k, t)) = Len(row)
      /\ MagnitudeOf(AddedAt(row, k, t)) = MagnitudeOf(row) + Weight(k) * (MagnitudeOf(long) * d)
    BY <1>0, RowIs
<1>2. MulRow(row, long, d, i)
        = AddedAt(row, k, IF d = 0 THEN [upper EXCEPT ![n + 1] = 0] ELSE t)
    BY <1>0 DEF MulRow, AddedAt
<1> HIDE DEF upper, t, k, n
<1>3. CASE d = 0
    <2>1. n + 1 \in 1 .. Len(upper) BY <1>0, <1>1 DEF k, n
    <2>2. upper[n + 1] = 0 BY <1>1, <2>1 DEF At
    <2>3. [upper EXCEPT ![n + 1] = 0] = upper BY <1>1, <2>1, <2>2
    <2>4. MulRow(row, long, d, i) = AddedAt(row, k, upper) BY <1>2, <1>3, <2>3
    <2>5. MagnitudeOf(row) + Weight(k) * (MagnitudeOf(long) * d) = MagnitudeOf(row)
        <3>1. MagnitudeOf(long) \in Nat /\ MagnitudeOf(row) \in Nat /\ Weight(k) \in Nat
            BY <1>0, MagnitudeIs, WeightIs
        <3>2. MagnitudeOf(long) * 0 = 0 BY <3>1
        <3>3. Weight(k) * 0 = 0 BY <3>1
        <3> QED BY <1>3, <3>1, <3>2, <3>3
    <2> QED BY <1>1, <2>4, <2>5 DEF k
<1>4. CASE d # 0
    <2>1. MulRow(row, long, d, i) = AddedAt(row, k, t) BY <1>2, <1>4
    <2> QED BY <1>1, <2>1 DEF k
<1> QED BY <1>3, <1>4

-----------------------------------------------------------------------------
(* A loop whose states stay in the sets I[i] has a run. *)
StaysIn(I, V, a, g, n) ==
    /\ a \in I[0]
    /\ \A i \in 0 .. n : I[i] \subseteq V
    /\ \A i \in 0 .. n - 1 : \A v \in I[i] : g[<<v, i + 1>>] \in I[i + 1]

LEMMA UptoStates ==
    ASSUME NEW n \in Nat, NEW V, NEW I, NEW a, NEW g, StaysIn(I, V, a, g, n)
    PROVE  \E f \in [0 .. n -> V] : RecursesUpto(f, a, g, n) /\ \A i \in 0 .. n : f[i] \in I[i]
<1>a. /\ a \in I[0]
      /\ \A i \in 0 .. n : I[i] \subseteq V
      /\ \A i \in 0 .. n - 1 : \A v \in I[i] : g[<<v, i + 1>>] \in I[i + 1]
    BY DEF StaysIn
<1> DEFINE k == [v \in V \X Nat |-> IF g[v] \in V THEN g[v] ELSE a]
<1>0. 0 \in 0 .. n /\ a \in V
    <2>1. 0 \in 0 .. n OBVIOUS
    <2> QED BY <1>a, <2>1
<1>1. k \in [V \X Nat -> V] BY <1>0
<1>2. \A v \in V, i \in Nat : k[<<v, i>>] = IF g[<<v, i>>] \in V THEN g[<<v, i>>] ELSE a
    OBVIOUS
<1> HIDE DEF k
<1>3. PICK f \in [0 .. n -> V] : RecursesUpto(f, a, k, n) BY <1>0, <1>1, UptoRecursion
<1> DEFINE P == {i \in Nat : f[i] \in I[i]}
<1>4. 0 \in P BY <1>0, <1>a, <1>3 DEF RecursesUpto
<1>5. ASSUME NEW i \in 0 .. n - 1, f[i] \in I[i]
      PROVE  f[i + 1] = g[<<f[i], i + 1>>] /\ f[i + 1] \in I[i + 1]
    <2>1. i + 1 \in 0 .. n /\ i \in 0 .. n /\ i + 1 \in Nat /\ (i + 1) - 1 = i /\ i + 1 # 0 OBVIOUS
    <2>2. f[i + 1] = k[<<f[i], i + 1>>] BY <1>3, <2>1 DEF RecursesUpto
    <2>3. f[i] \in V BY <1>3, <2>1
    <2>4. g[<<f[i], i + 1>>] \in I[i + 1] BY <1>5, <1>a
    <2>5. g[<<f[i], i + 1>>] \in V BY <1>a, <2>1, <2>4
    <2> QED BY <1>2, <2>1, <2>2, <2>3, <2>4, <2>5
<1>6. ASSUME NEW i \in 0 .. n - 1, i \in P PROVE i + 1 \in P
    <2>1. i + 1 \in Nat /\ f[i] \in I[i] BY <1>6
    <2> QED BY <1>5, <2>1
<1>7. \A i \in 0 .. n : i \in P
    <2> HIDE DEF P
    <2> QED BY <1>4, <1>6, UptoInduct
<1>8. ASSUME NEW i \in 0 .. n
      PROVE  f[i] \in I[i] /\ f[i] = IF i = 0 THEN a ELSE g[<<f[i - 1], i>>]
    <2>1. f[i] \in I[i] BY <1>7
    <2>2. CASE i = 0 BY <1>3, <2>1, <2>2 DEF RecursesUpto
    <2>3. CASE i # 0
        <3>1. i - 1 \in 0 .. n - 1 /\ (i - 1) + 1 = i /\ i - 1 \in 0 .. n BY <2>3
        <3>2. f[i - 1] \in I[i - 1] BY <1>7, <3>1
        <3>3. f[(i - 1) + 1] = g[<<f[i - 1], (i - 1) + 1>>] BY <1>5, <3>1, <3>2
        <3> QED BY <2>1, <2>3, <3>1, <3>3
    <2> QED BY <2>2, <2>3
<1> QED BY <1>8 DEF RecursesUpto

(* The loop of s_mp_mul. *)
LEMMA MulMagnitudesIs ==
    ASSUME NEW long \in Seq(Digit), NEW short \in Seq(Digit), long # <<>>, short # <<>>
    PROVE  /\ Normal(MulMagnitudes(long, short))
           /\ MagnitudeOf(MulMagnitudes(long, short)) = MagnitudeOf(long) * MagnitudeOf(short)
<1> DEFINE n == Len(long)
           m == Len(short)
           A == MagnitudeOf(long)
           first == s_mpv_mul_d(long, short[1]) \o Zeros(m - 1)
           Row(v, i) == MulRow(v, long, short[i], i)
           Body(h) == [i \in 1 .. m |-> IF i = 1 THEN first ELSE Row(h[i - 1], i)]
           c == CHOOSE h : h = Body(h)
           I == [j \in Nat |-> {r \in Seq(Digit) : Len(r) = n + m /\ MagnitudeOf(r) = A * Part(short, j + 1)}]
           g == [v \in Seq(Digit) \X Nat |-> Row(v[1], v[2] + 1)]
<1>0. n \in Nat /\ n > 0 /\ m \in Nat /\ m > 0 /\ m - 1 \in Nat /\ m - 1 >= 0 OBVIOUS
<1>a. A \in Nat /\ A < Weight(n) /\ Weight(n) \in Nat /\ Weight(n) > 0
    <2>1. A \in Nat /\ A < Weight(n) BY MagnitudeIs
    <2>2. Weight(n) \in Nat /\ Weight(n) > 0 BY <1>0, WeightIs
    <2> QED BY <2>1, <2>2
<1>1. MulMagnitudes(long, short) = s_mp_clamp(c[m]) BY DEF MulMagnitudes
<1>2. \A j \in Nat : I[j] = {r \in Seq(Digit) : Len(r) = n + m /\ MagnitudeOf(r) = A * Part(short, j + 1)}
    OBVIOUS
<1>3. first \in I[0]
    <2> DEFINE z == Zeros(m - 1)
               p == s_mpv_mul_d(long, short[1])
    <2>1. short[1] \in Digit /\ 1 \in 1 .. m BY <1>0
    <2>2. z \in Seq(Digit) /\ Len(z) = m - 1 /\ MagnitudeOf(z) = 0 BY <1>0, ZerosAre
    <2>3. p \in Seq(Digit) /\ Len(p) = n + 1 /\ MagnitudeOf(p) = A * short[1] + Part(<<>>, n)
        <3>1. p = MulDigits(long, short[1], <<>>) BY DEF s_mpv_mul_d
        <3> HIDE DEF p
        <3>2. <<>> \in Seq(Digit) OBVIOUS
        <3> QED BY <2>1, <3>1, <3>2, MulDigitsIs
    <2>4. Part(<<>>, n) = 0
        <3>1. <<>> \in Seq(Digit) /\ \A i \in 1 .. n : At(<<>>, i) = 0 BY DEF At
        <3>2. Part(<<>>, n) = Part(<<>>, 0)
            <4>1. 0 \in Nat /\ 0 <= n /\ \A i \in 0 + 1 .. n : At(<<>>, i) = 0 BY <1>0, <3>1
            <4> QED BY <1>0, <3>1, <4>1, PartEnd
        <3> QED BY <3>1, <3>2, PartIs
    <2> HIDE DEF z, p, n, m, A
    <2>5. /\ p \o z \in Seq(Digit) /\ Len(p \o z) = Len(p) + Len(z)
          /\ MagnitudeOf(p \o z) = MagnitudeOf(p) + Weight(Len(p)) * MagnitudeOf(z)
        BY <2>2, <2>3, ConcatIs
    <2>6. Len(p) + Len(z) = n + m BY <1>0, <2>2, <2>3
    <2>7. Part(short, 1) = short[1]
        <3>1. Part(short, 0 + 1) = Part(short, 0) + At(short, 0 + 1) * Weight(0) /\ Part(short, 0) = 0
            BY PartIs
        <3>2. Weight(0) = 1 BY WeightIs
        <3>3. At(short, 1) = short[1] BY <2>1 DEF At, m
        <3>4. short[1] \in Nat BY <2>1, DigitInt
        <3> QED BY <3>1, <3>2, <3>3, <3>4
    <2>8. MagnitudeOf(p \o z) = A * short[1]
        <3>1. Weight(Len(p)) \in Nat
            <4>1. Len(p) \in Nat BY <2>3
            <4> QED BY <4>1, WeightIs
        <3>2. Weight(Len(p)) * 0 = 0 BY <3>1
        <3>3. short[1] \in Nat BY <2>1, DigitInt
        <3>4. A * short[1] \in Nat BY <1>a, <3>3
        <3> QED BY <2>2, <2>3, <2>4, <2>5, <3>2, <3>4
    <2>9. 0 \in Nat /\ 0 + 1 = 1 OBVIOUS
    <2>10. first = p \o z BY DEF p, z
    <2> HIDE DEF I, first
    <2> QED BY <1>2, <2>5, <2>6, <2>7, <2>8, <2>9, <2>10
<1>4. ASSUME NEW j \in 0 .. (m - 1) - 1, NEW v \in I[j]
      PROVE  Row(v, (j + 1) + 1) \in I[j + 1]
    <2> DEFINE i == (j + 1) + 1
               d == short[i]
               P == Part(short, j + 1)
    <2>1. j \in Nat /\ j + 1 \in Nat /\ i \in 1 .. m /\ i \in Nat \ {0} /\ i - 1 = j + 1 /\ j + 1 < m
        BY <1>0
    <2>2. v \in Seq(Digit) /\ Len(v) = n + m /\ MagnitudeOf(v) = A * P BY <1>2, <2>1
    <2>3. d \in Digit /\ At(short, i) = d BY <2>1 DEF At
    <2>4. P \in Nat /\ P < Weight(j + 1) /\ Part(short, i) = P + d * Weight(j + 1)
        BY <2>1, <2>3, PartIs
    <2>5. Weight(j + 1) \in Nat /\ Weight((j + 1) + n) = Weight(j + 1) * Weight(n)
        BY <1>0, <2>1, WeightIs, WeightSum
    <2> HIDE DEF I, A, P, n, m
    <2>6. MagnitudeOf(v) < Weight((i - 1) + n)
        <3>1. P * A < Weight(j + 1) * Weight(n) BY <1>a, <2>4, <2>5, LessTimes
        <3>2. P * A = A * P BY <1>a, <2>4
        <3> QED BY <2>1, <2>2, <2>5, <3>1, <3>2
    <2>7. (i - 1) + n + 1 <= Len(v) BY <1>0, <2>1, <2>2
    <2>8. /\ Row(v, i) \in Seq(Digit) /\ Len(Row(v, i)) = Len(v)
          /\ MagnitudeOf(Row(v, i)) = MagnitudeOf(v) + Weight(i - 1) * (A * d)
        <3> HIDE DEF d, i
        <3>1. /\ MulRow(v, long, d, i) \in Seq(Digit) /\ Len(MulRow(v, long, d, i)) = Len(v)
              /\ MagnitudeOf(MulRow(v, long, d, i)) = MagnitudeOf(v) + Weight(i - 1) * (MagnitudeOf(long) * d)
            BY <2>1, <2>2, <2>3, <2>6, <2>7, MulRowIs DEF n
        <3> QED BY <3>1 DEF A, d
    <2>9. A * P + Weight(j + 1) * (A * d) = A * (P + d * Weight(j + 1))
        <3> DEFINE w == Weight(j + 1)
        <3>1. w \in Nat /\ d \in Nat BY <2>3, <2>5, DigitInt
        <3> HIDE DEF w, d
        <3>2. A * (P + d * w) = A * P + A * (d * w) BY <1>a, <2>4, <3>1
        <3>3. A * (d * w) = w * (A * d) BY <1>a, <3>1
        <3> QED BY <3>2, <3>3 DEF w
    <2>10. MagnitudeOf(Row(v, i)) = A * Part(short, i) BY <2>1, <2>2, <2>4, <2>8, <2>9
    <2> HIDE DEF Row
    <2> QED BY <1>2, <2>1, <2>2, <2>8, <2>10
<1>5. PICK h \in [0 .. m - 1 -> Seq(Digit)] :
        \A i \in 0 .. m - 1 : h[i] \in I[i] /\ h[i] = IF i = 0 THEN first ELSE g[<<h[i - 1], i>>]
    <2>1. \A i \in 0 .. m - 1 : I[i] \subseteq Seq(Digit)
        <3>1. \A i \in 0 .. m - 1 : i \in Nat OBVIOUS
        <3> HIDE DEF I
        <3> QED BY <1>2, <3>1
    <2>2. ASSUME NEW i \in 0 .. (m - 1) - 1, NEW v \in I[i] PROVE g[<<v, i + 1>>] \in I[i + 1]
        <3>1. v \in Seq(Digit) /\ i + 1 \in Nat
            <4>1. i \in 0 .. m - 1 /\ i + 1 \in Nat BY <1>0
            <4> QED BY <2>1, <4>1
        <3>2. g[<<v, i + 1>>] = Row(v, (i + 1) + 1) BY <3>1
        <3> HIDE DEF g, I, Row
        <3> QED BY <1>4, <3>2
    <2> DEFINE k == m - 1
               V == Seq(Digit)
    <2>3. k \in Nat /\ StaysIn(I, V, first, g, k)
        <3> HIDE DEF g, I, first
        <3> QED BY <1>0, <1>3, <2>1, <2>2 DEF StaysIn
    <2> HIDE DEF g, I, first, k, V
    <2>4. \E q \in [0 .. k -> V] : RecursesUpto(q, first, g, k) /\ \A i \in 0 .. k : q[i] \in I[i]
        BY <2>3, UptoStates
    <2> QED BY <2>4 DEF k, V, RecursesUpto
<1>6. \A v \in Seq(Digit), i \in Nat : g[<<v, i>>] = Row(v, i + 1) OBVIOUS
<1> DEFINE f == [i \in 1 .. m |-> h[i - 1]]
<1>7. ASSUME NEW i \in 1 .. m PROVE f[i] = IF i = 1 THEN first ELSE Row(f[i - 1], i)
    <2>1. i - 1 \in 0 .. m - 1 /\ i - 1 \in Nat /\ f[i] = h[i - 1] BY <1>0
    <2>2. CASE i = 1
        <3> HIDE DEF first, f, g, I, m
        <3>1. 0 \in 0 .. m - 1 /\ i - 1 = 0 BY <2>1, <2>2
        <3>2. h[0] = first BY <1>5, <3>1
        <3> QED BY <2>1, <2>2, <3>1, <3>2
    <2>3. CASE i # 1
        <3>1. i - 1 \in 1 .. m /\ (i - 1) - 1 \in 0 .. m - 1 /\ i - 1 # 0 /\ (i - 1) + 1 = i
              /\ f[i - 1] = h[(i - 1) - 1]
            BY <1>0, <2>3
        <3> HIDE DEF first, f, g, I, m, Row
        <3>2. h[i - 1] = g[<<h[(i - 1) - 1], i - 1>>] BY <1>5, <2>1, <3>1
        <3>3. h[(i - 1) - 1] \in Seq(Digit) BY <1>5, <3>1
        <3>4. g[<<h[(i - 1) - 1], i - 1>>] = Row(h[(i - 1) - 1], (i - 1) + 1) BY <1>6, <2>1, <3>3
        <3> QED BY <2>1, <2>3, <3>1, <3>2, <3>4
    <2> QED BY <2>2, <2>3
<1>8. f = Body(f)
    <2> DEFINE s == Body(f)
    <2>1. \A i \in 1 .. m : s[i] = IF i = 1 THEN first ELSE Row(f[i - 1], i) OBVIOUS
    <2>2. s = [i \in 1 .. m |-> s[i]] /\ f = [i \in 1 .. m |-> f[i]] OBVIOUS
    <2> HIDE DEF s, f, Row, first, m
    <2>3. \A i \in 1 .. m : f[i] = s[i] BY <1>7, <2>1
    <2>4. f = s BY <2>2, <2>3
    <2> QED BY <2>4 DEF s, f, Row, first, m
<1>9. c = Body(c) BY <1>8
<1> HIDE DEF c
<1>10. \A i \in 1 .. m : c[i] = IF i = 1 THEN first ELSE Row(c[i - 1], i)
    <2> DEFINE s == Body(c)
    <2>1. \A i \in 1 .. m : s[i] = IF i = 1 THEN first ELSE Row(c[i - 1], i) OBVIOUS
    <2>2. c = s BY <1>9
    <2> HIDE DEF s, Row, first, m
    <2> QED BY <2>1, <2>2
<1> HIDE DEF Body
<1> DEFINE P == {j \in Nat : c[j + 1] \in I[j]}
<1>11. 0 \in P
    <2>1. 1 \in 1 .. m BY <1>0
    <2> HIDE DEF first, I, m, Row
    <2> QED BY <1>3, <1>10, <2>1
<1>12. ASSUME NEW j \in 0 .. (m - 1) - 1, j \in P PROVE j + 1 \in P
    <2>1. j \in Nat /\ (j + 1) + 1 \in 1 .. m /\ (j + 1) + 1 # 1 /\ ((j + 1) + 1) - 1 = j + 1 /\ j + 1 \in Nat
        BY <1>0
    <2> HIDE DEF first, I, m, Row
    <2>2. c[(j + 1) + 1] = Row(c[j + 1], (j + 1) + 1) BY <1>10, <2>1
    <2>3. c[j + 1] \in I[j] BY <1>12
    <2>4. c[(j + 1) + 1] \in I[j + 1] BY <1>4, <2>2, <2>3
    <2> QED BY <2>1, <2>4
<1> HIDE DEF P
<1>13. m - 1 \in P
    <2>1. \A j \in 0 .. m - 1 : j \in P BY <1>0, <1>11, <1>12, UptoInduct
    <2>2. m - 1 \in 0 .. m - 1 BY <1>0
    <2> QED BY <2>1, <2>2
<1>14. c[m] \in Seq(Digit) /\ Len(c[m]) = n + m /\ MagnitudeOf(c[m]) = A * Part(short, m)
    <2>1. c[(m - 1) + 1] \in I[m - 1] BY <1>13 DEF P
    <2>2. (m - 1) + 1 = m BY <1>0
    <2> HIDE DEF I, m
    <2> QED BY <1>0, <1>2, <2>1, <2>2
<1>15. Part(short, m) = MagnitudeOf(short)
    <2>1. m >= Len(short) BY <1>0
    <2> QED BY <1>0, <2>1, MagnitudeIs
<1>16. c[m] # <<>> BY <1>0, <1>14
<1> HIDE DEF m, A, I, first, Row
<1>17. Normal(s_mp_clamp(c[m])) /\ MagnitudeOf(s_mp_clamp(c[m])) = MagnitudeOf(c[m])
    BY <1>14, <1>16, ClampIs
<1> QED BY <1>1, <1>14, <1>15, <1>17 DEF A

LEMMA MulIs ==
    ASSUME NEW a \in Signed, NEW b \in Signed
    PROVE  mp_mul(a, b) \in Numbers /\ ValueOf(mp_mul(a, b)) = ValueOf(a) * ValueOf(b)
<1> DEFINE s == IF a.sign = b.sign THEN ZPOS ELSE NEG
           d == IF Len(a.dp) < Len(b.dp) THEN MulMagnitudes(b.dp, a.dp) ELSE MulMagnitudes(a.dp, b.dp)
           A == MagnitudeOf(a.dp)
           B == MagnitudeOf(b.dp)
           r == [sign |-> s, dp |-> d]
<1>1. Normal(a.dp) /\ Normal(b.dp) /\ A \in Nat /\ B \in Nat BY SignedIs
<1>2. a.dp \in Seq(Digit) /\ b.dp \in Seq(Digit) /\ a.dp # <<>> /\ b.dp # <<>> BY <1>1 DEF Normal
<1>3. Normal(d) /\ MagnitudeOf(d) = A * B
    <2>1. Normal(MulMagnitudes(b.dp, a.dp)) /\ MagnitudeOf(MulMagnitudes(b.dp, a.dp)) = B * A
        BY <1>2, MulMagnitudesIs
    <2>2. Normal(MulMagnitudes(a.dp, b.dp)) /\ MagnitudeOf(MulMagnitudes(a.dp, b.dp)) = A * B
        BY <1>2, MulMagnitudesIs
    <2>3. B * A = A * B BY <1>1
    <2> HIDE DEF A, B
    <2> QED BY <2>1, <2>2, <2>3
<1>4. s \in {ZPOS, NEG} OBVIOUS
<1> HIDE DEF d, s
<1>5. r \in Signed /\ ValueOf(r) = IF s = NEG THEN -MagnitudeOf(d) ELSE MagnitudeOf(d)
    BY <1>3, <1>4, SignedOf
<1>6. mp_mul(a, b) = PositiveZero(r) BY DEF mp_mul, s, d
<1> HIDE DEF r
<1>7. mp_mul(a, b) \in Numbers /\ ValueOf(mp_mul(a, b)) = ValueOf(r)
    BY <1>5, <1>6, PositiveZeroIs
<1>8. ValueOf(r) = ValueOf(a) * ValueOf(b)
    <2>1. (a.sign = ZPOS => ValueOf(a) = A) /\ (a.sign = NEG => ValueOf(a) = -A) /\ a.sign \in {ZPOS, NEG}
        BY SignedIs
    <2>2. (b.sign = ZPOS => ValueOf(b) = B) /\ (b.sign = NEG => ValueOf(b) = -B) /\ b.sign \in {ZPOS, NEG}
        BY SignedIs
    <2>3. s = IF a.sign = b.sign THEN ZPOS ELSE NEG BY DEF s
    <2>4. ZPOS # NEG BY DEF ZPOS, NEG
    <2> HIDE DEF A, B
    <2>5. (-A) * B = -(A * B) /\ A * (-B) = -(A * B) /\ (-A) * (-B) = A * B BY <1>1
    <2>6. CASE a.sign = ZPOS /\ b.sign = ZPOS BY <1>3, <1>5, <2>1, <2>2, <2>3, <2>4, <2>5, <2>6
    <2>7. CASE a.sign = ZPOS /\ b.sign = NEG BY <1>3, <1>5, <2>1, <2>2, <2>3, <2>4, <2>5, <2>7
    <2>8. CASE a.sign = NEG /\ b.sign = ZPOS BY <1>3, <1>5, <2>1, <2>2, <2>3, <2>4, <2>5, <2>8
    <2>9. CASE a.sign = NEG /\ b.sign = NEG BY <1>3, <1>5, <2>1, <2>2, <2>3, <2>4, <2>5, <2>9
    <2> QED BY <2>1, <2>2, <2>6, <2>7, <2>8, <2>9
<1> QED BY <1>7, <1>8

-----------------------------------------------------------------------------
(* Shifts to the left *)

LEMMA BitsOf ==
    ASSUME NEW b \in 0 .. MP_DIGIT_BIT
    PROVE  /\ 2 ^ b \in Nat /\ 2 ^ b > 0 /\ 2 ^ (MP_DIGIT_BIT - b) \in Nat
           /\ 2 ^ (MP_DIGIT_BIT - b) > 0 /\ 2 ^ b * 2 ^ (MP_DIGIT_BIT - b) = MP_RADIX
<1> DEFINE n == MP_DIGIT_BIT
           c == n - b
<1>1. b \in Nat /\ c \in Nat /\ b + c = n /\ n \in Nat BY RadixIs
<1>2. 2 ^ b \in Nat /\ 2 ^ b > b /\ 2 ^ c \in Nat /\ 2 ^ c > c BY <1>1, PowerPositive
<1>3. 2 ^ (b + c) = 2 ^ b * 2 ^ c BY <1>1, PowerSum
<1>4. 2 ^ (b + c) = MP_RADIX BY <1>1 DEF MP_RADIX
<1> QED BY <1>1, <1>2, <1>3, <1>4

LEMMA QuotientBelow ==
    ASSUME NEW p \in Nat, NEW g \in Nat, NEW h \in Nat, g > 0, p < h * g
    PROVE  p \div g \in Nat /\ p \div g < h
<1> DEFINE q == p \div g
           r == p % g
<1>1. q \in Nat /\ r \in Nat /\ p = q * g + r BY DivisionIs
<1> HIDE DEF q, r
<1> SUFFICES ASSUME q >= h PROVE FALSE BY <1>1 DEF q
<1>2. q * g >= h * g BY <1>1
<1>3. q * g \in Nat /\ h * g \in Nat BY <1>1
<1> QED BY <1>1, <1>2, <1>3

(* A digit of a shifted number: the high bits of the digit below come in, *)
(* and its own high bits go to the digit above.                            *)
LEMMA ShiftDigitIs ==
    ASSUME NEW b \in 0 .. MP_DIGIT_BIT, NEW d \in Digit, NEW p \in Digit
    PROVE  LET h == 2 ^ b
               g == 2 ^ (MP_DIGIT_BIT - b)
               e == Wrap(d * h) + p \div g
           IN  /\ e \in Digit /\ p \div g \in Nat /\ d \div g \in Nat
               /\ e + MP_RADIX * (d \div g) = d * h + p \div g
<1> DEFINE R == MP_RADIX
           h == 2 ^ b
           g == 2 ^ (MP_DIGIT_BIT - b)
           q == d \div g
           r == d % g
           s == p \div g
<1>1. h \in Nat /\ h > 0 /\ g \in Nat /\ g > 0 /\ h * g = R BY BitsOf
<1>2. R \in Nat /\ d \in Nat /\ d < R /\ p \in Nat /\ p < R /\ R > 0 BY RadixIs, DigitInt
<1> HIDE DEF h, g
<1>3. q \in Nat /\ r \in Nat /\ r < g /\ d = q * g + r BY <1>1, <1>2, DivisionIs
<1>4. s \in Nat /\ s < h BY <1>1, <1>2, QuotientBelow
<1> HIDE DEF q, r, s
<1> DEFINE rh == r * h
           qr == q * R
<1>5. d * h = qr + rh
    <2>1. (q * g + r) * h = q * (h * g) + r * h BY <1>1, <1>3
    <2> QED BY <1>1, <1>3, <2>1
<1>6. rh \in Nat /\ qr \in Nat BY <1>1, <1>2, <1>3
<1>7. rh + h <= R
    <2>1. (r + 1) * h <= g * h BY <1>1, <1>3
    <2>2. (r + 1) * h = rh + h /\ g * h = R BY <1>1, <1>3
    <2> QED BY <2>1, <2>2
<1> HIDE DEF rh
<1>8. Wrap(d * h) = rh
    <2>1. d * h \in Nat BY <1>1, <1>2
    <2>2. rh < R BY <1>1, <1>2, <1>6, <1>7
    <2>3. ((d * h) % R) = rh BY <1>2, <1>3, <1>5, <1>6, <2>1, <2>2, DivisionUnique
    <2> QED BY <2>3 DEF Wrap, R
<1>9. Wrap(d * h) + s \in Digit
    <2>1. rh + s \in Nat /\ rh + s <= R - 1 BY <1>1, <1>2, <1>4, <1>6, <1>7
    <2>2. rh + s \in 0 .. R - 1 BY <1>2, <2>1
    <2> QED BY <1>8, <2>2, RadixIs DEF R
<1>10. R * q = qr BY <1>2, <1>3
<1> HIDE DEF qr
<1>11. (Wrap(d * h) + s) + R * q = d * h + s BY <1>4, <1>5, <1>6, <1>8, <1>10
<1> QED BY <1>3, <1>4, <1>9, <1>11 DEF h, g, q, s, R

LEMMA ShiftBitsIs ==
    ASSUME NEW dp \in Seq(Digit), NEW b \in 0 .. MP_DIGIT_BIT
    PROVE  /\ ShiftBits(dp, b) \in Seq(Digit) /\ Len(ShiftBits(dp, b)) = Len(dp)
           /\ dp # <<>> =>
                /\ Top(dp) \in Digit /\ Top(dp) \div 2 ^ (MP_DIGIT_BIT - b) \in Nat
                /\ MagnitudeOf(ShiftBits(dp, b))
                     + Weight(Len(dp)) * (Top(dp) \div 2 ^ (MP_DIGIT_BIT - b))
                     = 2 ^ b * MagnitudeOf(dp)
<1> DEFINE n == Len(dp)
           s == ShiftBits(dp, b)
           h == 2 ^ b
           g == 2 ^ (MP_DIGIT_BIT - b)
           q(i) == At(dp, i) \div g
<1>0. n \in Nat OBVIOUS
<1>1. h \in Nat /\ h > 0 /\ g \in Nat /\ g > 0 /\ h * g = MP_RADIX BY BitsOf
<1>2. ASSUME NEW i \in Nat
      PROVE  /\ Wrap(At(dp, i) * h) + q(i - 1) \in Digit /\ q(i - 1) \in Nat /\ q(i) \in Nat
             /\ (Wrap(At(dp, i) * h) + q(i - 1)) + MP_RADIX * q(i) = At(dp, i) * h + q(i - 1)
    <2>1. At(dp, i) \in Digit
        <3>1. i \in Int OBVIOUS
        <3> QED BY <3>1, AtIs
    <2>2. At(dp, i - 1) \in Digit
        <3>1. i - 1 \in Int OBVIOUS
        <3> QED BY <3>1, AtIs
    <2> QED BY <2>1, <2>2, ShiftDigitIs
<1>3. s = [i \in 1 .. n |-> Wrap(dp[i] * h) + q(i - 1)] BY DEF ShiftBits
<1>4. \A i \in 1 .. n : s[i] = Wrap(At(dp, i) * h) + q(i - 1)
    <2>1. \A i \in 1 .. n : At(dp, i) = dp[i] BY DEF At
    <2> HIDE DEF s, h, g, n
    <2> QED BY <1>3, <2>1
<1> HIDE DEF h, g
<1>5. s \in Seq(Digit) /\ Len(s) = n
    <2>1. \A i \in 1 .. n : s[i] \in Digit /\ i \in Nat
        <3> SUFFICES ASSUME NEW i \in 1 .. n PROVE s[i] \in Digit /\ i \in Nat OBVIOUS
        <3>1. i \in Nat OBVIOUS
        <3> HIDE DEF s, q
        <3>2. Wrap(At(dp, i) * h) + q(i - 1) \in Digit BY <1>2, <3>1
        <3> QED BY <1>4, <3>1, <3>2
    <2>2. DOMAIN s = 1 .. n /\ s = [i \in 1 .. n |-> s[i]]
        <3> HIDE DEF q, n
        <3> QED BY <1>3
    <2> HIDE DEF s, n
    <2> QED BY <1>0, <2>1, <2>2
<1>6. \A i \in 1 .. n : At(s, i) = Wrap(At(dp, i) * h) + q(i - 1)
    <2> HIDE DEF s, q
    <2> QED BY <1>4, <1>5 DEF At
<1> HIDE DEF s
<1> DEFINE P == {i \in Nat : Part(s, i) + Weight(i) * q(i) = h * Part(dp, i)}
<1>7. 0 \in P
    <2>1. Part(s, 0) = 0 /\ Part(dp, 0) = 0 BY <1>5, PartIs
    <2>2. At(dp, 0) = 0 BY DEF At
    <2>3. q(0) = 0 BY <1>1, <2>2
    <2>4. Weight(0) = 1 BY WeightIs
    <2>5. Weight(0) * q(0) = 0 /\ h * 0 = 0
        <3> HIDE DEF q
        <3> QED BY <1>1, <2>3, <2>4
    <2> HIDE DEF q
    <2> QED BY <2>1, <2>5
<1>8. ASSUME NEW i \in 0 .. n - 1, i \in P PROVE i + 1 \in P
    <2> DEFINE w == Weight(i)
               R == MP_RADIX
               d == At(dp, i + 1)
               e == At(s, i + 1)
               u == q(i + 1)
               v == q(i)
               S == Part(s, i)
               D == Part(dp, i)
    <2>1. i \in Nat /\ i + 1 \in Nat /\ i + 1 \in 1 .. n /\ (i + 1) - 1 = i BY <1>0
    <2>2. e + R * u = d * h + v /\ u \in Nat /\ v \in Nat /\ e \in Nat
        <3>1. e = Wrap(d * h) + q((i + 1) - 1)
            <4> HIDE DEF q
            <4> QED BY <1>6, <2>1
        <3>2. /\ Wrap(d * h) + q((i + 1) - 1) \in Digit /\ q((i + 1) - 1) \in Nat /\ u \in Nat
              /\ (Wrap(d * h) + q((i + 1) - 1)) + R * u = d * h + q((i + 1) - 1)
            <4> HIDE DEF q
            <4> QED BY <1>2, <2>1
        <3>3. q((i + 1) - 1) = v BY <2>1
        <3>4. e \in Nat BY <3>1, <3>2, DigitInt
        <3> HIDE DEF q
        <3> QED BY <3>1, <3>2, <3>3, <3>4
    <2>3. /\ Part(s, i + 1) = S + e * w /\ S \in Nat
          /\ Part(dp, i + 1) = D + d * w /\ D \in Nat
        BY <1>5, <2>1, PartIs
    <2>4. w \in Nat /\ Weight(i + 1) = R * w BY <2>1, WeightIs
    <2>5. R \in Nat BY RadixIs
    <2>6. d \in Nat
        <3>1. d \in Digit
            <4>1. i + 1 \in Int BY <2>1
            <4> QED BY <4>1, AtIs
        <3> QED BY <3>1, DigitInt
    <2>7. S + w * v = h * D BY <1>8
    <2>8. SUFFICES Part(s, i + 1) + Weight(i + 1) * u = h * Part(dp, i + 1) BY <2>1
    <2> HIDE DEF w, R, d, e, u, v, S, D, q
    <2>9. (e + R * u) * w = (d * h + v) * w BY <2>2
    <2>10. (e + R * u) * w = e * w + (R * w) * u BY <2>2, <2>4, <2>5
    <2>11. (d * h + v) * w = h * (d * w) + w * v BY <1>1, <2>2, <2>4, <2>6
    <2>12. h * (D + d * w) = h * D + h * (d * w) BY <1>1, <2>3, <2>4, <2>6
    <2> DEFINE ew == e * w
               ru == (R * w) * u
               hd == h * (d * w)
               wv == w * v
               hD == h * D
    <2>13. ew \in Nat /\ ru \in Nat /\ hd \in Nat /\ wv \in Nat /\ hD \in Nat
        BY <1>1, <2>2, <2>3, <2>4, <2>5, <2>6
    <2>14. ew + ru = hd + wv /\ S + wv = hD /\ h * Part(dp, i + 1) = hD + hd
           /\ Part(s, i + 1) = S + ew /\ Weight(i + 1) * u = ru
        BY <2>3, <2>4, <2>7, <2>9, <2>10, <2>11, <2>12
    <2> HIDE DEF ew, ru, hd, wv, hD
    <2> QED BY <2>3, <2>13, <2>14
<1> HIDE DEF P
<1>9. \A i \in 0 .. n : i \in P BY <1>0, <1>7, <1>8, UptoInduct
<1>10. ASSUME dp # <<>>
       PROVE  /\ Top(dp) \in Digit /\ Top(dp) \div g \in Nat
              /\ MagnitudeOf(s) + Weight(n) * (Top(dp) \div g) = h * MagnitudeOf(dp)
    <2>1. n \in 1 .. n /\ n \in Nat /\ n > 0 BY <1>10
    <2>2. At(dp, n) = Top(dp) BY <2>1 DEF At, Top
    <2>3. At(dp, n) \in Digit
        <3>1. n \in Int BY <2>1
        <3> QED BY <3>1, AtIs
    <2>4. q(n) \in Nat BY <1>2, <2>1
    <2>5. n \in P
        <3>1. n \in 0 .. n BY <1>0
        <3> HIDE DEF n
        <3> QED BY <1>9, <3>1
    <2>6. Part(s, n) + Weight(n) * q(n) = h * Part(dp, n)
        <3> HIDE DEF q, n
        <3> QED BY <2>5 DEF P
    <2>7. Part(dp, n) = MagnitudeOf(dp) /\ Part(s, n) = MagnitudeOf(s)
        <3>1. n >= Len(dp) /\ n >= Len(s) BY <1>0, <1>5
        <3> QED BY <1>0, <1>5, <3>1, MagnitudeIs
    <2> QED BY <2>2, <2>3, <2>4, <2>6, <2>7
<1> QED BY <1>5, <1>10 DEF s, n, g, h

LEMMA Mul2Is ==
    ASSUME NEW dp \in Seq(Digit), dp # <<>>
    PROVE  /\ s_mp_mul_2(dp) \in Seq(Digit) /\ Len(s_mp_mul_2(dp)) >= Len(dp)
           /\ MagnitudeOf(s_mp_mul_2(dp)) = 2 * MagnitudeOf(dp)
           /\ Normal(dp) => Normal(s_mp_mul_2(dp))
<1> DEFINE n == Len(dp)
           k == Top(dp) \div 2 ^ (MP_DIGIT_BIT - 1)
           s == ShiftBits(dp, 1)
           t == IF k # 0 THEN <<k>> ELSE <<>>
           A == MagnitudeOf(dp)
<1>0. dp \in Seq(Digit) /\ dp # <<>> /\ n \in Nat /\ n > 0 /\ A \in Nat
    <2>1. A \in Nat BY MagnitudeIs
    <2> QED BY <2>1
<1>1. 1 \in 0 .. MP_DIGIT_BIT /\ 2 ^ 1 = 2
    <2>1. 1 \in 0 .. MP_DIGIT_BIT BY RadixIs
    <2>2. 2 ^ 1 = 2 OBVIOUS
    <2> QED BY <2>1, <2>2
<1>2. s \in Seq(Digit) /\ Len(s) = n /\ k \in Nat /\ MagnitudeOf(s) + Weight(n) * k = 2 * A
    BY <1>0, <1>1, ShiftBitsIs
<1>3. k \in Digit
    <2>1. Top(dp) \in Digit BY <1>0, <1>1, ShiftBitsIs
    <2>2. 2 ^ (MP_DIGIT_BIT - 1) \in Nat /\ 2 ^ (MP_DIGIT_BIT - 1) > 0 BY <1>1, BitsOf
    <2> DEFINE g == 2 ^ (MP_DIGIT_BIT - 1)
               m == Top(dp)
    <2>3. m \in Nat /\ m < MP_RADIX /\ g \in Nat /\ g > 0 BY <2>1, <2>2, DigitInt
    <2> HIDE DEF g, m
    <2>4. m < MP_RADIX * g
        <3>1. MP_RADIX * g >= MP_RADIX BY <2>3, RadixIs
        <3>2. MP_RADIX * g \in Nat /\ MP_RADIX \in Nat BY <2>3, RadixIs
        <3> QED BY <2>3, <3>1, <3>2
    <2>5. m \div g \in Nat /\ m \div g < MP_RADIX BY <2>3, <2>4, QuotientBelow, RadixIs
    <2>6. k = m \div g BY DEF m, g
    <2> HIDE DEF k
    <2>7. k \in 0 .. MP_RADIX - 1 BY <2>5, <2>6, RadixIs
    <2> QED BY <2>7, RadixIs
<1>4. s_mp_mul_2(dp) = s \o t BY DEF s_mp_mul_2
<1> HIDE DEF k, s
<1>5. t \in Seq(Digit) /\ MagnitudeOf(t) = k /\ (k # 0 => Len(t) = 1 /\ Top(t) = k) /\ (k = 0 => t = <<>>)
    <2>1. CASE k # 0
        <3>1. t = <<k>> BY <2>1
        <3>2. Normal(<<k>>) /\ MagnitudeOf(<<k>>) = k BY <1>3, OneDigit
        <3>3. <<k>> \in Seq(Digit) /\ Len(<<k>>) = 1 /\ <<k>>[1] = k BY <1>3
        <3> QED BY <2>1, <3>1, <3>2, <3>3 DEF Top
    <2>2. CASE k = 0
        <3>1. t = <<>> BY <2>2
        <3>2. <<>> \in Seq(Digit) OBVIOUS
        <3>3. MagnitudeOf(<<>>) = 0
            <4>1. Len(<<>>) = 0 /\ 0 >= Len(<<>>) OBVIOUS
            <4>2. Part(<<>>, 0) = MagnitudeOf(<<>>) BY <3>2, <4>1, MagnitudeIs
            <4> QED BY <3>2, <4>2, PartIs
        <3> QED BY <2>2, <3>1, <3>2, <3>3
    <2> QED BY <2>1, <2>2
<1> HIDE DEF t
<1>6. /\ s \o t \in Seq(Digit) /\ Len(s \o t) = n + Len(t)
      /\ MagnitudeOf(s \o t) = MagnitudeOf(s) + Weight(n) * MagnitudeOf(t)
    <2>1. /\ s \o t \in Seq(Digit) /\ Len(s \o t) = Len(s) + Len(t)
          /\ MagnitudeOf(s \o t) = MagnitudeOf(s) + Weight(Len(s)) * MagnitudeOf(t)
        BY <1>2, <1>5, ConcatIs
    <2> QED BY <1>2, <2>1
<1>7. MagnitudeOf(s \o t) = 2 * A BY <1>2, <1>5, <1>6
<1>8. s \o t # <<>>
    <2>1. Len(s \o t) > 0
        <3>1. Len(t) \in Nat BY <1>5
        <3> QED BY <1>0, <1>6, <3>1
    <2> QED BY <2>1
<1>a. Len(s \o t) >= n
    <2>1. Len(t) \in Nat BY <1>5
    <2> QED BY <1>0, <1>6, <2>1
<1>b. CASE ~Normal(dp) BY <1>4, <1>6, <1>7, <1>a, <1>b
<1>9. CASE k = 0 /\ Normal(dp)
    <2>1. Len(s \o t) = n
        <3>1. Len(t) = 0 BY <1>5, <1>9
        <3> QED BY <1>0, <1>6, <3>1
    <2>2. n > 1 => MagnitudeOf(s \o t) >= Weight(n - 1)
        <3> SUFFICES ASSUME n > 1 PROVE 2 * A >= Weight(n - 1) BY <1>7
        <3>1. A >= Weight(n - 1)
            <4>1. Top(dp) # 0 BY <1>9 DEF Normal
            <4> QED BY <1>0, <4>1, MagnitudeAbove
        <3>2. Weight(n - 1) \in Nat
            <4>1. n - 1 \in Nat BY <1>0
            <4> QED BY <4>1, WeightIs
        <3> HIDE DEF A
        <3> QED BY <1>0, <3>1, <3>2
    <2>3. Normal(s \o t) BY <1>6, <1>8, <2>1, <2>2, NormalFrom
    <2> QED BY <1>4, <1>6, <1>7, <1>a, <2>3
<1>10. CASE k # 0
    <2>1. Top(s \o t) = k
        <3>1. Len(t) > 0 /\ Top(t) = k BY <1>5, <1>10
        <3>2. Top(s \o t) = Top(t) BY <1>2, <1>5, <3>1, ConcatTop
        <3> QED BY <3>1, <3>2
    <2>2. Normal(s \o t) BY <1>6, <1>8, <1>10, <2>1 DEF Normal
    <2> QED BY <1>4, <1>6, <1>7, <1>a, <2>2
<1> QED BY <1>9, <1>10, <1>b

LEMMA LshdIs ==
    ASSUME NEW dp \in Seq(Digit), dp # <<>>, NEW p \in Nat
    PROVE  /\ s_mp_lshd(dp, p) \in Seq(Digit) /\ s_mp_lshd(dp, p) # <<>>
           /\ MagnitudeOf(s_mp_lshd(dp, p)) = Weight(p) * MagnitudeOf(dp)
           /\ Normal(dp) => Normal(s_mp_lshd(dp, p))
           /\ Top(s_mp_lshd(dp, p)) = Top(dp)
           /\ Len(s_mp_lshd(dp, p)) = IF dp = <<0>> THEN 1 ELSE p + Len(dp)
<1> DEFINE z == Zeros(p)
<1>1. z \in Seq(Digit) /\ Len(z) = p /\ MagnitudeOf(z) = 0 BY ZerosAre
<1>2. Len(dp) \in Nat /\ Len(dp) > 0 /\ MagnitudeOf(dp) \in Nat /\ Weight(p) \in Nat
    <2>1. Len(dp) \in Nat /\ Len(dp) > 0 OBVIOUS
    <2>2. MagnitudeOf(dp) \in Nat BY MagnitudeIs
    <2>3. Weight(p) \in Nat BY WeightIs
    <2> QED BY <2>1, <2>2, <2>3
<1>3. CASE dp = <<0>>
    <2>1. s_mp_lshd(dp, p) = dp BY <1>3 DEF s_mp_lshd
    <2>2. MagnitudeOf(dp) = 0
        <3>1. 0 \in Digit BY RadixIs
        <3> QED BY <1>3, <3>1, OneDigit
    <2>3. Weight(p) * 0 = 0 BY <1>2
    <2>4. Len(dp) = 1 BY <1>3
    <2> QED BY <1>3, <2>1, <2>2, <2>3, <2>4
<1>4. CASE dp # <<0>>
    <2>1. s_mp_lshd(dp, p) = z \o dp BY <1>4 DEF s_mp_lshd
    <2> HIDE DEF z
    <2>2. /\ z \o dp \in Seq(Digit) /\ Len(z \o dp) = p + Len(dp)
          /\ MagnitudeOf(z \o dp) = 0 + Weight(p) * MagnitudeOf(dp)
        BY <1>1, ConcatIs
    <2>3. Top(z \o dp) = Top(dp) BY <1>1, <1>2, ConcatTop
    <2>4. 0 + Weight(p) * MagnitudeOf(dp) = Weight(p) * MagnitudeOf(dp)
        <3>1. Weight(p) * MagnitudeOf(dp) \in Nat BY <1>2
        <3> QED BY <3>1
    <2>5. z \o dp # <<>>
        <3>1. Len(z \o dp) > 0 BY <1>2, <2>2
        <3> QED BY <3>1
    <2>6. ASSUME Normal(dp) PROVE Normal(z \o dp)
        <3>1. CASE Len(dp) > 1
            <4>1. Top(dp) # 0 BY <2>6, <3>1 DEF Normal
            <4> QED BY <2>2, <2>3, <2>5, <4>1 DEF Normal
        <3>2. CASE Len(dp) = 1
            <4>1. Top(dp) # 0
                <5>1. dp = <<dp[1]>> BY <3>2
                <5>2. Top(dp) = dp[1] BY <3>2 DEF Top
                <5> QED BY <1>4, <5>1, <5>2
            <4> QED BY <2>2, <2>3, <2>5, <4>1 DEF Normal
        <3>3. Len(dp) = 1 \/ Len(dp) > 1 BY <2>6, NormalIs
        <3> QED BY <3>1, <3>2, <3>3
    <2> QED BY <1>4, <2>1, <2>2, <2>3, <2>4, <2>5, <2>6
<1> QED BY <1>3, <1>4

LEMMA BitShift ==
    ASSUME NEW d \in Nat
    PROVE  /\ d \div MP_DIGIT_BIT \in Nat /\ (d % MP_DIGIT_BIT) \in 0 .. MP_DIGIT_BIT
           /\ (d % MP_DIGIT_BIT) \in Nat /\ (d % MP_DIGIT_BIT) < MP_DIGIT_BIT
           /\ 2 ^ d = Weight(d \div MP_DIGIT_BIT) * 2 ^ (d % MP_DIGIT_BIT)
<1> DEFINE n == MP_DIGIT_BIT
           q == d \div n
           r == d % n
<1>1. n \in Nat /\ n > 0 BY RadixIs
<1>2. q \in Nat /\ r \in Nat /\ r < n /\ d = q * n + r BY <1>1, DivisionIs
<1> HIDE DEF q, r, n
<1>3. n * q \in Nat /\ n * q + r = d BY <1>1, <1>2
<1>4. 2 ^ (n * q + r) = 2 ^ (n * q) * 2 ^ r BY <1>2, <1>3, PowerSum
<1>5. Weight(q) = 2 ^ (n * q) BY DEF Weight, n
<1>6. r \in 0 .. n BY <1>1, <1>2
<1> QED BY <1>2, <1>3, <1>4, <1>5, <1>6 DEF q, r, n

LEMMA Mul2dIs ==
    ASSUME NEW dp \in Seq(Digit), dp # <<>>, NEW d \in Nat
    PROVE  /\ Normal(s_mp_mul_2d(dp, d))
           /\ MagnitudeOf(s_mp_mul_2d(dp, d)) = MagnitudeOf(dp) * 2 ^ d
<1> DEFINE ds == d \div MP_DIGIT_BIT
           b == d % MP_DIGIT_BIT
           h == 2 ^ b
           g == 2 ^ (MP_DIGIT_BIT - b)
           spills == b # 0 /\ Top(dp) \div g # 0
           k == ds + Bit(spills)
           padded == dp \o Zeros(k)
           moved == IF ds > 0 THEN s_mp_lshd(padded, ds) ELSE padded
           out == IF b = 0 THEN moved ELSE ShiftBits(moved, b)
           A == MagnitudeOf(dp)
<1>1. ds \in Nat /\ b \in 0 .. MP_DIGIT_BIT /\ b \in Nat /\ 2 ^ d = Weight(ds) * h BY BitShift
<1>2. h \in Nat /\ g \in Nat /\ g > 0 /\ A \in Nat /\ Weight(ds) \in Nat
    BY <1>1, BitsOf, MagnitudeIs, WeightIs
<1>3. s_mp_mul_2d(dp, d) = s_mp_clamp(out) BY DEF s_mp_mul_2d
<1> HIDE DEF ds, b, h, g
<1>4. Bit(spills) \in {0, 1} BY DEF Bit
<1>5. k \in Nat /\ (k = 0 <=> ds = 0 /\ ~spills)
    <2>1. spills => Bit(spills) = 1 BY DEF Bit
    <2>2. ~spills => Bit(spills) = 0 BY DEF Bit
    <2> HIDE DEF spills
    <2> QED BY <1>1, <1>4, <2>1, <2>2
<1> HIDE DEF k
<1>6. padded \in Seq(Digit) /\ padded # <<>> /\ MagnitudeOf(padded) = A
    <2> DEFINE z == Zeros(k)
    <2>1. z \in Seq(Digit) /\ Len(z) = k /\ MagnitudeOf(z) = 0 BY <1>5, ZerosAre
    <2> HIDE DEF z, A
    <2>2. /\ dp \o z \in Seq(Digit) /\ Len(dp \o z) = Len(dp) + k
          /\ MagnitudeOf(dp \o z) = MagnitudeOf(dp) + Weight(Len(dp)) * 0
        BY <2>1, ConcatIs
    <2>3. Len(dp) \in Nat /\ Len(dp) > 0 OBVIOUS
    <2>4. Weight(Len(dp)) * 0 = 0
        <3>1. Weight(Len(dp)) \in Nat BY <2>3, WeightIs
        <3> QED BY <3>1
    <2>5. dp \o z # <<>>
        <3>1. Len(dp \o z) > 0 BY <1>5, <2>2, <2>3
        <3> QED BY <3>1
    <2>6. MagnitudeOf(dp \o z) = A BY <1>2, <2>2, <2>4 DEF A
    <2> QED BY <2>2, <2>5, <2>6 DEF z
<1>7. k > 0 => Top(padded) = 0
    <2> SUFFICES ASSUME k > 0 PROVE Top(padded) = 0 OBVIOUS
    <2>1. Zeros(k) \in Seq(Digit) /\ Len(Zeros(k)) = k /\ \A i \in 1 .. k : Zeros(k)[i] = 0
        BY <1>5, ZerosAre
    <2>2. Top(dp \o Zeros(k)) = Top(Zeros(k)) BY <2>1, ConcatTop
    <2>3. k \in 1 .. k BY <1>5
    <2> QED BY <2>1, <2>2, <2>3 DEF Top
<1>8. k = 0 => padded = dp
    <2> SUFFICES ASSUME k = 0 PROVE padded = dp OBVIOUS
    <2>1. Zeros(k) \in Seq(Digit) /\ Len(Zeros(k)) = 0 BY <1>5, ZerosAre
    <2> QED BY <2>1
<1> HIDE DEF padded
<1>9. moved \in Seq(Digit) /\ moved # <<>> /\ MagnitudeOf(moved) = Weight(ds) * A
      /\ Top(moved) = Top(padded)
    <2>1. CASE ds > 0
        <3> HIDE DEF A
        <3> QED BY <1>1, <1>6, <2>1, LshdIs
    <2>2. CASE ds = 0
        <3>1. moved = padded BY <2>2
        <3>2. Weight(ds) = 1 BY <2>2, WeightIs
        <3>3. 1 * A = A BY <1>2
        <3> HIDE DEF A, moved
        <3> QED BY <1>6, <3>1, <3>2, <3>3
    <2> QED BY <1>1, <2>1, <2>2
<1> HIDE DEF moved
<1>10. out \in Seq(Digit) /\ out # <<>> /\ MagnitudeOf(out) = h * (Weight(ds) * A)
    <2>1. CASE b = 0
        <3>1. h = 1
            <4>1. 2 ^ 0 = 1 OBVIOUS
            <4> QED BY <2>1, <4>1 DEF h
        <3>2. 1 * (Weight(ds) * A) = Weight(ds) * A
            <4>1. Weight(ds) * A \in Nat BY <1>2
            <4> HIDE DEF A
            <4> QED BY <4>1
        <3> HIDE DEF A
        <3> QED BY <1>9, <2>1, <3>1, <3>2
    <2>2. CASE b # 0
        <3>1. Top(moved) \div g = 0
            <4>1. CASE k = 0
                <5>1. Top(moved) = Top(dp) BY <1>8, <1>9, <4>1
                <5> QED BY <1>5, <2>2, <4>1, <5>1
            <4>2. CASE k > 0
                <5>1. Top(moved) = 0 BY <1>7, <1>9, <4>2
                <5>2. 0 \div g = 0 BY <1>2
                <5> QED BY <5>1, <5>2
            <4> QED BY <1>5, <4>1, <4>2
        <3>2. /\ ShiftBits(moved, b) \in Seq(Digit) /\ Len(ShiftBits(moved, b)) = Len(moved)
              /\ MagnitudeOf(ShiftBits(moved, b)) + Weight(Len(moved)) * (Top(moved) \div g)
                   = h * MagnitudeOf(moved)
            BY <1>1, <1>9, ShiftBitsIs DEF h, g
        <3>3. Len(moved) \in Nat /\ Len(moved) > 0 BY <1>9
        <3>4. Weight(Len(moved)) * 0 = 0
            <4>1. Weight(Len(moved)) \in Nat BY <3>3, WeightIs
            <4> QED BY <4>1
        <3>5. MagnitudeOf(ShiftBits(moved, b)) \in Nat BY <3>2, MagnitudeIs
        <3>6. MagnitudeOf(ShiftBits(moved, b)) = h * MagnitudeOf(moved)
            BY <3>1, <3>2, <3>4, <3>5
        <3>7. ShiftBits(moved, b) # <<>> BY <3>2, <3>3
        <3> QED BY <1>9, <2>2, <3>2, <3>6, <3>7
    <2> QED BY <2>1, <2>2
<1> HIDE DEF out
<1>11. Normal(s_mp_clamp(out)) /\ MagnitudeOf(s_mp_clamp(out)) = MagnitudeOf(out)
    BY <1>10, ClampIs
<1>12. h * (Weight(ds) * A) = A * (Weight(ds) * h)
    <2> DEFINE w == Weight(ds)
    <2>1. w \in Nat BY <1>2
    <2> HIDE DEF w, A
    <2> QED BY <1>2, <2>1
<1> QED BY <1>1, <1>3, <1>10, <1>11, <1>12

LEMMA Ispow2dIs ==
    ASSUME NEW d
    PROVE  /\ \/ s_mp_ispow2d(d) = -1
              \/ s_mp_ispow2d(d) \in 0 .. MP_DIGIT_BIT - 1 /\ d = 2 ^ s_mp_ispow2d(d)
           /\ s_mp_ispow2d(d) >= 0 =>
                s_mp_ispow2d(d) \in 0 .. MP_DIGIT_BIT - 1 /\ d = 2 ^ s_mp_ispow2d(d)
           /\ s_mp_ispow2d(d) < 0 => \A k \in 0 .. MP_DIGIT_BIT - 1 : d # 2 ^ k
<1> DEFINE n == MP_DIGIT_BIT - 1
           k == CHOOSE k \in 0 .. n : d = 2 ^ k
<1>1. CASE \E e \in 0 .. n : d = 2 ^ e
    <2>1. k \in 0 .. n /\ d = 2 ^ k BY <1>1
    <2>2. s_mp_ispow2d(d) = k BY <1>1 DEF s_mp_ispow2d
    <2> HIDE DEF k
    <2>3. ~(k < 0) BY <2>1, RadixIs
    <2> QED BY <2>1, <2>2, <2>3
<1>2. CASE ~ \E e \in 0 .. n : d = 2 ^ e
    <2>1. s_mp_ispow2d(d) = -1 BY <1>2 DEF s_mp_ispow2d
    <2>2. ~(-1 >= 0) OBVIOUS
    <2> QED BY <1>2, <2>1, <2>2
<1> QED BY <1>1, <1>2

LEMMA MulDIs ==
    ASSUME NEW dp, Normal(dp), NEW d \in Digit
    PROVE  Normal(s_mp_mul_d(dp, d)) /\ MagnitudeOf(s_mp_mul_d(dp, d)) = MagnitudeOf(dp) * d
<1> DEFINE k == s_mp_ispow2d(d)
           A == MagnitudeOf(dp)
<1>0. dp \in Seq(Digit) /\ dp # <<>> /\ A \in Nat /\ d \in Nat BY NormalIs, DigitInt DEF Normal
<1>1. CASE d = 0
    <2>1. s_mp_mul_d(dp, d) = <<0>> BY <1>1 DEF s_mp_mul_d
    <2>2. 0 \in Digit BY RadixIs
    <2>3. Normal(<<0>>) /\ MagnitudeOf(<<0>>) = 0 BY <2>2, OneDigit
    <2>4. A * 0 = 0 BY <1>0
    <2> QED BY <1>1, <2>1, <2>3, <2>4
<1>2. CASE d = 1
    <2>1. s_mp_mul_d(dp, d) = dp BY <1>2 DEF s_mp_mul_d
    <2>2. A * 1 = A BY <1>0
    <2> QED BY <1>2, <2>1, <2>2
<1>3. CASE d > 1 /\ k >= 0
    <2>1. s_mp_mul_d(dp, d) = s_mp_mul_2d(dp, k)
        <3>1. d # 0 /\ d # 1 BY <1>3
        <3> QED BY <1>3, <3>1 DEF s_mp_mul_d
    <2>2. k \in 0 .. MP_DIGIT_BIT - 1 /\ d = 2 ^ k BY <1>3, Ispow2dIs
    <2>3. k \in Nat BY <2>2, RadixIs
    <2> HIDE DEF k
    <2> QED BY <1>0, <2>1, <2>2, <2>3, Mul2dIs
<1>4. CASE d > 1 /\ ~(k >= 0)
    <2> DEFINE m == MulDigits(dp, d, <<>>)
    <2>1. s_mp_mul_d(dp, d) = s_mp_clamp(m)
        <3>1. d # 0 /\ d # 1 BY <1>4
        <3> QED BY <1>4, <3>1 DEF s_mp_mul_d, s_mpv_mul_d
    <2>2. <<>> \in Seq(Digit) OBVIOUS
    <2>3. m \in Seq(Digit) /\ Len(m) = Len(dp) + 1 /\ MagnitudeOf(m) = A * d + Part(<<>>, Len(dp))
        BY <1>0, <2>2, MulDigitsIs
    <2>4. Len(dp) \in Nat BY <1>0
    <2>5. Part(<<>>, Len(dp)) = 0
        <3>1. 0 <= Len(dp) /\ \A i \in 0 + 1 .. Len(dp) : At(<<>>, i) = 0 BY <2>4 DEF At
        <3>2. Part(<<>>, Len(dp)) = Part(<<>>, 0) BY <2>2, <2>4, <3>1, PartEnd
        <3> QED BY <2>2, <3>2, PartIs
    <2>6. m # <<>> BY <2>3, <2>4
    <2> HIDE DEF m
    <2>7. Normal(s_mp_clamp(m)) /\ MagnitudeOf(s_mp_clamp(m)) = MagnitudeOf(m) BY <2>3, <2>6, ClampIs
    <2>8. A * d \in Nat BY <1>0
    <2> QED BY <2>1, <2>3, <2>5, <2>7, <2>8
<1> QED BY <1>0, <1>1, <1>2, <1>3, <1>4

(* A multiple of a number in place: the sign stays. *)
LEMMA ScaledIs ==
    ASSUME NEW a \in Numbers, NEW dp, Normal(dp), NEW k \in Nat, k > 0,
           MagnitudeOf(dp) = MagnitudeOf(a.dp) * k
    PROVE  /\ [a EXCEPT !.dp = dp] \in Numbers
           /\ ValueOf([a EXCEPT !.dp = dp]) = ValueOf(a) * k
<1> DEFINE A == MagnitudeOf(a.dp)
           r == [sign |-> a.sign, dp |-> dp]
<1>0. a \in Signed BY NumbersIs
<1>1. a = [sign |-> a.sign, dp |-> a.dp] /\ a.sign \in {ZPOS, NEG} /\ Normal(a.dp) /\ A \in Nat
      /\ (a.sign = ZPOS => ValueOf(a) = A) /\ (a.sign = NEG => ValueOf(a) = -A)
    BY <1>0, SignedIs
<1>2. [a EXCEPT !.dp = dp] = r BY <1>1
<1>3. r \in Signed /\ ValueOf(r) = IF a.sign = NEG THEN -MagnitudeOf(dp) ELSE MagnitudeOf(dp)
    BY <1>1, SignedOf
<1>4. ZPOS # NEG BY DEF ZPOS, NEG
<1>5. ValueOf(r) = ValueOf(a) * k
    <2>1. (-A) * k = -(A * k) BY <1>1
    <2> HIDE DEF A, r
    <2>2. CASE a.sign = NEG BY <1>1, <1>3, <2>1, <2>2 DEF A
    <2>3. CASE a.sign = ZPOS BY <1>1, <1>3, <1>4, <2>3 DEF A
    <2> QED BY <1>1, <2>2, <2>3
<1>6. ASSUME dp = << 0 >> PROVE a.sign = ZPOS
    <2>1. MagnitudeOf(dp) = 0 BY <1>6, NormalIs
    <2>2. A = 0
        <3> HIDE DEF A
        <3> SUFFICES ASSUME A > 0 PROVE FALSE BY <1>1
        <3>1. A * k > 0 BY <1>1
        <3> QED BY <2>1, <3>1 DEF A
    <2>3. a.dp = <<0>> BY <1>1, <2>2, NormalIs
    <2> QED BY <2>3 DEF Numbers
<1> QED BY <1>2, <1>3, <1>5, <1>6 DEF Numbers

LEMMA MulInPlace ==
    ASSUME NEW a \in Numbers, NEW d \in Digit
    PROVE  /\ mp_mul_2(a) \in Numbers /\ ValueOf(mp_mul_2(a)) = 2 * ValueOf(a)
           /\ mp_mul_d(a, d) \in Numbers /\ ValueOf(mp_mul_d(a, d)) = ValueOf(a) * d
<1>0. a \in Signed BY NumbersIs
<1>1. Normal(a.dp) /\ MagnitudeOf(a.dp) \in Nat /\ ValueOf(a) \in Int BY <1>0, SignedIs
<1>2. mp_mul_2(a) \in Numbers /\ ValueOf(mp_mul_2(a)) = 2 * ValueOf(a)
    <2>1. Normal(s_mp_mul_2(a.dp)) /\ MagnitudeOf(s_mp_mul_2(a.dp)) = 2 * MagnitudeOf(a.dp)
        <3>1. a.dp \in Seq(Digit) /\ a.dp # <<>> BY <1>1 DEF Normal
        <3> QED BY <1>1, <3>1, Mul2Is
    <2>2. 2 * MagnitudeOf(a.dp) = MagnitudeOf(a.dp) * 2 /\ 2 \in Nat /\ 2 > 0 BY <1>1
    <2>3. /\ [a EXCEPT !.dp = s_mp_mul_2(a.dp)] \in Numbers
          /\ ValueOf([a EXCEPT !.dp = s_mp_mul_2(a.dp)]) = ValueOf(a) * 2
        BY <2>1, <2>2, ScaledIs
    <2>4. ValueOf(a) * 2 = 2 * ValueOf(a) BY <1>1
    <2> QED BY <2>3, <2>4 DEF mp_mul_2
<1>3. mp_mul_d(a, d) \in Numbers /\ ValueOf(mp_mul_d(a, d)) = ValueOf(a) * d
    <2>1. d \in Nat BY DigitInt
    <2>2. CASE d = 0
        <3>1. mp_mul_d(a, d) = mp_zero BY <2>2 DEF mp_mul_d
        <3>2. ValueOf(a) * 0 = 0 BY <1>1
        <3> QED BY <2>2, <3>1, <3>2, ZeroIs
    <2>3. CASE d # 0
        <3>1. mp_mul_d(a, d) = [a EXCEPT !.dp = s_mp_mul_d(a.dp, d)] BY <2>3 DEF mp_mul_d
        <3>2. d > 0 BY <2>1, <2>3
        <3>3. Normal(s_mp_mul_d(a.dp, d)) /\ MagnitudeOf(s_mp_mul_d(a.dp, d)) = MagnitudeOf(a.dp) * d
            BY <1>1, MulDIs
        <3> QED BY <2>1, <3>1, <3>2, <3>3, ScaledIs
    <2> QED BY <2>2, <2>3
<1> QED BY <1>2, <1>3

-----------------------------------------------------------------------------
(* Squares *)

PairStep == [lo : Digit, hi : Digit, carry : Carry]

(* The square of a digit added to a pair of digits. *)
SqrPair(v, a, p, q) ==
  LET low == MulStep(MP_SQR_D(a), v.carry, p)
      hi == Wrap(low.carry + q)
  IN  [lo |-> low.d, hi |-> hi, carry |-> Bit(hi < q)]

LEMMA SqrPairIs ==
    ASSUME NEW v \in PairStep, NEW a \in Digit, NEW p \in Digit, NEW q \in Digit
    PROVE  /\ SqrPair(v, a, p, q) \in PairStep
           /\ SqrPair(v, a, p, q).lo + MP_RADIX * SqrPair(v, a, p, q).hi
                + (MP_RADIX * MP_RADIX) * SqrPair(v, a, p, q).carry
                = a * a + v.carry + p + MP_RADIX * q
<1> DEFINE k == v.carry
           s == MP_SQR_D(a)
           low == MulStep(s, k, p)
           R == MP_RADIX
           hi == Wrap(low.carry + q)
           e == Bit(hi < q)
           r == SqrPair(v, a, p, q)
<1>1. k \in Digit /\ k \in Nat BY RadixIs DEF PairStep, Carry
<1>2. s \in DigitPair /\ s.hi * R + s.lo = a * a BY SqrDIs
<1>3. a * a <= (R - 1) * (R - 1) BY ProductBound
<1>4. low \in DigitStep /\ low.d + R * low.carry = s.hi * R + s.lo + k + p
    <2> HIDE DEF s, k
    <2>1. s.hi * R + s.lo <= (R - 1) * (R - 1) BY <1>2, <1>3
    <2> QED BY <1>1, <1>2, <2>1, MulStepIs DEF R
<1>5. low.d \in Digit /\ low.carry \in Digit BY <1>4 DEF DigitStep
<1>6. r = [lo |-> low.d, hi |-> hi, carry |-> e] BY DEF SqrPair
<1> HIDE DEF low, k, s, r
<1>7. hi \in Digit /\ e \in {0, 1} /\ low.carry + q = hi + R * e BY <1>5, CarryIs
<1> HIDE DEF hi, e
<1>8. r \in PairStep BY <1>5, <1>6, <1>7 DEF PairStep, Carry
<1>9. r.lo = low.d /\ r.hi = hi /\ r.carry = e BY <1>6
<1>10. low.d + R * hi + (R * R) * e = a * a + k + p + R * q
    <2> DEFINE c == low.carry
               d == low.d
    <2>1. R \in Nat /\ c \in Nat /\ d \in Nat /\ q \in Nat /\ p \in Nat /\ hi \in Nat /\ e \in Nat /\ a \in Nat
        BY <1>5, <1>7, DigitInt, RadixIs
    <2>2. d + R * c = a * a + k + p /\ c + q = hi + R * e BY <1>2, <1>4, <1>7
    <2> HIDE DEF c, d, R
    <2>3. R * (c + q) = R * c + R * q /\ R * (hi + R * e) = R * hi + (R * R) * e BY <2>1
    <2> DEFINE rc == R * c
               rq == R * q
               rh == R * hi
               re == (R * R) * e
               sq == a * a
    <2>4. rc \in Nat /\ rq \in Nat /\ rh \in Nat /\ re \in Nat /\ sq \in Nat BY <2>1
    <2>5. rc + rq = rh + re /\ d + rc = sq + k + p BY <2>2, <2>3
    <2> HIDE DEF rc, rq, rh, re, sq
    <2>6. d + rh + re = sq + k + p + rq BY <1>1, <2>1, <2>4, <2>5
    <2> QED BY <2>6 DEF rc, rq, rh, re, sq, d
<1> QED BY <1>8, <1>9, <1>10 DEF r, k, R

PairsFrom(r, m) == [i \in 1 .. m |-> IF i % 2 = 1 THEN r[(i + 1) \div 2].lo ELSE r[i \div 2].hi]

(* The run of s_mpv_sqr_add_prop. *)
LEMMA SqrRun ==
    ASSUME NEW a \in Seq(Digit), NEW ps \in Seq(Digit), 2 * Len(a) <= Len(ps)
    PROVE  \E r : /\ \A i \in 0 .. Len(a) : r[i] \in PairStep
                  /\ r[0].carry = 0
                  /\ \A i \in 1 .. Len(a) :
                       r[i] = SqrPair(r[i - 1], At(a, i), At(ps, 2 * i - 1), At(ps, 2 * i))
                  /\ s_mpv_sqr_add_prop(a, ps)
                       = PairsFrom(r, 2 * Len(a))
                           \o IF r[Len(a)].carry = 0 THEN SubSeq(ps, 2 * Len(a) + 1, Len(ps))
                              ELSE AddDigits(SubSeq(ps, 2 * Len(a) + 1, Len(ps)), <<1>>)
<1> DEFINE n == Len(a)
           first == [lo |-> 0, hi |-> 0, carry |-> 0]
           Step(v, i) == SqrPair(v, a[i], ps[2 * i - 1], ps[2 * i])
           Body(h) == [i \in 0 .. n |-> IF i = 0 THEN first ELSE Step(h[i - 1], i)]
           c == CHOOSE h : h = Body(h)
           V == PairStep
           I == [j \in Nat |-> PairStep]
           g == [v \in V \X Nat |-> Step(v[1], v[2])]
<1>n. n \in Nat OBVIOUS
<1>0. s_mpv_sqr_add_prop(a, ps)
        = PairsFrom(c, 2 * n) \o IF c[n].carry = 0 THEN SubSeq(ps, 2 * n + 1, Len(ps))
                                 ELSE AddDigits(SubSeq(ps, 2 * n + 1, Len(ps)), <<1>>)
    BY DEF s_mpv_sqr_add_prop, PairsFrom, SqrPair
<1>1. \A j \in Nat : I[j] = PairStep OBVIOUS
<1>2. ASSUME NEW i \in 1 .. n
      PROVE  /\ a[i] = At(a, i) /\ ps[2 * i - 1] = At(ps, 2 * i - 1) /\ ps[2 * i] = At(ps, 2 * i)
             /\ a[i] \in Digit /\ ps[2 * i - 1] \in Digit /\ ps[2 * i] \in Digit
    <2>1. 2 * i - 1 \in 1 .. Len(ps) /\ 2 * i \in 1 .. Len(ps) BY <1>n
    <2>2. a[i] \in Digit /\ ps[2 * i - 1] \in Digit /\ ps[2 * i] \in Digit BY <2>1
    <2>3. i \in 1 .. Len(a) OBVIOUS
    <2> QED BY <2>1, <2>2, <2>3 DEF At
<1>L1. first \in I[0] BY RadixIs DEF PairStep, Carry
<1>L2. ASSUME NEW j \in 0 .. n - 1, NEW v \in I[j] PROVE Step(v, j + 1) \in I[j + 1]
    <2>1. j \in Nat /\ j + 1 \in Nat /\ j + 1 \in 1 .. n BY <1>n
    <2> HIDE DEF I, n
    <2>2. v \in PairStep BY <1>1, <2>1
    <2>3. Step(v, j + 1) \in PairStep BY <1>2, <2>1, <2>2, SqrPairIs
    <2> QED BY <1>1, <2>1, <2>3
<1>L3. \A i \in 0 .. n : I[i] \subseteq V
    <2>1. \A i \in 0 .. n : i \in Nat BY <1>n
    <2> HIDE DEF I
    <2> QED BY <1>1, <2>1
<1>L4. \A v \in V, i \in Nat : g[<<v, i>>] = Step(v, i)
    <2> HIDE DEF Step, V, I
    <2> QED OBVIOUS
<1>L5. PICK h \in [0 .. n -> V] :
         \A i \in 0 .. n : h[i] \in I[i] /\ h[i] = IF i = 0 THEN first ELSE g[<<h[i - 1], i>>]
    <2> HIDE DEF g, I, first, V, Step, n
    <2>1. ASSUME NEW i \in 0 .. n - 1, NEW v \in I[i] PROVE g[<<v, i + 1>>] \in I[i + 1]
        <3>1. i \in 0 .. n /\ i + 1 \in Nat BY <1>n
        <3>2. v \in V BY <1>L3, <3>1
        <3> QED BY <1>L2, <1>L4, <3>1, <3>2
    <2>2. StaysIn(I, V, first, g, n) BY <1>L1, <1>L3, <2>1 DEF StaysIn
    <2>3. \E q \in [0 .. n -> V] : RecursesUpto(q, first, g, n) /\ \A i \in 0 .. n : q[i] \in I[i]
        BY <1>n, <2>2, UptoStates
    <2> QED BY <2>3 DEF RecursesUpto
<1>L6. ASSUME NEW i \in 0 .. n PROVE h[i] = IF i = 0 THEN first ELSE Step(h[i - 1], i)
    <2> HIDE DEF g, I, first, V, Step, n
    <2>1. CASE i = 0 BY <1>L5, <2>1
    <2>2. CASE i # 0
        <3>1. i - 1 \in 0 .. n /\ i \in Nat BY <1>n, <2>2
        <3>2. h[i - 1] \in V BY <1>L5, <3>1
        <3> QED BY <1>L4, <1>L5, <2>2, <3>1, <3>2
    <2> QED BY <2>1, <2>2
<1> HIDE DEF g
<1>L7. h = Body(h)
    <2> DEFINE t == Body(h)
    <2>1. \A i \in 0 .. n : t[i] = IF i = 0 THEN first ELSE Step(h[i - 1], i) OBVIOUS
    <2>2. t = [i \in 0 .. n |-> t[i]] /\ h = [i \in 0 .. n |-> h[i]] OBVIOUS
    <2> HIDE DEF t, Step, first, I, V, n
    <2>3. \A i \in 0 .. n : h[i] = t[i] BY <1>L6, <2>1
    <2>4. h = t BY <2>2, <2>3
    <2> QED BY <2>4 DEF t, Step, first, n
<1>L8. c = Body(c) BY <1>L7
<1> HIDE DEF c
<1>L9. \A i \in 0 .. n : c[i] = IF i = 0 THEN first ELSE Step(c[i - 1], i)
    <2> DEFINE t == Body(c)
    <2>1. \A i \in 0 .. n : t[i] = IF i = 0 THEN first ELSE Step(c[i - 1], i) OBVIOUS
    <2>2. c = t BY <1>L8
    <2> HIDE DEF t, Step, first, n
    <2> QED BY <2>1, <2>2
<1> HIDE DEF Body, I, V, first, Step, n
<1>La. \A i \in 0 .. n : c[i] \in I[i]
    <2> DEFINE P == {i \in Nat : c[i] \in I[i]}
    <2>1. 0 \in P
        <3>1. 0 \in 0 .. n BY <1>n
        <3> QED BY <1>L1, <1>L9, <3>1
    <2>2. ASSUME NEW i \in 0 .. n - 1, i \in P PROVE i + 1 \in P
        <3>1. i + 1 \in 0 .. n /\ i + 1 \in Nat /\ i + 1 # 0 /\ (i + 1) - 1 = i BY <1>n
        <3>2. c[i] \in I[i] BY <2>2
        <3>3. c[i + 1] = Step(c[i], i + 1) BY <1>L9, <3>1
        <3>4. Step(c[i], i + 1) \in I[i + 1] BY <1>L2, <3>2
        <3> QED BY <3>1, <3>3, <3>4
    <2> HIDE DEF P
    <2>3. \A i \in 0 .. n : i \in P BY <1>n, <2>1, <2>2, UptoInduct
    <2> QED BY <2>3 DEF P
<1>3. \A i \in 0 .. n : c[i] \in PairStep
    <2>1. \A i \in 0 .. n : i \in Nat BY <1>n
    <2> QED BY <1>1, <1>La, <2>1
<1>4. c[0].carry = 0
    <2>1. 0 \in 0 .. n BY <1>n
    <2>2. c[0] = first BY <1>L9, <2>1
    <2> QED BY <2>2 DEF first
<1>5. ASSUME NEW i \in 1 .. n
      PROVE  c[i] = SqrPair(c[i - 1], At(a, i), At(ps, 2 * i - 1), At(ps, 2 * i))
    <2>1. i \in 0 .. n /\ i # 0 BY <1>n
    <2>2. c[i] = Step(c[i - 1], i) BY <1>L9, <2>1
    <2>3. Step(c[i - 1], i) = SqrPair(c[i - 1], a[i], ps[2 * i - 1], ps[2 * i]) BY DEF Step
    <2> QED BY <1>2, <2>2, <2>3
<1> QED BY <1>0, <1>3, <1>4, <1>5 DEF n

Squares(a) == [i \in Nat |-> (At(a, i + 1) * At(a, i + 1)) * Weight(2 * i)]
SquaresPart(a, n) == Sigma(Squares(a), n)

LEMMA SquaresPartIs ==
    ASSUME NEW a \in Seq(Digit), NEW n \in Nat
    PROVE  /\ SquaresPart(a, 0) = 0 /\ SquaresPart(a, n) \in Int
           /\ SquaresPart(a, n + 1)
                = SquaresPart(a, n) + (At(a, n + 1) * At(a, n + 1)) * Weight(2 * n)
<1>1. ASSUME NEW i \in Nat PROVE (At(a, i + 1) * At(a, i + 1)) * Weight(2 * i) \in Int
    <2>1. i + 1 \in Int /\ 2 * i \in Nat OBVIOUS
    <2>2. At(a, i + 1) \in Digit BY <2>1, AtIs
    <2>3. At(a, i + 1) \in Int BY <2>2, DigitInt
    <2>4. Weight(2 * i) \in Nat BY <2>1, WeightIs
    <2> QED BY <2>3, <2>4
<1>2. Squares(a) \in Terms BY <1>1 DEF Squares, Terms
<1>3. Squares(a)[n] = (At(a, n + 1) * At(a, n + 1)) * Weight(2 * n) BY DEF Squares
<1> QED BY <1>2, <1>3, SigmaStep DEF SquaresPart

LEMMA PairsFromIs ==
    ASSUME NEW r, NEW n \in Nat, \A i \in 0 .. n : r[i] \in PairStep
    PROVE  /\ PairsFrom(r, 2 * n) \in Seq(Digit) /\ Len(PairsFrom(r, 2 * n)) = 2 * n
           /\ \A i \in 1 .. n : /\ At(PairsFrom(r, 2 * n), 2 * i - 1) = r[i].lo
                                /\ At(PairsFrom(r, 2 * n), 2 * i) = r[i].hi
<1> DEFINE s == PairsFrom(r, 2 * n)
           E(i) == IF i % 2 = 1 THEN r[(i + 1) \div 2].lo ELSE r[i \div 2].hi
<1>0. 2 * n \in Nat OBVIOUS
<1>1. \A i \in 0 .. n : r[i].lo \in Digit /\ r[i].hi \in Digit BY DEF PairStep
<1>2. ASSUME NEW i \in 1 .. 2 * n PROVE E(i) \in Digit
    <2>1. CASE i % 2 = 1
        <3>1. (i + 1) \div 2 \in 0 .. n OBVIOUS
        <3> QED BY <1>1, <2>1, <3>1
    <2>2. CASE i % 2 # 1
        <3>1. i \div 2 \in 0 .. n OBVIOUS
        <3> QED BY <1>1, <2>2, <3>1
    <2> QED BY <2>1, <2>2
<1>3. s = [i \in 1 .. 2 * n |-> E(i)] BY DEF PairsFrom
<1>4. s \in Seq(Digit) /\ Len(s) = 2 * n
    <2> HIDE DEF E, s
    <2>1. s \in [1 .. 2 * n -> Digit] BY <1>2, <1>3
    <2> QED BY <1>0, <2>1
<1>5. ASSUME NEW i \in 1 .. n PROVE At(s, 2 * i - 1) = r[i].lo /\ At(s, 2 * i) = r[i].hi
    <2>1. 2 * i - 1 \in 1 .. 2 * n /\ 2 * i \in 1 .. 2 * n OBVIOUS
    <2>2. (2 * i - 1) % 2 = 1 /\ (2 * i) % 2 = 0 /\ ((2 * i - 1) + 1) \div 2 = i /\ (2 * i) \div 2 = i
        OBVIOUS
    <2>3. E(2 * i - 1) = r[i].lo /\ E(2 * i) = r[i].hi BY <2>2
    <2> HIDE DEF E, s
    <2>4. s[2 * i - 1] = r[i].lo /\ s[2 * i] = r[i].hi BY <1>3, <2>1, <2>3
    <2> QED BY <1>4, <2>1, <2>4 DEF At
<1> QED BY <1>4, <1>5 DEF s

(* The squares of the digits of a added to ps. *)
LEMMA SqrAddPropIs ==
    ASSUME NEW a \in Seq(Digit), NEW ps \in Seq(Digit), 2 * Len(a) <= Len(ps), ps # <<>>
    PROVE  /\ s_mpv_sqr_add_prop(a, ps) \in Seq(Digit)
           /\ Len(s_mpv_sqr_add_prop(a, ps)) >= 2 * Len(a)
           /\ MagnitudeOf(s_mpv_sqr_add_prop(a, ps))
                = SquaresPart(a, Len(a)) + MagnitudeOf(ps)
<1> DEFINE n == Len(a)
<1>0. n \in Nat /\ 2 * n \in Nat /\ 2 * n \in 0 .. Len(ps) OBVIOUS
<1>1. PICK r : /\ \A i \in 0 .. n : r[i] \in PairStep
               /\ r[0].carry = 0
               /\ \A i \in 1 .. n :
                    r[i] = SqrPair(r[i - 1], At(a, i), At(ps, 2 * i - 1), At(ps, 2 * i))
               /\ s_mpv_sqr_add_prop(a, ps)
                    = PairsFrom(r, 2 * n)
                        \o IF r[n].carry = 0 THEN SubSeq(ps, 2 * n + 1, Len(ps))
                           ELSE AddDigits(SubSeq(ps, 2 * n + 1, Len(ps)), <<1>>)
    BY SqrRun
<1> HIDE DEF n
<1> DEFINE s == PairsFrom(r, 2 * n)
<1>2. /\ s \in Seq(Digit) /\ Len(s) = 2 * n
      /\ \A i \in 1 .. n : At(s, 2 * i - 1) = r[i].lo /\ At(s, 2 * i) = r[i].hi
    BY <1>0, <1>1, PairsFromIs
<1> HIDE DEF s
<1> DEFINE P == {i \in Nat : Part(s, 2 * i) + r[i].carry * Weight(2 * i)
                               = SquaresPart(a, i) + Part(ps, 2 * i)}
<1>3. 0 \in P
    <2>1. Part(s, 0) = 0 /\ SquaresPart(a, 0) = 0 /\ Part(ps, 0) = 0
        BY <1>2, PartIs, SquaresPartIs
    <2>2. r[0].carry * Weight(2 * 0) = 0
        <3>1. 2 * 0 = 0 /\ Weight(0) = 1 BY WeightIs
        <3> QED BY <1>1, <3>1
    <2>3. 2 * 0 = 0 OBVIOUS
    <2> QED BY <2>1, <2>2, <2>3
<1>4. ASSUME NEW i \in 0 .. n - 1, i \in P PROVE i + 1 \in P
    <2> DEFINE j == 2 * i
               w == Weight(j)
               d == At(a, i + 1)
               p == At(ps, j + 1)
               q == At(ps, (j + 1) + 1)
               k == r[i].carry
               lo == r[i + 1].lo
               hi == r[i + 1].hi
               e == r[i + 1].carry
               R == MP_RADIX
               Ss == Part(s, j)
               Qs == SquaresPart(a, i)
               Ps == Part(ps, j)
    <2>1. /\ i \in Nat /\ i + 1 \in 1 .. n /\ i + 1 \in Int /\ (i + 1) - 1 = i
          /\ i \in 0 .. n /\ i + 1 \in 0 .. n /\ j \in Nat /\ j + 1 \in Nat
          /\ 2 * (i + 1) = (j + 1) + 1 /\ 2 * (i + 1) - 1 = j + 1 /\ (j + 1) + 1 \in Nat
        BY <1>0
    <2>2. /\ Part(s, j + 1) = Ss + At(s, j + 1) * w /\ Ss \in Nat
          /\ Part(ps, j + 1) = Ps + p * w /\ Ps \in Nat
        BY <1>2, <2>1, PartIs
    <2>3. /\ Part(s, (j + 1) + 1) = Part(s, j + 1) + At(s, (j + 1) + 1) * Weight(j + 1)
          /\ Part(ps, (j + 1) + 1) = Part(ps, j + 1) + q * Weight(j + 1)
        BY <1>2, <2>1, PartIs
    <2>4. SquaresPart(a, i + 1) = Qs + (d * d) * w /\ Qs \in Int BY <2>1, SquaresPartIs
    <2>5. w \in Nat /\ Weight(j + 1) = R * w /\ Weight((j + 1) + 1) = R * Weight(j + 1)
        BY <2>1, WeightIs
    <2>6. At(s, j + 1) = lo /\ At(s, (j + 1) + 1) = hi
        <3>1. At(s, 2 * (i + 1) - 1) = lo /\ At(s, 2 * (i + 1)) = hi BY <1>2, <2>1
        <3> QED BY <2>1, <3>1
    <2>7. d \in Digit /\ p \in Digit /\ q \in Digit
        <3>1. d \in Digit BY <2>1, AtIs
        <3>2. p \in Digit /\ q \in Digit
            <4>1. j + 1 \in Int /\ (j + 1) + 1 \in Int BY <2>1
            <4> QED BY <4>1, AtIs
        <3> QED BY <3>1, <3>2
    <2>8. r[i] \in PairStep /\ r[i + 1] \in PairStep BY <1>1, <2>1
    <2>9. k \in Digit /\ lo \in Digit /\ hi \in Digit /\ e \in Nat
        <3>1. k \in Carry /\ e \in Carry /\ lo \in Digit /\ hi \in Digit BY <2>8 DEF PairStep
        <3>2. k \in Digit /\ e \in Nat BY <3>1, RadixIs DEF Carry
        <3> QED BY <3>1, <3>2
    <2>10. r[i + 1] = SqrPair(r[i], d, p, q)
        <3>1. r[i + 1] = SqrPair(r[(i + 1) - 1], At(a, i + 1), At(ps, 2 * (i + 1) - 1), At(ps, 2 * (i + 1)))
            BY <1>1, <2>1
        <3> QED BY <2>1, <3>1
    <2>11. lo + R * hi + (R * R) * e = d * d + k + p + R * q
        <3> DEFINE f == SqrPair(r[i], d, p, q)
        <3> HIDE DEF d, p, q
        <3>1. f.lo + R * f.hi + (R * R) * f.carry = d * d + k + p + R * q
            BY <2>7, <2>8, SqrPairIs
        <3>2. r[i + 1] = f BY <2>10
        <3> HIDE DEF f, R, k
        <3> QED BY <3>1, <3>2
    <2>12. i \in P BY <1>4
    <2>13. Ss + k * w = Qs + Ps BY <2>12
    <2>14. /\ d \in Nat /\ p \in Nat /\ q \in Nat /\ k \in Nat /\ lo \in Nat /\ hi \in Nat
           /\ e \in Nat /\ R \in Nat
        BY <2>7, <2>9, DigitInt, RadixIs
    <2>15. SUFFICES Part(s, (j + 1) + 1) + e * Weight((j + 1) + 1)
                      = SquaresPart(a, i + 1) + Part(ps, (j + 1) + 1)
        BY <2>1
    <2> HIDE DEF w, d, p, q, k, lo, hi, e, R, Ss, Qs, Ps, P
    <2>16. (lo + R * hi + (R * R) * e) * w = lo * w + hi * (R * w) + e * (R * (R * w))
        BY <2>5, <2>14
    <2>17. (d * d + k + p + R * q) * w = (d * d) * w + k * w + p * w + q * (R * w)
        BY <2>5, <2>14
    <2> DEFINE lw == lo * w
               hw == hi * (R * w)
               ew == e * (R * (R * w))
               dw == (d * d) * w
               kw == k * w
               pw == p * w
               qw == q * (R * w)
    <2>18. /\ lw \in Nat /\ hw \in Nat /\ ew \in Nat /\ dw \in Nat /\ kw \in Nat /\ pw \in Nat
           /\ qw \in Nat
        BY <2>5, <2>14
    <2>19. lw + hw + ew = dw + kw + pw + qw BY <2>11, <2>16, <2>17
    <2>20. /\ Part(s, (j + 1) + 1) = Ss + lw + hw /\ e * Weight((j + 1) + 1) = ew
           /\ Part(ps, (j + 1) + 1) = Ps + pw + qw /\ SquaresPart(a, i + 1) = Qs + dw
           /\ Ss + kw = Qs + Ps
        BY <2>2, <2>3, <2>4, <2>5, <2>6, <2>13
    <2> HIDE DEF lw, hw, ew, dw, kw, pw, qw
    <2>21. Ss + lw + hw + ew = Qs + dw + (Ps + pw + qw) BY <2>2, <2>4, <2>18, <2>19, <2>20
    <2> QED BY <2>20, <2>21
<1> HIDE DEF P
<1>5. \A i \in 0 .. n : i \in P BY <1>0, <1>3, <1>4, UptoInduct
<1>6. Part(s, 2 * n) + r[n].carry * Weight(2 * n) = SquaresPart(a, n) + Part(ps, 2 * n)
    <2>1. n \in P BY <1>0, <1>5
    <2> QED BY <2>1 DEF P
<1>7. Part(s, 2 * n) = MagnitudeOf(s)
    <2>1. 2 * n >= Len(s) BY <1>0, <1>2
    <2> QED BY <1>0, <1>2, <2>1, MagnitudeIs
<1> DEFINE u == SubSeq(ps, 2 * n + 1, Len(ps))
           t == IF r[n].carry = 0 THEN u ELSE AddDigits(u, <<1>>)
           k == r[n].carry
           w == Weight(2 * n)
<1>8. u \in Seq(Digit) /\ MagnitudeOf(ps) = Part(ps, 2 * n) + w * MagnitudeOf(u)
    BY <1>0, SuffixIs
<1> HIDE DEF u
<1>9. t \in Seq(Digit) /\ MagnitudeOf(t) = MagnitudeOf(u) + k /\ k \in Nat
    <2>1. n \in 0 .. n BY <1>0
    <2>2. k \in Carry BY <1>1, <2>1 DEF PairStep
    <2>3. CASE k = 0
        <3>1. MagnitudeOf(u) + 0 = MagnitudeOf(u)
            <4>1. MagnitudeOf(u) \in Nat BY <1>8, MagnitudeIs
            <4> QED BY <4>1
        <3> QED BY <1>8, <2>3, <3>1
    <2>4. CASE k = 1
        <3>1. 1 \in Digit /\ <<1>> \in Seq(Digit) BY RadixIs
        <3>2. MagnitudeOf(<<1>>) = 1 BY <3>1, OneDigit
        <3> DEFINE m == IF Len(u) > Len(<<1>>) THEN Len(u) ELSE Len(<<1>>)
        <3>3. m \in Nat BY <1>8
        <3>4. /\ AddDigits(u, <<1>>) \in Seq(Digit)
              /\ MagnitudeOf(AddDigits(u, <<1>>)) = MagnitudeOf(u) + MagnitudeOf(<<1>>)
            BY <1>8, <3>1, <3>3, AddDigitsValue
        <3>5. t = AddDigits(u, <<1>>) BY <2>4
        <3> QED BY <2>4, <3>2, <3>4, <3>5
    <2> QED BY <2>2, <2>3, <2>4 DEF Carry
<1> HIDE DEF t
<1>10. s_mpv_sqr_add_prop(a, ps) = s \o t BY <1>1 DEF s, t, u
<1>11. /\ s \o t \in Seq(Digit) /\ Len(s \o t) = 2 * n + Len(t)
       /\ MagnitudeOf(s \o t) = MagnitudeOf(s) + w * MagnitudeOf(t)
    <2>1. /\ s \o t \in Seq(Digit) /\ Len(s \o t) = Len(s) + Len(t)
          /\ MagnitudeOf(s \o t) = MagnitudeOf(s) + Weight(Len(s)) * MagnitudeOf(t)
        BY <1>2, <1>9, ConcatIs
    <2> QED BY <1>2, <2>1
<1>12. MagnitudeOf(s) + w * MagnitudeOf(t) = SquaresPart(a, n) + MagnitudeOf(ps)
    <2> DEFINE mu == MagnitudeOf(u)
               ms == MagnitudeOf(s)
               pp == Part(ps, 2 * n)
               sq == SquaresPart(a, n)
    <2>1. mu \in Nat BY <1>8, MagnitudeIs
    <2>2. ms \in Nat BY <1>2, MagnitudeIs
    <2>3. pp \in Nat BY <1>0, PartIs
    <2>4. sq \in Int BY <1>0, SquaresPartIs
    <2>5. w \in Nat BY <1>0, WeightIs
    <2> HIDE DEF mu, ms, pp, sq, w, k
    <2>6. w * (mu + k) = w * mu + k * w BY <1>9, <2>1, <2>5
    <2> DEFINE wm == w * mu
               kw == k * w
    <2>7. wm \in Nat /\ kw \in Nat BY <1>9, <2>1, <2>5
    <2>8. ms + kw = sq + pp BY <1>6, <1>7 DEF ms, sq, pp, k, w
    <2>9. MagnitudeOf(ps) = pp + wm BY <1>8 DEF pp, mu
    <2>10. w * MagnitudeOf(t) = wm + kw BY <1>9, <2>6 DEF mu
    <2> HIDE DEF wm, kw
    <2>11. ms + (wm + kw) = sq + (pp + wm) BY <2>2, <2>3, <2>4, <2>7, <2>8
    <2> QED BY <2>9, <2>10, <2>11 DEF ms, sq
<1>13. Len(s \o t) >= 2 * n
    <2>1. Len(t) \in Nat BY <1>9
    <2> QED BY <1>0, <1>11, <2>1
<1> QED BY <1>10, <1>11, <1>12, <1>13 DEF n

-----------------------------------------------------------------------------
(* mp_sqr *)

(* What a row adds, with B the part of the number from the i-th digit on, t  *)
(* that digit at its place and C the rest: the square of B is split once     *)
(* more, and the cross product stays below t times the whole number.         *)
LEMMA CrossProduct ==
    ASSUME NEW t \in Nat, NEW C \in Nat, NEW S \in Int, NEW c \in Nat, NEW Q \in Int,
           2 * c + S + (t + C) * (t + C) = Q
    PROVE  2 * (c + t * C) + (S + t * t) + C * C = Q
<1> DEFINE tc == t * C
           tt == t * t
           cc == C * C
<1>1. (t + C) * (t + C) = t * t + 2 * (t * C) + C * C OBVIOUS
<1>2. tc \in Nat /\ tt \in Nat /\ cc \in Nat OBVIOUS
<1>3. 2 * c + S + (tt + 2 * tc + cc) = Q BY <1>1
<1> HIDE DEF tc, tt, cc
<1>4. 2 * (c + tc) + (S + tt) + cc = Q BY <1>2, <1>3
<1> QED BY <1>4 DEF tc, tt, cc

(* The loop of mp_sqr over the digits below the top one. *)
CrossRow(dp, row, i) ==
  AddedAt(row, 2 * i - 1, s_mpv_mul_d_add(SubSeq(dp, i + 1, Len(dp)), dp[i],
                                           SubSeq(row, 2 * i, 2 * Len(dp))))

CrossState(dp, j) ==
  {r \in Seq(Digit) : /\ Len(r) = 2 * Len(dp)
                      /\ MagnitudeOf(r) <= Part(dp, j) * MagnitudeOf(dp)
                      /\ 2 * MagnitudeOf(r) + SquaresPart(dp, j)
                           + (MagnitudeOf(dp) - Part(dp, j)) * (MagnitudeOf(dp) - Part(dp, j))
                           = MagnitudeOf(dp) * MagnitudeOf(dp)}

LEMMA CrossRowIs ==
    ASSUME NEW dp \in Seq(Digit), NEW j \in Nat, j < Len(dp) - 1, NEW row \in CrossState(dp, j)
    PROVE  CrossRow(dp, row, j + 1) \in CrossState(dp, j + 1)
<1> DEFINE n == Len(dp)
           i == j + 1
           k == 2 * i - 1
           d == dp[i]
           suf == SubSeq(dp, i + 1, n)
           A == MagnitudeOf(dp)
           C == MagnitudeOf(suf)
           P == Part(dp, j)
           w == Weight(j)
           t == d * w
           r == CrossRow(dp, row, i)
           S == SquaresPart(dp, j)
           c == MagnitudeOf(row)
<1>1. /\ n \in Nat /\ i \in Nat /\ i \in 1 .. n /\ i \in 0 .. n /\ k \in Nat /\ n > i
      /\ k + 1 = 2 * i /\ k = j + i
    OBVIOUS
<1>2. /\ row \in Seq(Digit) /\ Len(row) = 2 * n
      /\ c <= P * A /\ 2 * c + S + (A - P) * (A - P) = A * A
    BY DEF CrossState
<1>3. d \in Digit /\ At(dp, i) = d BY <1>1 DEF At
<1>4. suf \in Seq(Digit) /\ Len(suf) = n - i /\ A = Part(dp, i) + Weight(i) * C
    BY <1>1, SuffixIs
<1> HIDE DEF suf
<1>5. C \in Nat BY <1>4, MagnitudeIs
<1>6. A \in Nat /\ A < Weight(n) BY MagnitudeIs
<1>7. c \in Nat BY <1>2, MagnitudeIs
<1>8. /\ P \in Nat /\ P < w /\ Part(dp, i) = P + t /\ S \in Int
      /\ SquaresPart(dp, i) = S + (d * d) * Weight(2 * j)
    BY <1>1, <1>3, PartIs, SquaresPartIs
<1>9. /\ w \in Nat /\ d \in Nat /\ Weight(n) \in Nat /\ Weight(i) \in Nat
      /\ Weight(j + n) = w * Weight(n) /\ Weight(k) = w * Weight(i) /\ Weight(2 * j) = w * w
    <2>1. w \in Nat /\ Weight(n) \in Nat /\ Weight(i) \in Nat BY <1>1, WeightIs
    <2>2. Weight(j + n) = w * Weight(n) /\ Weight(j + i) = w * Weight(i) /\ Weight(j + j) = w * w
        BY <1>1, WeightSum
    <2>3. 2 * j = j + j OBVIOUS
    <2>4. d \in Nat BY <1>3, DigitInt
    <2> QED BY <1>1, <2>1, <2>2, <2>3, <2>4
<1>10. t \in Nat BY <1>9
<1>11. r = AddedAt(row, k, s_mpv_mul_d_add(suf, d, SubSeq(row, k + 1, Len(row))))
    BY <1>1, <1>2 DEF CrossRow, suf
<1> DEFINE U == Weight(i) * C
<1>12. U \in Nat BY <1>5, <1>9
<1>13. A - P = t + U /\ A - Part(dp, i) = U BY <1>4, <1>6, <1>8, <1>10, <1>12
<1> HIDE DEF r, c, S, P, A, C
<1>14. c < Weight(k + Len(suf))
    <2>1. P * A < w * Weight(n) BY <1>6, <1>8, <1>9, LessTimes
    <2>2. k + Len(suf) = j + n BY <1>1, <1>4
    <2> HIDE DEF w
    <2>3. P * A \in Nat /\ w * Weight(n) \in Nat
        <3> DEFINE u == Weight(n)
        <3>1. u \in Nat BY <1>9
        <3> HIDE DEF u
        <3>2. w * u \in Nat BY <1>9, <3>1
        <3>3. P * A \in Nat BY <1>6, <1>8
        <3> QED BY <3>2, <3>3 DEF u
    <2>4. c < w * Weight(n) BY <1>2, <1>7, <2>1, <2>3
    <2> QED BY <1>9, <2>2, <2>4
<1>15. k + Len(suf) + 1 <= Len(row) BY <1>1, <1>2, <1>4
<1>16. r \in Seq(Digit) /\ Len(r) = 2 * n /\ MagnitudeOf(r) = c + Weight(k) * (C * d)
    <2> DEFINE q == AddedAt(row, k, s_mpv_mul_d_add(suf, d, SubSeq(row, k + 1, Len(row))))
    <2>1. /\ q \in Seq(Digit) /\ Len(q) = Len(row)
          /\ MagnitudeOf(q) = MagnitudeOf(row) + Weight(k) * (MagnitudeOf(suf) * d)
        <3>1. MagnitudeOf(row) < Weight(k + Len(suf)) BY <1>14 DEF c
        <3>2. row \in Seq(Digit) /\ d \in Digit /\ suf \in Seq(Digit) /\ k \in Nat
            BY <1>1, <1>2, <1>3, <1>4
        <3> HIDE DEF d, k, n, i
        <3> QED BY <1>15, <3>1, <3>2, RowIs
    <2> QED BY <1>2, <1>11, <2>1 DEF c, C
<1>17. Weight(k) * (C * d) = t * U
    <2> DEFINE v == Weight(i)
    <2>1. v \in Nat BY <1>9
    <2>2. (w * v) * (C * d) = (d * w) * (v * C)
        <3> HIDE DEF w, v, d
        <3> QED BY <1>5, <1>9, <2>1
    <2> QED BY <1>9, <2>2
<1>18. (d * d) * Weight(2 * j) = t * t
    <2>1. (d * d) * (w * w) = (d * w) * (d * w)
        <3> HIDE DEF w, d
        <3> QED BY <1>9
    <2> QED BY <1>9, <2>1
<1> HIDE DEF t, U, d, w, k
<1>19. MagnitudeOf(r) = c + t * U BY <1>16, <1>17
<1>20. 2 * (c + t * U) + (S + t * t) + U * U = A * A
    <2>1. 2 * c + S + (t + U) * (t + U) = A * A BY <1>2, <1>13
    <2> QED BY <1>6, <1>7, <1>8, <1>10, <1>12, <2>1, CrossProduct
<1>21. c + t * U <= (P + t) * A
    <2>1. U <= A BY <1>4, <1>6, <1>8, <1>10, <1>12, <1>13
    <2>2. t * U <= t * A BY <1>6, <1>10, <1>12, <2>1, LessTimes
    <2>3. (P + t) * A = P * A + t * A BY <1>6, <1>8, <1>10
    <2>4. t * U \in Nat /\ t * A \in Nat /\ P * A \in Nat BY <1>6, <1>8, <1>10, <1>12
    <2>5. c + t * U <= P * A + t * A BY <1>2, <1>7, <2>2, <2>4
    <2> QED BY <2>3, <2>5
<1>22. MagnitudeOf(r) <= Part(dp, i) * A BY <1>8, <1>19, <1>21
<1>23. 2 * MagnitudeOf(r) + SquaresPart(dp, i) + (A - Part(dp, i)) * (A - Part(dp, i)) = A * A
    BY <1>8, <1>13, <1>18, <1>19, <1>20
<1> QED BY <1>16, <1>22, <1>23 DEF CrossState, A, n, r

LEMMA SqrIs ==
    ASSUME NEW a \in Signed
    PROVE  /\ mp_sqr(a) \in Numbers /\ mp_sqr(a).sign = ZPOS
           /\ ValueOf(mp_sqr(a)) = ValueOf(a) * ValueOf(a)
<1> DEFINE dp == a.dp
           n == Len(dp)
           N == n - 1
           A == MagnitudeOf(dp)
           first == Zeros(2 * n)
           Step(v, i) == CrossRow(dp, v, i)
           Body(h) == [i \in 0 .. N |-> IF i = 0 THEN first ELSE Step(h[i - 1], i)]
           c == CHOOSE h : h = Body(h)
           V == Seq(Digit)
           I == [j \in Nat |-> CrossState(dp, j)]
           g == [v \in V \X Nat |-> Step(v[1], v[2])]
           doubled == IF n = 1 THEN Zeros(2) ELSE s_mp_mul_2(c[N])
           out == s_mpv_sqr_add_prop(dp, doubled)
<1>1. Normal(dp) /\ dp \in Seq(Digit) /\ dp # <<>> /\ A \in Nat
    <2>1. Normal(dp) /\ A \in Nat BY SignedIs
    <2> QED BY <2>1 DEF Normal
<1>2. n \in Nat /\ n > 0 BY <1>1
<1>n. N \in Nat BY <1>2
<1>3. mp_sqr(a) = [sign |-> ZPOS, dp |-> s_mp_clamp(out)] BY DEF mp_sqr, CrossRow, AddedAt
<1>4. \A j \in Nat : I[j] = CrossState(dp, j) OBVIOUS
<1> HIDE DEF dp, n
<1>L1. first \in I[0]
    <2>1. first \in Seq(Digit) /\ Len(first) = 2 * n /\ MagnitudeOf(first) = 0
        <3>1. 2 * n \in Nat BY <1>2
        <3> QED BY <3>1, ZerosAre
    <2> HIDE DEF first, I
    <2>2. Part(dp, 0) = 0 /\ SquaresPart(dp, 0) = 0
        <3>1. 0 \in Nat OBVIOUS
        <3> QED BY <1>1, <3>1, PartIs, SquaresPartIs
    <2> HIDE DEF A
    <2>3. 0 <= 0 * A /\ 2 * 0 + 0 + (A - 0) * (A - 0) = A * A
        <3>1. A - 0 = A /\ 0 * A = 0 BY <1>1
        <3>2. A * A \in Nat BY <1>1
        <3> QED BY <3>1, <3>2
    <2>4. first \in CrossState(dp, 0) BY <2>1, <2>2, <2>3 DEF CrossState, A, n
    <2> QED BY <1>4, <2>4
<1>L2. ASSUME NEW j \in 0 .. N - 1, NEW v \in I[j] PROVE Step(v, j + 1) \in I[j + 1]
    <2>1. j \in Nat /\ j + 1 \in Nat /\ j < n - 1 BY <1>2
    <2> HIDE DEF I
    <2>2. v \in CrossState(dp, j) BY <1>4, <2>1
    <2>3. CrossRow(dp, v, j + 1) \in CrossState(dp, j + 1) BY <1>1, <2>1, <2>2, CrossRowIs DEF n
    <2> QED BY <1>4, <2>1, <2>3
<1>L3. \A i \in 0 .. N : I[i] \subseteq V
    <2>1. \A i \in 0 .. N : i \in Nat BY <1>n
    <2>2. \A j : CrossState(dp, j) \subseteq Seq(Digit) BY DEF CrossState
    <2> HIDE DEF I
    <2> QED BY <1>4, <2>1, <2>2
<1>L4. \A v \in V, i \in Nat : g[<<v, i>>] = Step(v, i)
    <2> HIDE DEF Step, V, I
    <2> QED OBVIOUS
<1>L5. PICK h \in [0 .. N -> V] :
         \A i \in 0 .. N : h[i] \in I[i] /\ h[i] = IF i = 0 THEN first ELSE g[<<h[i - 1], i>>]
    <2> HIDE DEF g, I, first, V, Step, N
    <2>1. ASSUME NEW i \in 0 .. N - 1, NEW v \in I[i] PROVE g[<<v, i + 1>>] \in I[i + 1]
        <3>1. i \in 0 .. N /\ i + 1 \in Nat BY <1>n
        <3>2. v \in V BY <1>L3, <3>1
        <3> QED BY <1>L2, <1>L4, <3>1, <3>2
    <2>2. StaysIn(I, V, first, g, N) BY <1>L1, <1>L3, <2>1 DEF StaysIn
    <2>3. \E q \in [0 .. N -> V] : RecursesUpto(q, first, g, N) /\ \A i \in 0 .. N : q[i] \in I[i]
        BY <1>n, <2>2, UptoStates
    <2> QED BY <2>3 DEF RecursesUpto
<1>L6. ASSUME NEW i \in 0 .. N PROVE h[i] = IF i = 0 THEN first ELSE Step(h[i - 1], i)
    <2> HIDE DEF g, I, first, V, Step, N
    <2>1. CASE i = 0 BY <1>L5, <2>1
    <2>2. CASE i # 0
        <3>1. i - 1 \in 0 .. N /\ i \in Nat BY <1>n, <2>2
        <3>2. h[i - 1] \in V BY <1>L5, <3>1
        <3> QED BY <1>L4, <1>L5, <2>2, <3>1, <3>2
    <2> QED BY <2>1, <2>2
<1> HIDE DEF g
<1>L7. h = Body(h)
    <2> DEFINE t == Body(h)
    <2>1. \A i \in 0 .. N : t[i] = IF i = 0 THEN first ELSE Step(h[i - 1], i) OBVIOUS
    <2>2. t = [i \in 0 .. N |-> t[i]] /\ h = [i \in 0 .. N |-> h[i]] OBVIOUS
    <2> HIDE DEF t, Step, first, I, V, N
    <2>3. \A i \in 0 .. N : h[i] = t[i] BY <1>L6, <2>1
    <2>4. h = t BY <2>2, <2>3
    <2> QED BY <2>4 DEF t, Step, first, N
<1>L8. c = Body(c) BY <1>L7
<1> HIDE DEF c
<1>L9. \A i \in 0 .. N : c[i] = IF i = 0 THEN first ELSE Step(c[i - 1], i)
    <2> DEFINE t == Body(c)
    <2>1. \A i \in 0 .. N : t[i] = IF i = 0 THEN first ELSE Step(c[i - 1], i) OBVIOUS
    <2>2. c = t BY <1>L8
    <2> HIDE DEF t, Step, first, N
    <2> QED BY <2>1, <2>2
<1> HIDE DEF Body, I, V, first, Step, N
<1>La. \A i \in 0 .. N : c[i] \in I[i]
    <2> DEFINE P == {i \in Nat : c[i] \in I[i]}
    <2>1. 0 \in P
        <3>1. 0 \in 0 .. N BY <1>n
        <3> QED BY <1>L1, <1>L9, <3>1
    <2>2. ASSUME NEW i \in 0 .. N - 1, i \in P PROVE i + 1 \in P
        <3>1. i + 1 \in 0 .. N /\ i + 1 \in Nat /\ i + 1 # 0 /\ (i + 1) - 1 = i BY <1>n
        <3>2. c[i] \in I[i] BY <2>2
        <3>3. c[i + 1] = Step(c[i], i + 1) BY <1>L9, <3>1
        <3>4. Step(c[i], i + 1) \in I[i + 1] BY <1>L2, <3>2
        <3> QED BY <3>1, <3>3, <3>4
    <2> HIDE DEF P
    <2>3. \A i \in 0 .. N : i \in P BY <1>n, <2>1, <2>2, UptoInduct
    <2> QED BY <2>3 DEF P
<1> DEFINE t == At(dp, n) * Weight(N)
           S == SquaresPart(dp, N)
           Q == SquaresPart(dp, n)
           m == MagnitudeOf(c[N])
<1>t. t \in Nat
    <2>1. n \in Int BY <1>2
    <2>2. At(dp, n) \in Digit BY <1>1, <2>1, AtIs
    <2>3. At(dp, n) \in Nat BY <2>2, DigitInt
    <2>4. Weight(N) \in Nat BY <1>n, WeightIs
    <2> QED BY <2>3, <2>4
<1>5. c[N] \in Seq(Digit) /\ Len(c[N]) = 2 * n /\ 2 * m + S + t * t = A * A
    <2>1. N \in 0 .. N BY <1>n
    <2>2. c[N] \in CrossState(dp, N) BY <1>4, <1>n, <1>La, <2>1
    <2>3. A - Part(dp, N) = t
        <3>1. n = N + 1 BY <1>2 DEF N
        <3>2. Part(dp, n) = Part(dp, N) + t BY <1>1, <1>n, <3>1, PartIs
        <3>3. Part(dp, n) = A
            <4>1. n >= Len(dp) BY <1>2 DEF n
            <4> QED BY <1>1, <1>2, <4>1, MagnitudeIs
        <3>4. Part(dp, N) \in Nat BY <1>1, <1>n, PartIs
        <3> HIDE DEF t, A
        <3> QED BY <1>1, <1>t, <3>2, <3>3, <3>4
    <2>4. /\ c[N] \in Seq(Digit) /\ Len(c[N]) = 2 * n
          /\ 2 * m + S + (A - Part(dp, N)) * (A - Part(dp, N)) = A * A
        BY <2>2 DEF CrossState, n
    <2> HIDE DEF t, A, S, m
    <2> QED BY <2>3, <2>4
<1>6. Q = S + t * t /\ S \in Int
    <2>1. n = N + 1 BY <1>2 DEF N
    <2>2. Q = S + (At(dp, n) * At(dp, n)) * Weight(2 * N) /\ S \in Int
        BY <1>1, <1>n, <2>1, SquaresPartIs
    <2>3. Weight(2 * N) = Weight(N) * Weight(N)
        <3>1. 2 * N = N + N BY <1>n
        <3> QED BY <1>n, <3>1, WeightSum
    <2>4. At(dp, n) \in Nat
        <3>1. n \in Int BY <1>2
        <3>2. At(dp, n) \in Digit BY <1>1, <3>1, AtIs
        <3> QED BY <3>2, DigitInt
    <2>5. Weight(N) \in Nat BY <1>n, WeightIs
    <2> DEFINE d == At(dp, n)
               w == Weight(N)
    <2> HIDE DEF d, w
    <2>6. (d * d) * (w * w) = (d * w) * (d * w) BY <2>4, <2>5 DEF d, w
    <2> QED BY <2>2, <2>3, <2>6 DEF d, w
<1>7. m \in Nat BY <1>5, MagnitudeIs
<1>8. doubled \in Seq(Digit) /\ Len(doubled) >= 2 * n /\ MagnitudeOf(doubled) = 2 * m
    <2>1. CASE n = 1
        <3>1. N = 0 /\ 0 \in 0 .. N BY <1>n, <2>1 DEF N
        <3>2. c[0] = first BY <1>L9, <3>1
        <3>3. 2 \in Nat /\ 2 * n = 2 BY <2>1
        <3>4. Zeros(2) \in Seq(Digit) /\ Len(Zeros(2)) = 2 /\ MagnitudeOf(Zeros(2)) = 0
            BY <3>3, ZerosAre
        <3>5. c[N] = Zeros(2) BY <3>1, <3>2, <3>3 DEF first
        <3>6. m = 0 BY <3>4, <3>5
        <3>7. doubled = Zeros(2) BY <2>1
        <3> HIDE DEF doubled, m
        <3>8. 2 >= 2 * n /\ 2 * m = 0 BY <3>3, <3>6
        <3> QED BY <3>4, <3>7, <3>8
    <2>2. CASE n # 1
        <3>1. c[N] # <<>> BY <1>2, <1>5
        <3>2. /\ s_mp_mul_2(c[N]) \in Seq(Digit) /\ Len(s_mp_mul_2(c[N])) >= Len(c[N])
              /\ MagnitudeOf(s_mp_mul_2(c[N])) = 2 * MagnitudeOf(c[N])
            BY <1>5, <3>1, Mul2Is
        <3> QED BY <1>5, <2>2, <3>2
    <2> QED BY <2>1, <2>2
<1> HIDE DEF doubled, m
<1>9. /\ out \in Seq(Digit) /\ out # <<>> /\ MagnitudeOf(out) = Q + MagnitudeOf(doubled)
    <2>1. doubled # <<>> BY <1>2, <1>8
    <2>2. 2 * Len(dp) <= Len(doubled) BY <1>8 DEF n
    <2>3. /\ out \in Seq(Digit) /\ Len(out) >= 2 * Len(dp)
          /\ MagnitudeOf(out) = SquaresPart(dp, Len(dp)) + MagnitudeOf(doubled)
        BY <1>1, <1>8, <2>1, <2>2, SqrAddPropIs
    <2> HIDE DEF out
    <2>4. Len(out) >= 2 * n BY <2>3 DEF n
    <2>5. out # <<>> BY <1>2, <2>3, <2>4
    <2> QED BY <2>3, <2>5 DEF n
<1> HIDE DEF out
<1>10. MagnitudeOf(out) = A * A
    <2> DEFINE u == t * t
               q == A * A
    <2>1. u \in Int /\ q \in Nat
        <3>1. q \in Nat BY <1>1
        <3> HIDE DEF t
        <3>2. u \in Int BY <1>t
        <3> QED BY <3>1, <3>2
    <2>2. 2 * m + S + u = q /\ Q = S + u /\ MagnitudeOf(out) = Q + 2 * m BY <1>5, <1>6, <1>8, <1>9
    <2> HIDE DEF u, q, Q, S
    <2> QED BY <1>6, <1>7, <2>1, <2>2 DEF q
<1>11. Normal(s_mp_clamp(out)) /\ MagnitudeOf(s_mp_clamp(out)) = A * A
    BY <1>9, <1>10, ClampIs
<1> DEFINE r == s_mp_clamp(out)
<1> HIDE DEF r
<1>12. mp_sqr(a) \in Signed /\ ValueOf(mp_sqr(a)) = A * A
    <2>1. ZPOS \in {ZPOS, NEG} /\ ZPOS # NEG BY DEF ZPOS, NEG
    <2>2. Normal(r) /\ MagnitudeOf(r) = A * A BY <1>11 DEF r
    <2>3. mp_sqr(a) = [sign |-> ZPOS, dp |-> r] BY <1>3 DEF r
    <2> QED BY <2>1, <2>2, <2>3, SignedOf
<1>13. mp_sqr(a).sign = ZPOS BY <1>3
<1>14. A * A = ValueOf(a) * ValueOf(a)
    <2>1. (a.sign = ZPOS => ValueOf(a) = A) /\ (a.sign = NEG => ValueOf(a) = -A) /\ a.sign \in {ZPOS, NEG}
        BY SignedIs DEF dp
    <2> HIDE DEF A
    <2>2. (-A) * (-A) = A * A BY <1>1
    <2> QED BY <2>1, <2>2
<1>15. mp_sqr(a) \in Numbers BY <1>12, <1>13 DEF Numbers
<1> QED BY <1>12, <1>13, <1>14, <1>15

-----------------------------------------------------------------------------
(* Powers *)

Powers(f, n) == \A i \in Nat : f[i] = IF i = 0 THEN 1 ELSE f[i - 1] * n

LEMMA PowersExist ==
    ASSUME NEW n \in Int
    PROVE  \E f \in [Nat -> Int] : Powers(f, n)
<1> DEFINE g == [v \in Int \X Nat |-> v[1] * n]
<1>1. g \in [Int \X Nat -> Int]
    <2>1. ASSUME NEW v \in Int \X Nat PROVE v[1] * n \in Int
        <3>1. v[1] \in Int OBVIOUS
        <3> QED BY <3>1
    <2> QED BY <2>1
<1>2. \A v \in Int, i \in Nat : g[<<v, i>>] = v * n OBVIOUS
<1> HIDE DEF g
<1>3. 1 \in Int OBVIOUS
<1>4. PICK f \in [Nat -> Int] : RecursesDown(f, 1, g) BY <1>1, <1>3, NatRecursion
<1>5. ASSUME NEW i \in Nat PROVE f[i] = IF i = 0 THEN 1 ELSE f[i - 1] * n
    <2>1. CASE i = 0 BY <1>4, <2>1 DEF RecursesDown
    <2>2. CASE i # 0
        <3>1. i - 1 \in Nat BY <2>2
        <3>2. f[i] = g[<<f[i - 1], i>>] BY <1>4, <2>2 DEF RecursesDown
        <3>3. f[i - 1] \in Int BY <1>4, <3>1
        <3> QED BY <1>2, <2>2, <3>2, <3>3
    <2> QED BY <2>1, <2>2
<1> QED BY <1>4, <1>5 DEF Powers

LEMMA PowRun ==
    ASSUME NEW n \in Int, NEW f \in [Nat -> Int], Powers(f, n), NEW k \in Nat
    PROVE  Pow(n, k) = f[k]
<1> DEFINE Body(h) == [j \in 0 .. k |-> IF j = 0 THEN 1 ELSE h[j - 1] * n]
           c == CHOOSE h : h = Body(h)
           h == [j \in 0 .. k |-> f[j]]
<1>1. Pow(n, k) = c[k] BY DEF Pow
<1>2. h = Body(h)
    <2> DEFINE t == Body(h)
    <2>1. ASSUME NEW j \in 0 .. k PROVE h[j] = t[j]
        <3>1. CASE j = 0
            <4>1. f[j] = 1 BY <3>1 DEF Powers
            <4> QED BY <3>1, <4>1
        <3>2. CASE j # 0
            <4>1. j - 1 \in 0 .. k /\ j \in Nat BY <3>2
            <4>2. f[j] = f[j - 1] * n BY <3>2, <4>1 DEF Powers
            <4>3. h[j] = f[j] /\ h[j - 1] = f[j - 1] BY <4>1
            <4> HIDE DEF h
            <4>4. t[j] = h[j - 1] * n BY <3>2
            <4> QED BY <4>2, <4>3, <4>4
        <3> QED BY <3>1, <3>2
    <2>2. t = [j \in 0 .. k |-> t[j]] /\ h = [j \in 0 .. k |-> h[j]] OBVIOUS
    <2> HIDE DEF t, h
    <2>3. h = t BY <2>1, <2>2
    <2> QED BY <2>3 DEF t
<1>3. c = Body(c) BY <1>2
<1> HIDE DEF c, h
<1>4. \A j \in 0 .. k : c[j] = IF j = 0 THEN 1 ELSE c[j - 1] * n
    <2> DEFINE t == Body(c)
    <2>1. \A j \in 0 .. k : t[j] = IF j = 0 THEN 1 ELSE c[j - 1] * n OBVIOUS
    <2>2. c = t BY <1>3
    <2> HIDE DEF t
    <2> QED BY <2>1, <2>2
<1> DEFINE P == {j \in Nat : c[j] = f[j]}
<1>5. 0 \in P
    <2>1. c[0] = 1
        <3>1. 0 \in 0 .. k OBVIOUS
        <3> QED BY <1>4, <3>1
    <2>2. f[0] = 1 BY DEF Powers
    <2> QED BY <2>1, <2>2
<1>6. ASSUME NEW j \in 0 .. k - 1, j \in P PROVE j + 1 \in P
    <2>1. j + 1 \in 0 .. k /\ j + 1 \in Nat /\ j + 1 # 0 /\ (j + 1) - 1 = j OBVIOUS
    <2>2. c[j + 1] = c[j] * n BY <1>4, <2>1
    <2>3. f[j + 1] = f[j] * n BY <2>1 DEF Powers
    <2>4. c[j] = f[j] BY <1>6
    <2> QED BY <2>1, <2>2, <2>3, <2>4
<1> HIDE DEF P
<1>7. \A j \in 0 .. k : j \in P BY <1>5, <1>6, UptoInduct
<1>8. k \in P
    <2>1. k \in 0 .. k OBVIOUS
    <2> QED BY <1>7, <2>1
<1> QED BY <1>1, <1>8 DEF P

LEMMA PowIs ==
    ASSUME NEW n \in Int, NEW k \in Nat
    PROVE  /\ Pow(n, 0) = 1 /\ Pow(n, k) \in Int /\ Pow(n, k + 1) = Pow(n, k) * n
<1>1. PICK f \in [Nat -> Int] : Powers(f, n) BY PowersExist
<1>2. \A i \in Nat : Pow(n, i) = f[i] BY <1>1, PowRun
<1>3. k + 1 \in Nat /\ k + 1 # 0 /\ (k + 1) - 1 = k /\ 0 \in Nat OBVIOUS
<1>4. f[k + 1] = f[k] * n /\ f[0] = 1 BY <1>1, <1>3 DEF Powers
<1>5. f[k] \in Int OBVIOUS
<1> QED BY <1>2, <1>3, <1>4, <1>5

LEMMA PowSum ==
    ASSUME NEW n \in Int, NEW j \in Nat, NEW k \in Nat
    PROVE  Pow(n, j + k) = Pow(n, j) * Pow(n, k)
<1> DEFINE P == {i \in Nat : Pow(n, j + i) = Pow(n, j) * Pow(n, i)}
<1>1. Pow(n, j) \in Int /\ Pow(n, 0) = 1 BY PowIs
<1>2. 0 \in P
    <2>1. j + 0 = j /\ Pow(n, j) * 1 = Pow(n, j) BY <1>1
    <2> QED BY <1>1, <2>1
<1>3. ASSUME NEW i \in Nat, i \in P PROVE i + 1 \in P
    <2>1. j + i \in Nat /\ j + (i + 1) = (j + i) + 1 OBVIOUS
    <2>2. Pow(n, i + 1) = Pow(n, i) * n /\ Pow(n, i) \in Int BY PowIs
    <2>3. Pow(n, (j + i) + 1) = Pow(n, j + i) * n BY <2>1, PowIs
    <2>4. Pow(n, j + i) = Pow(n, j) * Pow(n, i) BY <1>3
    <2> DEFINE a == Pow(n, j)
               b == Pow(n, i)
    <2>5. (a * b) * n = a * (b * n)
        <3> HIDE DEF a, b
        <3> QED BY <1>1, <2>2 DEF a, b
    <2> QED BY <2>1, <2>2, <2>3, <2>4, <2>5
<1> HIDE DEF P
<1>4. \A i \in Nat : i \in P BY <1>2, <1>3, NatInduct
<1>5. k \in P BY <1>4
<1> QED BY <1>5 DEF P

LEMMA PowNotZero ==
    ASSUME NEW n \in Int, n # 0, NEW k \in Nat
    PROVE  Pow(n, k) # 0
<1> DEFINE P == {i \in Nat : Pow(n, i) # 0}
<1>1. 0 \in P
    <2>1. Pow(n, 0) = 1 BY PowIs
    <2> QED BY <2>1
<1>2. ASSUME NEW i \in Nat, i \in P PROVE i + 1 \in P
    <2>1. Pow(n, i + 1) = Pow(n, i) * n /\ Pow(n, i) \in Int BY PowIs
    <2>2. Pow(n, i) # 0 BY <1>2
    <2> DEFINE b == Pow(n, i)
    <2> HIDE DEF b
    <2>3. b * n # 0 BY <2>1, <2>2 DEF b
    <2> QED BY <2>1, <2>3 DEF b
<1> HIDE DEF P
<1>3. \A i \in Nat : i \in P BY <1>1, <1>2, NatInduct
<1>4. k \in P BY <1>3
<1> QED BY <1>4 DEF P

LEMMA BitCountIs ==
    ASSUME NEW d \in Nat
    PROVE  /\ BitCount(d) \in Nat /\ d < 2 ^ BitCount(d)
           /\ BitCount(d) > 0 => d >= 2 ^ (BitCount(d) - 1)
<1> DEFINE T == {k \in Nat : d < 2 ^ k}
           Fits(k) == d < 2 ^ k /\ (k > 0 => d >= 2 ^ (k - 1))
<1>1. d \in T BY PowerPositive
<1>2. PICK m \in T : \A k \in T : m <= k
    <2>1. T \subseteq Nat /\ T # {} BY <1>1
    <2> HIDE DEF T
    <2> QED BY <2>1, LeastNat
<1>3. m \in 0 .. d /\ m \in Nat /\ d < 2 ^ m BY <1>1, <1>2
<1>4. ASSUME m > 0 PROVE d >= 2 ^ (m - 1)
    <2>1. m - 1 \in Nat BY <1>3, <1>4
    <2>2. m - 1 \notin T BY <1>2, <1>3, <2>1
    <2>3. 2 ^ (m - 1) \in Nat BY <2>1, PowerPositive
    <2> QED BY <2>1, <2>2, <2>3
<1>5. Fits(m) BY <1>3, <1>4
<1>6. BitCount(d) = CHOOSE k \in 0 .. d : Fits(k) BY DEF BitCount
<1> HIDE DEF T, Fits
<1>7. BitCount(d) \in 0 .. d /\ Fits(BitCount(d)) BY <1>3, <1>5, <1>6
<1> QED BY <1>7 DEF Fits

LEMMA BitSplit ==
    ASSUME NEW d \in Nat, NEW k \in Nat
    PROVE  /\ (d % (2 ^ k)) \in Nat
           /\ (d % (2 ^ (k + 1))) = IF OddAfter(d, k) THEN (d % (2 ^ k)) + 2 ^ k ELSE d % (2 ^ k)
<1> DEFINE h == 2 ^ k
           q == d \div h
           r == d % h
           b == q % 2
           p == q \div 2
<1>1. h \in Nat /\ h > 0 /\ 2 ^ (k + 1) = 2 * h BY PowerPositive, PowerStep
<1>2. q \in Nat /\ r \in Nat /\ r < h /\ d = q * h + r
    <2> HIDE DEF h
    <2> QED BY <1>1, DivisionIs
<1> HIDE DEF h, r
<1>3. p \in Nat /\ b \in {0, 1} /\ q = 2 * p + b
    <2> HIDE DEF q
    <2> QED BY <1>2
<1>4. OddAfter(d, k) <=> b = 1 BY DEF OddAfter, h
<1> HIDE DEF q, p, b
<1> DEFINE s == b * h + r
<1>5. d = p * (2 * h) + s
    <2>1. (2 * p + b) * h = p * (2 * h) + b * h BY <1>1, <1>3
    <2> DEFINE u == p * (2 * h)
               v == b * h
    <2>2. u \in Nat /\ v \in Nat BY <1>1, <1>3
    <2>3. d = (u + v) + r BY <1>2, <1>3, <2>1
    <2> HIDE DEF u, v
    <2>4. d = u + (v + r) BY <1>2, <2>2, <2>3
    <2> QED BY <2>4 DEF u, v
<1>6. s \in Nat /\ s < 2 * h /\ s = IF b = 1 THEN r + h ELSE r
    <2>1. CASE b = 0
        <3>1. b * h = 0 BY <1>1, <2>1
        <3> QED BY <1>1, <1>2, <2>1, <3>1
    <2>2. CASE b = 1
        <3>1. b * h = h BY <1>1, <2>2
        <3> QED BY <1>1, <1>2, <2>2, <3>1
    <2> QED BY <1>3, <2>1, <2>2
<1> HIDE DEF s
<1>7. (d % (2 * h)) = s
    <2>1. 2 * h \in Nat /\ 2 * h > 0 BY <1>1
    <2> DEFINE D == 2 * h
    <2> HIDE DEF D
    <2>2. (d % D) = s BY <1>3, <1>5, <1>6, <2>1, DivisionUnique DEF D
    <2> QED BY <2>2 DEF D
<1>8. r \in Nat BY <1>2
<1> QED BY <1>1, <1>4, <1>6, <1>7, <1>8 DEF r, h

LEMMA SetIs ==
    ASSUME NEW d \in Digit
    PROVE  /\ mp_set(d) \in Numbers /\ mp_set(d).sign = ZPOS /\ ValueOf(mp_set(d)) = d
           /\ mp_set(d).dp = <<d>>
<1>1. Normal(<<d>>) /\ MagnitudeOf(<<d>>) = d BY OneDigit
<1>2. ZPOS \in {ZPOS, NEG} /\ ZPOS # NEG BY DEF ZPOS, NEG
<1>3. mp_set(d) = [sign |-> ZPOS, dp |-> <<d>>] BY DEF mp_set
<1>4. mp_set(d) \in Signed /\ ValueOf(mp_set(d)) = d BY <1>1, <1>2, <1>3, SignedOf
<1>5. mp_set(d).sign = ZPOS /\ mp_set(d).dp = <<d>> BY <1>3
<1>6. mp_set(d) \in Numbers BY <1>4, <1>5 DEF Numbers
<1> QED BY <1>4, <1>5, <1>6

(* The loop of mp_expt and mp_expt_d. *)
LEMMA PowerLoopIs ==
    ASSUME NEW a \in Signed, NEW d \in Nat
    PROVE  /\ PowerLoop(mp_set(1), a, d) \in Numbers
           /\ ValueOf(PowerLoop(mp_set(1), a, d)) = Pow(ValueOf(a), d)
<1> DEFINE N == BitCount(d)
           A == ValueOf(a)
           first == [s |-> mp_set(1), b |-> a]
           Step(v, i) == [v EXCEPT !.s = IF OddAfter(d, i - 1) THEN s_mp_mul(@, v.b) ELSE @,
                                   !.b = s_mp_sqr(@)]
           Body(h) == [i \in 0 .. N |-> IF i = 0 THEN first ELSE Step(h[i - 1], i)]
           c == CHOOSE h : h = Body(h)
           V == [s : Numbers, b : Signed]
           I == [j \in Nat |-> {v \in V : /\ ValueOf(v.s) = Pow(A, d % (2 ^ j))
                                          /\ ValueOf(v.b) = Pow(A, 2 ^ j)}]
           g == [v \in V \X Nat |-> Step(v[1], v[2])]
<1>n. N \in Nat /\ d < 2 ^ N BY BitCountIs
<1>0. PowerLoop(mp_set(1), a, d) = c[N].s BY DEF PowerLoop
<1>1. A \in Int BY SignedIs
<1>2. \A j \in Nat : I[j] = {v \in V : /\ ValueOf(v.s) = Pow(A, d % (2 ^ j))
                                       /\ ValueOf(v.b) = Pow(A, 2 ^ j)}
    OBVIOUS
<1> HIDE DEF N, A
<1>L1. first \in I[0]
    <2>1. 1 \in Digit BY RadixIs
    <2>2. mp_set(1) \in Numbers /\ ValueOf(mp_set(1)) = 1 BY <2>1, SetIs
    <2>3. 2 ^ 0 = 1 OBVIOUS
    <2>4. (d % 1) = 0 OBVIOUS
    <2>5. Pow(A, 0) = 1 /\ Pow(A, 0 + 1) = Pow(A, 0) * A BY <1>1, PowIs
    <2>6. Pow(A, 1) = A /\ ValueOf(a) = A
        <3>1. 0 + 1 = 1 /\ 1 * A = A BY <1>1
        <3> QED BY <2>5, <3>1 DEF A
    <2>7. first \in V /\ first.s = mp_set(1) /\ first.b = a BY <2>2
    <2> HIDE DEF first, V, I
    <2>8. Pow(A, d % (2 ^ 0)) = 1 /\ Pow(A, 2 ^ 0) = A BY <2>3, <2>4, <2>5, <2>6
    <2>9. 0 \in Nat OBVIOUS
    <2> QED BY <1>2, <2>2, <2>6, <2>7, <2>8, <2>9
<1>L2. ASSUME NEW j \in 0 .. N - 1, NEW v \in I[j] PROVE Step(v, j + 1) \in I[j + 1]
    <2> DEFINE i == j + 1
               w == Step(v, i)
               e == d % (2 ^ j)
               h == 2 ^ j
    <2>1. j \in Nat /\ i \in Nat /\ i - 1 = j BY <1>n
    <2>2. v \in V /\ ValueOf(v.s) = Pow(A, e) /\ ValueOf(v.b) = Pow(A, h)
        <3> HIDE DEF I, V
        <3> QED BY <1>2, <2>1
    <2>3. v.s \in Numbers /\ v.s \in Signed /\ v.b \in Signed
        <3>1. v.s \in Numbers /\ v.b \in Signed BY <2>2
        <3> QED BY <3>1, NumbersIs
    <2>4. h \in Nat /\ 2 ^ i = 2 * h /\ e \in Nat
          /\ (d % (2 ^ i)) = IF OddAfter(d, j) THEN e + h ELSE e
        BY <2>1, PowerStep, BitSplit
    <2>5. w.b \in Signed /\ ValueOf(w.b) = Pow(A, 2 ^ i)
        <3>1. w.b = mp_sqr(v.b) BY <2>2 DEF s_mp_sqr
        <3> HIDE DEF w, e, h, A
        <3>2. mp_sqr(v.b) \in Numbers /\ ValueOf(mp_sqr(v.b)) = ValueOf(v.b) * ValueOf(v.b)
            BY <2>3, SqrIs
        <3>3. Pow(A, h + h) = Pow(A, h) * Pow(A, h) BY <1>1, <2>4, PowSum
        <3>4. 2 ^ i = h + h BY <2>4
        <3> QED BY <2>2, <3>1, <3>2, <3>3, <3>4, NumbersIs
    <2>6. w.s \in Numbers /\ ValueOf(w.s) = Pow(A, d % (2 ^ i))
        <3>1. w.s = IF OddAfter(d, j) THEN mp_mul(v.s, v.b) ELSE v.s BY <2>1, <2>2 DEF s_mp_mul
        <3> HIDE DEF w, e, h, i
        <3>2. mp_mul(v.s, v.b) \in Numbers /\ ValueOf(mp_mul(v.s, v.b)) = ValueOf(v.s) * ValueOf(v.b)
            BY <2>3, MulIs
        <3>3. Pow(A, e + h) = Pow(A, e) * Pow(A, h) BY <1>1, <2>4, PowSum
        <3>4. CASE OddAfter(d, j) BY <2>2, <2>4, <3>1, <3>2, <3>3, <3>4
        <3>5. CASE ~OddAfter(d, j) BY <2>2, <2>3, <2>4, <3>1, <3>5
        <3> QED BY <3>4, <3>5
    <2>7. w \in V
        <3> DEFINE p == IF OddAfter(d, i - 1) THEN s_mp_mul(v.s, v.b) ELSE v.s
                   q == s_mp_sqr(v.b)
        <3>1. w = [v EXCEPT !.s = p, !.b = q] OBVIOUS
        <3>2. w.s = p /\ w.b = q BY <2>2
        <3>3. v \in [s : Numbers, b : Signed] BY <2>2
        <3> HIDE DEF w, p, q
        <3>4. p \in Numbers /\ q \in Signed BY <2>5, <2>6, <3>2
        <3> QED BY <3>1, <3>3, <3>4
    <2> HIDE DEF w, I, V
    <2>8. w \in I[i] BY <1>2, <2>1, <2>5, <2>6, <2>7
    <2> QED BY <2>8 DEF w
<1>L3. \A i \in 0 .. N : I[i] \subseteq V
    <2>1. \A i \in 0 .. N : i \in Nat BY <1>n
    <2> HIDE DEF I, V
    <2> QED BY <1>2, <2>1
<1>L4. \A v \in V, i \in Nat : g[<<v, i>>] = Step(v, i)
    <2> HIDE DEF Step, V, I
    <2> QED OBVIOUS
<1>L5. PICK h \in [0 .. N -> V] :
         \A i \in 0 .. N : h[i] \in I[i] /\ h[i] = IF i = 0 THEN first ELSE g[<<h[i - 1], i>>]
    <2> HIDE DEF g, I, first, V, Step
    <2>1. ASSUME NEW i \in 0 .. N - 1, NEW v \in I[i] PROVE g[<<v, i + 1>>] \in I[i + 1]
        <3>1. i \in 0 .. N /\ i + 1 \in Nat BY <1>n
        <3>2. v \in V BY <1>L3, <3>1
        <3> QED BY <1>L2, <1>L4, <3>1, <3>2
    <2>2. StaysIn(I, V, first, g, N) BY <1>L1, <1>L3, <2>1 DEF StaysIn
    <2>3. \E q \in [0 .. N -> V] : RecursesUpto(q, first, g, N) /\ \A i \in 0 .. N : q[i] \in I[i]
        BY <1>n, <2>2, UptoStates
    <2> QED BY <2>3 DEF RecursesUpto
<1>L6. ASSUME NEW i \in 0 .. N PROVE h[i] = IF i = 0 THEN first ELSE Step(h[i - 1], i)
    <2> HIDE DEF g, I, first, V, Step
    <2>1. CASE i = 0 BY <1>L5, <2>1
    <2>2. CASE i # 0
        <3>1. i - 1 \in 0 .. N /\ i \in Nat BY <1>n, <2>2
        <3>2. h[i - 1] \in V BY <1>L5, <3>1
        <3> QED BY <1>L4, <1>L5, <2>2, <3>1, <3>2
    <2> QED BY <2>1, <2>2
<1> HIDE DEF g
<1>L7. h = Body(h)
    <2> DEFINE t == Body(h)
    <2>1. \A i \in 0 .. N : t[i] = IF i = 0 THEN first ELSE Step(h[i - 1], i) OBVIOUS
    <2>2. t = [i \in 0 .. N |-> t[i]] /\ h = [i \in 0 .. N |-> h[i]] OBVIOUS
    <2> HIDE DEF t, Step, first, I, V
    <2>3. \A i \in 0 .. N : h[i] = t[i] BY <1>L6, <2>1
    <2>4. h = t BY <2>2, <2>3
    <2> QED BY <2>4 DEF t, Step, first
<1>L8. c = Body(c) BY <1>L7
<1> HIDE DEF c
<1>L9. \A i \in 0 .. N : c[i] = IF i = 0 THEN first ELSE Step(c[i - 1], i)
    <2> DEFINE t == Body(c)
    <2>1. \A i \in 0 .. N : t[i] = IF i = 0 THEN first ELSE Step(c[i - 1], i) OBVIOUS
    <2>2. c = t BY <1>L8
    <2> HIDE DEF t, Step, first
    <2> QED BY <2>1, <2>2
<1> HIDE DEF Body, I, V, first, Step
<1>La. \A i \in 0 .. N : c[i] \in I[i]
    <2> DEFINE P == {i \in Nat : c[i] \in I[i]}
    <2>1. 0 \in P
        <3>1. 0 \in 0 .. N BY <1>n
        <3> QED BY <1>L1, <1>L9, <3>1
    <2>2. ASSUME NEW i \in 0 .. N - 1, i \in P PROVE i + 1 \in P
        <3>1. i + 1 \in 0 .. N /\ i + 1 \in Nat /\ i + 1 # 0 /\ (i + 1) - 1 = i BY <1>n
        <3>2. c[i] \in I[i] BY <2>2
        <3>3. c[i + 1] = Step(c[i], i + 1) BY <1>L9, <3>1
        <3>4. Step(c[i], i + 1) \in I[i + 1] BY <1>L2, <3>2
        <3> QED BY <3>1, <3>3, <3>4
    <2> HIDE DEF P
    <2>3. \A i \in 0 .. N : i \in P BY <1>n, <2>1, <2>2, UptoInduct
    <2> QED BY <2>3 DEF P
<1>3. c[N] \in I[N]
    <2>1. N \in 0 .. N BY <1>n
    <2> QED BY <1>La, <2>1
<1>4. c[N].s \in Numbers /\ ValueOf(c[N].s) = Pow(A, d % (2 ^ N))
    BY <1>2, <1>3, <1>n DEF V
<1>5. (d % (2 ^ N)) = d
    <2>1. 2 ^ N \in Nat BY <1>n, PowerPositive
    <2> DEFINE m == 2 ^ N
    <2>2. m \in Nat /\ d < m BY <1>n, <2>1
    <2> HIDE DEF m
    <2>3. (d % m) = d BY <2>2
    <2> QED BY <2>3 DEF m
<1> QED BY <1>0, <1>4, <1>5 DEF A

LEMMA ExptDIs ==
    ASSUME NEW a \in Signed, NEW d \in Nat
    PROVE  mp_expt_d(a, d) \in Numbers /\ ValueOf(mp_expt_d(a, d)) = Pow(ValueOf(a), d)
BY PowerLoopIs DEF mp_expt_d

(* Every product of two numbers is the integers'. *)
LEMMA NumbersProducts ==
    ASSUME x \in Numbers, y \in Numbers
    PROVE  ProductsExact
<1>1. x \in Signed /\ y \in Signed BY NumbersIs
<1>2. ValueOf(mp_mul(x, y)) = X * Y BY <1>1, MulIs DEF X, Y
<1>3. ValueOf(mp_sqr(x)) = X * X BY <1>1, SqrIs DEF X
<1>4. ValueOf(mp_mul_2(x)) = 2 * X
    <2>1. 0 \in Digit BY RadixIs
    <2> QED BY <2>1, MulInPlace DEF X
<1>5. \A d \in Digit : ValueOf(mp_mul_d(x, d)) = X * d BY MulInPlace DEF X
<1>6. ASSUME NEW k \in 0 .. MaxExponent
      PROVE  /\ MagnitudeOf(s_mp_mul_2d(x.dp, k)) = Abs(X) * 2 ^ k
             /\ ValueOf(mp_expt_d(x, k)) = Pow(X, k)
    <2>1. k \in Nat BY MpiArithAssumption
    <2>2. Abs(X) = MagnitudeOf(x.dp) /\ x.dp \in Seq(Digit) /\ x.dp # <<>>
        BY <1>1, SignedIs DEF X, Normal
    <2>3. MagnitudeOf(s_mp_mul_2d(x.dp, k)) = MagnitudeOf(x.dp) * 2 ^ k BY <2>1, <2>2, Mul2dIs
    <2>4. ValueOf(mp_expt_d(x, k)) = Pow(X, k) BY <1>1, <2>1, ExptDIs DEF X
    <2> QED BY <2>2, <2>3, <2>4
<1> QED BY <1>2, <1>3, <1>4, <1>5, <1>6 DEF ProductsExact

(* Products, squares, doublings, shifts and powers of numbers of any length, *)
(* with digits of every width, are those of the integers: no carry is lost   *)
(* in the inner loops of mp_mul and mp_sqr.                                  *)
THEOREM ProductsExactHolds == LongSpec => []ProductsExact
<1>1. LongInv => ProductsExact
    <2> SUFFICES ASSUME LongInv PROVE ProductsExact OBVIOUS
    <2>1. x \in Numbers /\ y \in Numbers BY DEF LongInv
    <2> QED BY <2>1, NumbersProducts
<1> QED BY <1>1, LongInvHolds, PTL

=============================================================================
