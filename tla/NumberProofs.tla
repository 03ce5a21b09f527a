---------------------------- MODULE NumberProofs ----------------------------
(***************************************************************************)
(* What the proofs about every part need: induction over the natural       *)
(* numbers and functions defined by recursion over them, in a first-order  *)
(* form (the property to prove is a set of numbers and the step of a       *)
(* recursion is a function), from the well-foundedness of < on Nat; folds  *)
(* and sums over finite sets; powers of two; sums of a series.             *)
(***************************************************************************)
EXTENDS Integers, WellFoundedInduction, FiniteSetTheorems, TLAPS

(* A set of natural numbers that is not empty has a least element. *)
LEMMA LeastNat ==
    ASSUME NEW T, T \subseteq Nat, T # {}
    PROVE  \E x \in T : \A y \in T : x <= y
<1> DEFINE R == OpToRel(<, Nat)
<1>1. IsWellFoundedOn(R, Nat) BY NatLessThanWellFounded
<1> HIDE DEF R
<1>2. PICK x \in T : \A y \in T : ~ (<<y, x>> \in R) BY <1>1, WFMin
<1>3. \A y \in T : y < x => <<y, x>> \in R BY DEF R, OpToRel
<1>4. \A y \in T : x <= y
    <2> SUFFICES ASSUME NEW y \in T PROVE x <= y OBVIOUS
    <2>1. ~(y < x) BY <1>2, <1>3
    <2>2. x \in Nat /\ y \in Nat OBVIOUS
    <2> QED BY <2>1, <2>2
<1> QED BY <1>4

(* A set that holds 0 and with every number its successor holds them all. *)
LEMMA NatInduct ==
    ASSUME NEW S, 0 \in S, \A n \in Nat : n \in S => n + 1 \in S
    PROVE  \A n \in Nat : n \in S
<1> DEFINE T == Nat \ S
<1> SUFFICES ASSUME T # {} PROVE FALSE OBVIOUS
<1>1. T \subseteq Nat OBVIOUS
<1>2. PICK x \in T : \A y \in T : x <= y BY <1>1, LeastNat
<1>3. x \in Nat /\ x # 0 /\ x - 1 \in Nat BY <1>2
<1>4. x - 1 \notin T BY <1>2, <1>3
<1>5. (x - 1) + 1 = x BY <1>3
<1> QED BY <1>3, <1>4, <1>5

(* A set that holds every number whose predecessors it holds holds them all. *)
LEMMA NatStrongInduct ==
    ASSUME NEW S, \A n \in Nat : (\A m \in 0 .. n - 1 : m \in S) => n \in S
    PROVE  \A n \in Nat : n \in S
<1> DEFINE T == Nat \ S
<1> SUFFICES ASSUME T # {} PROVE FALSE OBVIOUS
<1>1. T \subseteq Nat OBVIOUS
<1>2. PICK x \in T : \A y \in T : x <= y BY <1>1, LeastNat
<1>3. \A m \in 0 .. x - 1 : m \in S BY <1>2
<1> QED BY <1>2, <1>3

(* f is a at 0, and at n what g makes of n and of f's value at d[n]. *)
Recurses(f, a, g, d) == \A n \in Nat : f[n] = IF n = 0 THEN a ELSE g[<<f[d[n]], n>>]

(* Recursion on a smaller argument defines a function: d says which. *)
LEMMA DecreasingRecursion ==
    ASSUME NEW V, NEW a \in V, NEW g \in [V \X Nat -> V],
           NEW d \in [Nat -> Nat], \A n \in Nat : n # 0 => d[n] < n
    PROVE  \E f \in [Nat -> V] : Recurses(f, a, g, d)
<1> DEFINE Upto(n, h) == /\ h \in [0 .. n -> V] /\ h[0] = a
                         /\ \A i \in 1 .. n : h[i] = g[<<h[d[i]], i>>]
           E == {n \in Nat : \E h : Upto(n, h)}
<1>1. \A n \in Nat : n \in E
    <2>1. 0 \in E
        <3>1. Upto(0, [i \in 0 .. 0 |-> a]) OBVIOUS
        <3> QED BY <3>1
    <2>2. ASSUME NEW n \in Nat, n \in E PROVE n + 1 \in E
        <3>1. PICK h : Upto(n, h) BY <2>2
        <3> DEFINE v == g[<<h[d[n + 1]], n + 1>>]
                   k == [i \in 0 .. n + 1 |-> IF i = n + 1 THEN v ELSE h[i]]
        <3>2. d[n + 1] \in 0 .. n /\ h[d[n + 1]] \in V /\ v \in V
            <4>1. n + 1 \in Nat /\ n + 1 # 0 /\ d[n + 1] \in Nat OBVIOUS
            <4>2. d[n + 1] < n + 1 BY <4>1
            <4>3. d[n + 1] \in 0 .. n BY <4>1, <4>2
            <4>4. h[d[n + 1]] \in V BY <3>1, <4>3
            <4> QED BY <4>1, <4>3, <4>4
        <3> HIDE DEF v
        <3>3. k \in [0 .. n + 1 -> V] BY <3>1, <3>2
        <3>4. k[0] = a BY <3>1
        <3>5. ASSUME NEW i \in 1 .. n + 1 PROVE k[i] = g[<<k[d[i]], i>>]
            <4>1. CASE i = n + 1
                <5>1. k[n + 1] = v /\ k[d[n + 1]] = h[d[n + 1]] BY <3>2
                <5> QED BY <4>1, <5>1 DEF v
            <4>2. CASE i \in 1 .. n
                <5>1. d[i] \in 0 .. n /\ i \in 0 .. n BY <4>2
                <5>2. k[i] = h[i] /\ k[d[i]] = h[d[i]] BY <5>1
                <5> QED BY <3>1, <4>2, <5>2
            <4> QED BY <4>1, <4>2
        <3>6. Upto(n + 1, k) BY <3>3, <3>4, <3>5
        <3> HIDE DEF k
        <3> HIDE DEF Upto
        <3>7. (\E l : Upto(n + 1, l)) /\ n + 1 \in Nat BY <3>6
        <3> QED BY <3>7
    <2> HIDE DEF E
    <2> QED BY <2>1, <2>2, NatInduct
<1> DEFINE F(n) == CHOOSE h : Upto(n, h)
<1>2. ASSUME NEW n \in Nat PROVE Upto(n, F(n)) BY <1>1
<1> HIDE DEF F
<1>3. ASSUME NEW m \in Nat, NEW n \in Nat, m <= n PROVE F(m)[m] = F(n)[m]
    <2> DEFINE P == {i \in Nat : i <= m => F(m)[i] = F(n)[i]}
    <2>0. Upto(m, F(m)) /\ Upto(n, F(n)) BY <1>2
    <2>1. ASSUME NEW i \in Nat, \A j \in 0 .. i - 1 : j \in P PROVE i \in P
        <3> SUFFICES ASSUME i <= m PROVE F(m)[i] = F(n)[i] OBVIOUS
        <3>1. CASE i = 0 BY <2>0, <3>1
        <3>2. CASE i # 0
            <4>1. i \in 1 .. m /\ i \in 1 .. n /\ d[i] \in 0 .. i - 1 /\ d[i] <= m
                BY <1>3, <3>2
            <4>2. F(m)[d[i]] = F(n)[d[i]] BY <2>1, <4>1
            <4>3. F(m)[i] = g[<<F(m)[d[i]], i>>] BY <2>0, <4>1
            <4>4. F(n)[i] = g[<<F(n)[d[i]], i>>] BY <2>0, <4>1
            <4> QED BY <4>2, <4>3, <4>4
        <3> QED BY <3>1, <3>2
    <2> HIDE DEF P
    <2>2. m \in P BY <2>1, NatStrongInduct
    <2> QED BY <2>2 DEF P
<1> DEFINE f == [n \in Nat |-> F(n)[n]]
<1>4. f \in [Nat -> V]
    <2>1. ASSUME NEW n \in Nat PROVE F(n)[n] \in V BY <1>2
    <2> QED BY <2>1
<1>5. ASSUME NEW n \in Nat PROVE f[n] = IF n = 0 THEN a ELSE g[<<f[d[n]], n>>]
    <2>1. Upto(n, F(n)) BY <1>2
    <2>2. CASE n = 0 BY <2>1, <2>2
    <2>3. CASE n # 0
        <3>1. d[n] \in Nat /\ d[n] <= n /\ n \in 1 .. n BY <2>3
        <3>2. F(d[n])[d[n]] = F(n)[d[n]] BY <1>3, <3>1
        <3>3. F(n)[n] = g[<<F(n)[d[n]], n>>] BY <2>1, <3>1
        <3> QED BY <2>3, <3>1, <3>2, <3>3
    <2> QED BY <2>2, <2>3
<1>6. Recurses(f, a, g, d) BY <1>5 DEF Recurses
<1> HIDE DEF f
<1> QED BY <1>4, <1>6

(* The same where n recurs to its predecessor. *)
RecursesDown(f, a, g) == \A n \in Nat : f[n] = IF n = 0 THEN a ELSE g[<<f[n - 1], n>>]

(* Recursion on the predecessor. *)
LEMMA NatRecursion ==
    ASSUME NEW V, NEW a \in V, NEW g \in [V \X Nat -> V]
    PROVE  \E f \in [Nat -> V] : RecursesDown(f, a, g)
<1> DEFINE d == [n \in Nat |-> IF n = 0 THEN 0 ELSE n - 1]
<1>1. d \in [Nat -> Nat] /\ \A n \in Nat : n # 0 => d[n] < n /\ d[n] = n - 1 OBVIOUS
<1> HIDE DEF d
<1>2. PICK f \in [Nat -> V] : Recurses(f, a, g, d)
    <2>1. d \in [Nat -> Nat] /\ \A n \in Nat : n # 0 => d[n] < n BY <1>1
    <2> QED BY <2>1, DecreasingRecursion, Zenon
<1>3. RecursesDown(f, a, g) BY <1>1, <1>2 DEF Recurses, RecursesDown
<1> QED BY <1>3

(* Induction on an interval. *)
LEMMA UptoInduct ==
    ASSUME NEW n \in Nat, NEW S, 0 \in S, \A i \in 0 .. n - 1 : i \in S => i + 1 \in S
    PROVE  \A i \in 0 .. n : i \in S
<1> DEFINE T == {i \in Nat : i <= n => i \in S}
<1>1. 0 \in T OBVIOUS
<1>2. ASSUME NEW i \in Nat, i \in T PROVE i + 1 \in T
    <2> SUFFICES ASSUME i + 1 <= n PROVE i + 1 \in S OBVIOUS
    <2>1. i \in 0 .. n - 1 /\ i \in S BY <1>2
    <2> QED BY <2>1
<1> HIDE DEF T
<1>3. \A i \in Nat : i \in T BY <1>1, <1>2, NatInduct
<1> QED BY <1>3 DEF T

(* A loop over an interval: the value at 0, and each from the one before. *)
RecursesUpto(f, a, g, n) ==
    \A i \in 0 .. n : f[i] = IF i = 0 THEN a ELSE g[<<f[i - 1], i>>]

LEMMA UptoRecursion ==
    ASSUME NEW V, NEW a \in V, NEW g \in [V \X Nat -> V], NEW n \in Nat
    PROVE  \E f \in [0 .. n -> V] : RecursesUpto(f, a, g, n)
<1>1. PICK h \in [Nat -> V] : RecursesDown(h, a, g) BY NatRecursion
<1> DEFINE f == [i \in 0 .. n |-> h[i]]
<1>2. f \in [0 .. n -> V] OBVIOUS
<1>3. ASSUME NEW i \in 0 .. n PROVE f[i] = IF i = 0 THEN a ELSE g[<<f[i - 1], i>>]
    <2>1. CASE i = 0 BY <1>1, <2>1 DEF RecursesDown
    <2>2. CASE i # 0
        <3>1. i \in Nat /\ i - 1 \in 0 .. n BY <2>2
        <3>2. f[i] = h[i] /\ f[i - 1] = h[i - 1] BY <3>1
        <3> QED BY <1>1, <2>2, <3>1, <3>2 DEF RecursesDown
    <2> QED BY <2>1, <2>2
<1> QED BY <1>2, <1>3 DEF RecursesUpto

-----------------------------------------------------------------------------
(* Folds over finite sets, an element at a time, with the step of the fold *)
(* a function.                                                             *)

Pick(s) == CHOOSE x \in s : TRUE

(* What such a fold asks of g on the subsets of S: b on the empty set, and *)
(* what f makes of an element and of g's value on the others, if that is   *)
(* in T.                                                                   *)
Folds(g, f, b, S, T) ==
    /\ g[{}] = b
    /\ \A s \in SUBSET S :
          s # {} /\ g[s \ {Pick(s)}] \in T => g[s] = f[<<Pick(s), g[s \ {Pick(s)}]>>]

(* The step f and the first value b of a fold with elements of U. *)
FoldType(f, b, U, T) == f \in [U \X T -> T] /\ b \in T

LEMMA PickIs ==
    ASSUME NEW s, s # {}
    PROVE  Pick(s) \in s
<1>1. PICK x \in s : TRUE OBVIOUS
<1> QED BY <1>1 DEF Pick

LEMMA OneLess ==
    ASSUME NEW s, IsFiniteSet(s), NEW x \in s
    PROVE  /\ IsFiniteSet(s \ {x}) /\ Cardinality(s) \in Nat \ {0}
           /\ Cardinality(s \ {x}) = Cardinality(s) - 1
<1>1. /\ IsFiniteSet(s \ {x})
      /\ Cardinality(s \ {x}) = IF x \in s THEN Cardinality(s) - 1 ELSE Cardinality(s)
    BY FS_RemoveElement
<1>2. Cardinality(s) \in Nat /\ Cardinality(s) # 0 BY FS_CardinalityType, FS_EmptySet
<1> QED BY <1>1, <1>2

(* A set of sets that holds the empty set, and each subset of S whose      *)
(* picked element leaves one of its own, holds every subset of S.          *)
LEMMA SetInduct ==
    ASSUME NEW S, IsFiniteSet(S), NEW H, {} \in H,
           \A s \in SUBSET S : s # {} /\ s \ {Pick(s)} \in H => s \in H
    PROVE  \A s \in SUBSET S : s \in H
<1> DEFINE P == {n \in Nat : \A s \in SUBSET S : Cardinality(s) = n => s \in H}
<1>1. \A s \in SUBSET S : IsFiniteSet(s) /\ Cardinality(s) \in Nat
    BY FS_Subset, FS_CardinalityType
<1>2. 0 \in P
    <2> SUFFICES ASSUME NEW s \in SUBSET S, Cardinality(s) = 0 PROVE s \in H OBVIOUS
    <2>1. s = {} BY <1>1, FS_EmptySet
    <2> QED BY <2>1
<1>3. ASSUME NEW n \in Nat, n \in P PROVE n + 1 \in P
    <2> SUFFICES ASSUME NEW s \in SUBSET S, Cardinality(s) = n + 1 PROVE s \in H OBVIOUS
    <2> DEFINE t == s \ {Pick(s)}
    <2>1. s # {}
        <3>1. Cardinality({}) = 0 /\ n + 1 # 0 BY FS_EmptySet
        <3> QED BY <3>1
    <2>2. Pick(s) \in s BY <2>1, PickIs
    <2>3. t \in SUBSET S /\ Cardinality(t) = n
        <3>1. Cardinality(t) = Cardinality(s) - 1 BY <1>1, <2>2, OneLess
        <3> QED BY <3>1
    <2>4. t \in H BY <1>3, <2>3
    <2> QED BY <2>1, <2>4
<1> HIDE DEF P
<1>4. \A n \in Nat : n \in P BY <1>2, <1>3, NatInduct
<1> QED BY <1>1, <1>4 DEF P

(* Two such functions agree, and their values are in T, *)
LEMMA FoldsUnique ==
    ASSUME NEW U, NEW T, NEW f, NEW b, FoldType(f, b, U, T),
           NEW S, IsFiniteSet(S), S \subseteq U, NEW R, S \subseteq R,
           NEW g, Folds(g, f, b, S, T), NEW h, Folds(h, f, b, R, T)
    PROVE  \A s \in SUBSET S : g[s] \in T /\ g[s] = h[s]
<1> USE DEF FoldType
<1> DEFINE H == {s \in SUBSET S : g[s] \in T /\ g[s] = h[s]}
<1>1. {} \in H BY DEF Folds
<1>2. ASSUME NEW s \in SUBSET S, s # {}, s \ {Pick(s)} \in H PROVE s \in H
    <2>1. Pick(s) \in U BY <1>2, PickIs
    <2> DEFINE t == s \ {Pick(s)}
               x == Pick(s)
    <2>2. g[t] \in T /\ g[t] = h[t] BY <1>2
    <2>3. g[s] = f[<<x, g[t]>>] BY <1>2, <2>2 DEF Folds
    <2>4. s \in SUBSET R OBVIOUS
    <2>5. h[s] = f[<<x, h[t]>>] BY <1>2, <2>2, <2>4 DEF Folds
    <2>6. f[<<x, g[t]>>] \in T BY <2>1, <2>2
    <2> QED BY <2>2, <2>3, <2>5, <2>6
<1> HIDE DEF H
<1>3. \A s \in SUBSET S : s \in H BY <1>1, <1>2, SetInduct
<1> QED BY <1>3 DEF H

(* and there is one. *)
LEMMA FoldsExist ==
    ASSUME NEW U, NEW T, NEW f, NEW b, FoldType(f, b, U, T),
           NEW S, IsFiniteSet(S), S \subseteq U
    PROVE  \E g \in [SUBSET S -> T] : Folds(g, f, b, S, T)
<1> USE DEF FoldType
<1> DEFINE Upto(g, n) ==
             \A s \in SUBSET S : Cardinality(s) <= n =>
                 g[s] = IF s = {} THEN b ELSE f[<<Pick(s), g[s \ {Pick(s)}]>>]
           P == {n \in Nat : \E g \in [SUBSET S -> T] : Upto(g, n)}
<1>1. ASSUME NEW s \in SUBSET S
      PROVE  /\ IsFiniteSet(s) /\ Cardinality(s) \in Nat /\ Cardinality(s) <= Cardinality(S)
             /\ s # {} => /\ Pick(s) \in U /\ s \ {Pick(s)} \in SUBSET S
                          /\ Cardinality(s \ {Pick(s)}) = Cardinality(s) - 1
                          /\ Cardinality(s) # 0
    <2>1. IsFiniteSet(s) /\ Cardinality(s) \in Nat /\ Cardinality(s) <= Cardinality(S)
        BY FS_Subset, FS_CardinalityType
    <2>2. ASSUME s # {}
          PROVE  /\ Pick(s) \in U /\ s \ {Pick(s)} \in SUBSET S
                 /\ Cardinality(s \ {Pick(s)}) = Cardinality(s) - 1 /\ Cardinality(s) # 0
        <3>1. Pick(s) \in s BY <2>2, PickIs
        <3>2. Cardinality(s \ {Pick(s)}) = Cardinality(s) - 1 /\ Cardinality(s) # 0
            BY <2>1, <3>1, OneLess
        <3> QED BY <3>1, <3>2
    <2> QED BY <2>1, <2>2
<1>2. 0 \in P
    <2> DEFINE g == [s \in SUBSET S |-> b]
    <2>1. g \in [SUBSET S -> T] /\ \A s \in SUBSET S : g[s] = b OBVIOUS
    <2>2. ASSUME NEW s \in SUBSET S, Cardinality(s) <= 0 PROVE s = {}
        <3>1. Cardinality(s) \in Nat /\ (s # {} => Cardinality(s) # 0) BY <1>1
        <3> QED BY <2>2, <3>1
    <2> HIDE DEF g
    <2>3. Upto(g, 0) BY <2>1, <2>2
    <2> QED BY <2>1, <2>3
<1>3. ASSUME NEW n \in Nat, n \in P PROVE n + 1 \in P
    <2>1. PICK g \in [SUBSET S -> T] : Upto(g, n) BY <1>3
    <2> DEFINE h == [s \in SUBSET S |-> IF Cardinality(s) <= n THEN g[s] ELSE
                                        IF s = {} THEN b ELSE f[<<Pick(s), g[s \ {Pick(s)}]>>]]
    <2>2. h \in [SUBSET S -> T]
        <3>1. ASSUME NEW s \in SUBSET S, s # {} PROVE f[<<Pick(s), g[s \ {Pick(s)}]>>] \in T
            <4>1. Pick(s) \in U /\ g[s \ {Pick(s)}] \in T BY <1>1, <3>1
            <4> QED BY <4>1
        <3> QED BY <3>1
    <2>3. ASSUME NEW s \in SUBSET S, Cardinality(s) <= n + 1
          PROVE  h[s] = IF s = {} THEN b ELSE f[<<Pick(s), h[s \ {Pick(s)}]>>]
        <3>1. CASE s = {}
            <4>1. h[s] = IF Cardinality(s) <= n THEN g[s] ELSE b BY <3>1
            <4>2. Cardinality(s) <= n => g[s] = b BY <2>1, <3>1
            <4> QED BY <3>1, <4>1, <4>2
        <3>2. CASE s # {}
            <4> DEFINE t == s \ {Pick(s)}
            <4>1. t \in SUBSET S /\ Cardinality(t) = Cardinality(s) - 1 /\ Cardinality(s) \in Nat
                BY <1>1, <3>2
            <4>2. Cardinality(t) <= n BY <2>3, <4>1
            <4>3. h[t] = g[t] BY <4>1, <4>2
            <4>4. g[s] = f[<<Pick(s), g[t]>>] \/ ~(Cardinality(s) <= n) BY <2>1, <3>2
            <4>5. h[s] = f[<<Pick(s), g[t]>>] BY <3>2, <4>4
            <4> QED BY <3>2, <4>3, <4>5
        <3> QED BY <3>1, <3>2
    <2> HIDE DEF h
    <2>4. Upto(h, n + 1) BY <2>3
    <2> HIDE DEF Upto
    <2> QED BY <2>2, <2>4
<1> HIDE DEF P
<1>4. Cardinality(S) \in Nat BY FS_CardinalityType
<1>5. Cardinality(S) \in P BY <1>2, <1>3, <1>4, NatInduct
<1>6. PICK g \in [SUBSET S -> T] : Upto(g, Cardinality(S)) BY <1>5 DEF P
<1>7. \A s \in SUBSET S : g[s] = IF s = {} THEN b ELSE f[<<Pick(s), g[s \ {Pick(s)}]>>]
    BY <1>1, <1>6
<1>8. g[{}] = b
    <2>1. {} \in SUBSET S OBVIOUS
    <2> QED BY <1>7, <2>1
<1>9. \A s \in SUBSET S : s # {} => g[s] = f[<<Pick(s), g[s \ {Pick(s)}]>>] BY <1>7
<1> HIDE DEF Upto
<1> QED BY <1>8, <1>9 DEF Folds

-----------------------------------------------------------------------------
(* Sums over finite sets *)

(* The sum of f over S, an element at a time. *)
SetSum(f, S) ==
    LET iter[s \in SUBSET S] == IF s = {} THEN 0 ELSE f[Pick(s)] + iter[s \ {Pick(s)}]
    IN  iter[S]

(* What the recursion of SetSum asks of g, on the subsets of S. *)
Sums(g, f, S) ==
    \A s \in SUBSET S : g[s] = IF s = {} THEN 0 ELSE f[Pick(s)] + g[s \ {Pick(s)}]

SumStep(f, S) == [v \in S \X Int |-> f[v[1]] + v[2]]

LEMMA SumsFold ==
    ASSUME NEW S, NEW R \in SUBSET S, NEW f, \A x \in S : f[x] \in Int, NEW g
    PROVE  /\ SumStep(f, S) \in [S \X Int -> Int]
           /\ Sums(g, f, R) => Folds(g, SumStep(f, S), 0, R, Int)
           /\ g \in [SUBSET R -> Int] /\ Folds(g, SumStep(f, S), 0, R, Int) => Sums(g, f, R)
<1>1. SumStep(f, S) \in [S \X Int -> Int] BY DEF SumStep
<1>2. ASSUME NEW s \in SUBSET R, s # {}
      PROVE  /\ Pick(s) \in S /\ s \ {Pick(s)} \in SUBSET R
             /\ \A a \in Int : SumStep(f, S)[<<Pick(s), a>>] = f[Pick(s)] + a
    <2>1. Pick(s) \in S BY <1>2, PickIs
    <2> QED BY <2>1 DEF SumStep
<1>3. ASSUME Sums(g, f, R) PROVE Folds(g, SumStep(f, S), 0, R, Int)
    <2>1. {} \in SUBSET R OBVIOUS
    <2>2. g[{}] = 0 BY <1>3, <2>1 DEF Sums
    <2>3. \A s \in SUBSET R : s # {} => g[s] = f[Pick(s)] + g[s \ {Pick(s)}] BY <1>3 DEF Sums
    <2> QED BY <1>2, <2>2, <2>3 DEF Folds
<1>4. ASSUME g \in [SUBSET R -> Int], Folds(g, SumStep(f, S), 0, R, Int) PROVE Sums(g, f, R)
    BY <1>2, <1>4 DEF Folds, Sums
<1> QED BY <1>1, <1>3, <1>4

LEMMA SumsUnique ==
    ASSUME NEW S, NEW R, IsFiniteSet(S), R \subseteq S, NEW f, \A x \in S : f[x] \in Int,
           NEW g, NEW h, Sums(g, f, R), Sums(h, f, S)
    PROVE  \A s \in SUBSET R : g[s] = h[s]
<1>1. 0 \in Int /\ R \in SUBSET S /\ S \in SUBSET S /\ IsFiniteSet(R) BY FS_Subset
<1> DEFINE G == SumStep(f, S)
<1>2. G \in [S \X Int -> Int] BY <1>1, SumsFold
<1>3. Folds(g, G, 0, R, Int) /\ Folds(h, G, 0, S, Int) BY <1>1, SumsFold
<1> HIDE DEF G
<1>4. FoldType(G, 0, S, Int) BY <1>2 DEF FoldType
<1> QED BY <1>1, <1>3, <1>4, FoldsUnique

(* The recursion of SetSum, unfolded. *)
LEMMA SetSumIter ==
    ASSUME NEW S, IsFiniteSet(S), NEW f, \A x \in S : f[x] \in Int
    PROVE  \E g \in [SUBSET S -> Int] : Sums(g, f, S) /\ SetSum(f, S) = g[S]
<1> DEFINE Body(h) == [s \in SUBSET S |-> IF s = {} THEN 0 ELSE f[Pick(s)] + h[s \ {Pick(s)}]]
           C == CHOOSE h : h = Body(h)
<1>1. PICK g \in [SUBSET S -> Int] : Sums(g, f, S)
    <2>1. FoldType(SumStep(f, S), 0, S, Int) /\ S \in SUBSET S BY DEF FoldType, SumStep
    <2>2. PICK h \in [SUBSET S -> Int] : Folds(h, SumStep(f, S), 0, S, Int)
        BY <2>1, FoldsExist
    <2>3. Sums(h, f, S) BY <2>1, <2>2, SumsFold
    <2> QED BY <2>3
<1>2. g = Body(g) BY <1>1 DEF Sums
<1>3. C = Body(C) BY <1>2
<1>4. SetSum(f, S) = C[S] BY DEF SetSum
<1> HIDE DEF C
<1>5. Sums(C, f, S) BY <1>3 DEF Sums
<1>6. \A s \in SUBSET S : C[s] = g[s] BY <1>1, <1>5, SumsUnique
<1> QED BY <1>1, <1>4, <1>6

LEMMA SetSumPick ==
    ASSUME NEW S, IsFiniteSet(S), NEW f, \A x \in S : f[x] \in Int
    PROVE  /\ SetSum(f, S) \in Int
           /\ S = {} => SetSum(f, S) = 0
           /\ S # {} => SetSum(f, S) = f[Pick(S)] + SetSum(f, S \ {Pick(S)})
<1>1. PICK g \in [SUBSET S -> Int] : Sums(g, f, S) /\ SetSum(f, S) = g[S] BY SetSumIter
<1>2. SetSum(f, S) \in Int /\ (S = {} => SetSum(f, S) = 0) BY <1>1 DEF Sums
<1>3. ASSUME S # {} PROVE SetSum(f, S) = f[Pick(S)] + SetSum(f, S \ {Pick(S)})
    <2> DEFINE T == S \ {Pick(S)}
    <2>1. IsFiniteSet(T) /\ T \subseteq S BY FS_Subset
    <2>2. PICK h \in [SUBSET T -> Int] : Sums(h, f, T) /\ SetSum(f, T) = h[T]
        BY <2>1, SetSumIter
    <2>3. g[T] = h[T] BY <1>1, <2>1, <2>2, SumsUnique
    <2>4. g[S] = f[Pick(S)] + g[T] BY <1>1, <1>3 DEF Sums
    <2> QED BY <1>1, <2>2, <2>3, <2>4
<1> QED BY <1>2, <1>3

(* It does not matter which element is added first. *)
LEMMA SetSumAny ==
    ASSUME NEW S, IsFiniteSet(S), NEW f, \A x \in S : f[x] \in Int, NEW e \in S
    PROVE  SetSum(f, S) = f[e] + SetSum(f, S \ {e})
<1> DEFINE P == {n \in Nat : \A s \in SUBSET S : Cardinality(s) = n =>
                    \A x \in s : SetSum(f, s) = f[x] + SetSum(f, s \ {x})}
<1>1. ASSUME NEW s \in SUBSET S
      PROVE  IsFiniteSet(s) /\ Cardinality(s) \in Nat /\ SetSum(f, s) \in Int
    <2>1. IsFiniteSet(s) /\ Cardinality(s) \in Nat BY FS_Subset, FS_CardinalityType
    <2> QED BY <2>1, SetSumPick
<1>2. 0 \in P
    <2> SUFFICES ASSUME NEW s \in SUBSET S, Cardinality(s) = 0 PROVE s = {} OBVIOUS
    <2> QED BY <1>1, FS_EmptySet
<1>3. ASSUME NEW n \in Nat, n \in P PROVE n + 1 \in P
    <2> SUFFICES ASSUME NEW s \in SUBSET S, Cardinality(s) = n + 1, NEW x \in s
                 PROVE  SetSum(f, s) = f[x] + SetSum(f, s \ {x})
        OBVIOUS
    <2> DEFINE y == Pick(s)
    <2>1. y \in s BY PickIs
    <2>2. SetSum(f, s) = f[y] + SetSum(f, s \ {y}) BY <1>1, SetSumPick
    <2>3. CASE x = y BY <2>2, <2>3
    <2>4. CASE x # y
        <3> HIDE DEF y
        <3> DEFINE sx == s \ {x}
                   sy == s \ {y}
                   z == s \ {x, y}
        <3>1. sx \in SUBSET S /\ sy \in SUBSET S /\ z \in SUBSET S /\ y \in sx /\ x \in sy
            BY <2>1, <2>4
        <3>2. Cardinality(sx) = n /\ Cardinality(sy) = n
            <4>1. /\ Cardinality(sx) = Cardinality(s) - 1
                  /\ Cardinality(sy) = Cardinality(s) - 1
                BY <1>1, <2>1, OneLess
            <4> QED BY <4>1
        <3>3. sx \ {y} = z /\ sy \ {x} = z OBVIOUS
        <3>4. SetSum(f, sx) = f[y] + SetSum(f, z) BY <1>3, <3>1, <3>2, <3>3
        <3>5. SetSum(f, sy) = f[x] + SetSum(f, z) BY <1>3, <3>1, <3>2, <3>3
        <3>6. f[x] \in Int /\ f[y] \in Int /\ SetSum(f, z) \in Int BY <1>1, <2>1, <3>1
        <3> DEFINE u == f[x]
                   v == f[y]
                   w == SetSum(f, z)
        <3>7. SetSum(f, s) = v + (u + w) /\ SetSum(f, sx) = v + w BY <2>2, <3>4, <3>5
        <3>8. u \in Int /\ v \in Int /\ w \in Int BY <3>6
        <3> HIDE DEF u, v, w
        <3>9. v + (u + w) = u + (v + w) BY <3>8
        <3> QED BY <3>7, <3>9 DEF u
    <2> QED BY <2>3, <2>4
<1> HIDE DEF P
<1>4. \A n \in Nat : n \in P BY <1>2, <1>3, NatInduct
<1> QED BY <1>1, <1>4 DEF P

(* The sum over two sets without common elements. *)
LEMMA SetSumUnion ==
    ASSUME NEW S, NEW T, IsFiniteSet(S), IsFiniteSet(T), S \cap T = {},
           NEW f, \A x \in S \cup T : f[x] \in Int
    PROVE  SetSum(f, S \cup T) = SetSum(f, S) + SetSum(f, T)
<1> DEFINE P == {n \in Nat : \A t \in SUBSET T : Cardinality(t) = n =>
                    SetSum(f, S \cup t) = SetSum(f, S) + SetSum(f, t)}
<1>1. ASSUME NEW t \in SUBSET T
      PROVE  /\ IsFiniteSet(t) /\ Cardinality(t) \in Nat /\ SetSum(f, t) \in Int
             /\ IsFiniteSet(S \cup t)
    <2>1. IsFiniteSet(t) /\ Cardinality(t) \in Nat BY FS_Subset, FS_CardinalityType
    <2>2. IsFiniteSet(S \cup t) BY <2>1, FS_Union
    <2> QED BY <2>1, <2>2, SetSumPick
<1>2. SetSum(f, S) \in Int BY SetSumPick
<1>3. 0 \in P
    <2> SUFFICES ASSUME NEW t \in SUBSET T, Cardinality(t) = 0
                 PROVE  SetSum(f, S \cup t) = SetSum(f, S) + SetSum(f, t)
        OBVIOUS
    <2>1. t = {} BY <1>1, FS_EmptySet
    <2>2. SetSum(f, t) = 0 BY <1>1, <2>1, SetSumPick
    <2>3. S \cup t = S BY <2>1
    <2> QED BY <1>2, <2>2, <2>3
<1>4. ASSUME NEW n \in Nat, n \in P PROVE n + 1 \in P
    <2> SUFFICES ASSUME NEW t \in SUBSET T, Cardinality(t) = n + 1
                 PROVE  SetSum(f, S \cup t) = SetSum(f, S) + SetSum(f, t)
        OBVIOUS
    <2>1. t # {}
        <3>1. Cardinality({}) = 0 /\ n + 1 # 0 BY FS_EmptySet
        <3> QED BY <3>1
    <2>2. PICK x \in t : TRUE BY <2>1
    <2> DEFINE r == t \ {x}
               U == S \cup t
    <2>3. r \in SUBSET T /\ Cardinality(r) = n
        <3>1. Cardinality(r) = Cardinality(t) - 1 BY <1>1, OneLess
        <3> QED BY <3>1
    <2>4. SetSum(f, S \cup r) = SetSum(f, S) + SetSum(f, r) BY <1>4, <2>3
    <2>5. U \ {x} = S \cup r /\ x \in U BY <2>2
    <2>6. SetSum(f, U) = f[x] + SetSum(f, U \ {x})
        <3>1. IsFiniteSet(U) /\ \A y \in U : f[y] \in Int BY <1>1
        <3> QED BY <2>5, <3>1, SetSumAny
    <2>7. SetSum(f, t) = f[x] + SetSum(f, r) BY <1>1, SetSumAny
    <2> DEFINE a == SetSum(f, S)
               b == SetSum(f, r)
               c == f[x]
    <2>8. a \in Int /\ b \in Int /\ c \in Int BY <1>1, <1>2, <2>2, <2>3
    <2>9. SetSum(f, U) = c + (a + b) /\ SetSum(f, t) = c + b BY <2>4, <2>5, <2>6, <2>7
    <2> HIDE DEF a, b, c
    <2>10. c + (a + b) = a + (c + b) BY <2>8
    <2> QED BY <2>9, <2>10 DEF a
<1> HIDE DEF P
<1>5. \A n \in Nat : n \in P BY <1>3, <1>4, NatInduct
<1> QED BY <1>1, <1>5 DEF P

-----------------------------------------------------------------------------
(* Powers of two, from the number of subsets of a finite set. *)

(* A set with one more element has twice as many subsets. *)
LEMMA PowerStep ==
    ASSUME NEW n \in Nat
    PROVE  2 ^ n \in Nat /\ 2 ^ (n + 1) = 2 * 2 ^ n
<1> DEFINE S == 1 .. n
           T == 1 .. n + 1
           A == SUBSET S
           B == {X \cup {n + 1} : X \in A}
           f == [X \in A |-> X \cup {n + 1}]
<1>1. IsFiniteSet(S) /\ Cardinality(S) = n /\ IsFiniteSet(T) /\ Cardinality(T) = n + 1
    BY FS_Interval
<1>2. IsFiniteSet(A) /\ Cardinality(A) = 2 ^ n BY <1>1, FS_SUBSET
<1>3. Cardinality(SUBSET T) = 2 ^ (n + 1) BY <1>1, FS_SUBSET
<1>4. SUBSET T = A \cup B
    <2>1. T = S \cup {n + 1} OBVIOUS
    <2>2. ASSUME NEW X \in SUBSET T PROVE X \in A \cup B
        <3>1. CASE n + 1 \in X
            <4>1. X \ {n + 1} \in A /\ X = (X \ {n + 1}) \cup {n + 1} BY <2>1, <3>1
            <4> QED BY <4>1
        <3>2. CASE n + 1 \notin X
            <4> QED BY <2>1, <3>2
        <3> QED BY <3>1, <3>2
    <2>3. A \cup B \subseteq SUBSET T BY <2>1
    <2> QED BY <2>2, <2>3
<1>5. A \cap B = {}
    <2>1. n + 1 \notin S OBVIOUS
    <2> QED BY <2>1
<1>6. ExistsBijection(A, B)
    <2>1. f \in [A -> B] OBVIOUS
    <2>2. ASSUME NEW X \in A, NEW Y \in A, f[X] = f[Y] PROVE X = Y
        <3>1. n + 1 \notin X /\ n + 1 \notin Y OBVIOUS
        <3>2. X \cup {n + 1} = Y \cup {n + 1} BY <2>2
        <3> HIDE DEF A
        <3> QED BY <3>1, <3>2
    <2>3. \A Z \in B : \E X \in A : f[X] = Z OBVIOUS
    <2> HIDE DEF A, B, f
    <2>4. f \in Bijection(A, B) BY <2>1, <2>2, <2>3 DEF Bijection, Injection, Surjection, IsInjective
    <2> QED BY <2>4 DEF ExistsBijection
<1> HIDE DEF A, B, f, T
<1>7. IsFiniteSet(B) /\ Cardinality(B) = Cardinality(A) BY <1>2, <1>6, FS_Bijection
<1>8. Cardinality(A) \in Nat BY <1>2, FS_CardinalityType
<1>9. Cardinality(A \cup B) = Cardinality(A) + Cardinality(B) - Cardinality(A \cap B)
    BY <1>2, <1>7, FS_Union
<1>10. Cardinality(A \cap B) = 0 BY <1>5, FS_EmptySet
<1>11. 2 ^ (n + 1) = Cardinality(A \cup B) BY <1>3, <1>4, Zenon
<1>12. Cardinality(A \cup B) = Cardinality(A) + Cardinality(A) BY <1>7, <1>8, <1>9, <1>10
<1> QED BY <1>2, <1>8, <1>11, <1>12

(* Powers of two are positive and exceed their exponent. *)
LEMMA PowerPositive ==
    ASSUME NEW n \in Nat
    PROVE  2 ^ n \in Nat /\ 2 ^ n > n
<1> DEFINE P == {k \in Nat : 2 ^ k > k}
<1>1. 0 \in P
    <2>1. 2 ^ 0 = 1 OBVIOUS
    <2> QED BY <2>1
<1>2. ASSUME NEW k \in Nat, k \in P PROVE k + 1 \in P
    <2>1. 2 ^ k \in Nat /\ 2 ^ (k + 1) = 2 * 2 ^ k BY PowerStep
    <2>2. 2 ^ k > k BY <1>2
    <2> QED BY <2>1, <2>2
<1> HIDE DEF P
<1>3. n \in P BY <1>1, <1>2, NatInduct
<1> QED BY <1>3, PowerStep DEF P

(* The exponents add up. *)
LEMMA PowerSum ==
    ASSUME NEW m \in Nat, NEW n \in Nat
    PROVE  2 ^ (m + n) = 2 ^ m * 2 ^ n
<1> DEFINE P == {k \in Nat : 2 ^ (m + k) = 2 ^ m * 2 ^ k}
<1>0. 2 ^ m \in Nat BY PowerStep
<1>1. 0 \in P
    <2>1. 2 ^ 0 = 1 /\ m + 0 = m OBVIOUS
    <2> QED BY <1>0, <2>1
<1>2. ASSUME NEW k \in Nat, k \in P PROVE k + 1 \in P
    <2>1. 2 ^ k \in Nat /\ 2 ^ (k + 1) = 2 * 2 ^ k BY PowerStep
    <2>2. m + k \in Nat /\ m + (k + 1) = (m + k) + 1 OBVIOUS
    <2>3. 2 ^ ((m + k) + 1) = 2 * 2 ^ (m + k) BY <2>2, PowerStep
    <2>4. 2 ^ (m + k) = 2 ^ m * 2 ^ k BY <1>2
    <2> DEFINE x == 2 ^ m
               y == 2 ^ k
    <2>5. 2 * (x * y) = x * (2 * y)
        <3>1. x \in Nat /\ y \in Nat BY <1>0, <2>1
        <3> HIDE DEF x, y
        <3> QED BY <3>1
    <2> QED BY <2>1, <2>2, <2>3, <2>4, <2>5
<1> HIDE DEF P
<1>3. n \in P BY <1>1, <1>2, NatInduct
<1> QED BY <1>3 DEF P

(* Powers of two grow with the exponent. *)
LEMMA PowerMono ==
    ASSUME NEW m \in Nat, NEW n \in Nat, m <= n
    PROVE  2 ^ m <= 2 ^ n /\ 2 ^ n % 2 ^ m = 0 /\ 2 ^ n = 2 ^ m * 2 ^ (n - m)
<1> DEFINE x == 2 ^ m
           y == 2 ^ (n - m)
<1>1. n - m \in Nat /\ m + (n - m) = n OBVIOUS
<1>2. 2 ^ n = x * y BY <1>1, PowerSum
<1>3. x \in Nat /\ x > 0 /\ y \in Nat /\ y > 0 BY <1>1, PowerPositive
<1> HIDE DEF x, y
<1>4. x <= x * y BY <1>3
<1>5. (x * y) % x = 0
    <2>1. x * y = x * y + 0 /\ x * y \in Int BY <1>3
    <2> QED BY <1>3, <2>1
<1> QED BY <1>2, <1>4, <1>5 DEF x, y

-----------------------------------------------------------------------------
(* Sums of a series of integers *)

(* The sum of f[0], ..., f[n - 1]. *)
Sigma(f, n) == LET s[i \in Nat] == IF i = 0 THEN 0 ELSE s[i - 1] + f[i - 1] IN s[n]

Terms == [Nat -> Int]

(* The recursion of Sigma, unfolded. *)
LEMMA SigmaStep ==
    ASSUME NEW f \in Terms, NEW k \in Nat
    PROVE  Sigma(f, 0) = 0 /\ Sigma(f, k) \in Int /\ Sigma(f, k + 1) = Sigma(f, k) + f[k]
<1> DEFINE Body(h) == [i \in Nat |-> IF i = 0 THEN 0 ELSE h[i - 1] + f[i - 1]]
           S == CHOOSE h : h = Body(h)
           g == [v \in Int \X Nat |-> IF v[2] = 0 THEN 0 ELSE v[1] + f[v[2] - 1]]
<1>1. /\ g \in [Int \X Nat -> Int]
      /\ \A v \in Int, n \in Nat : n # 0 => g[<<v, n>>] = v + f[n - 1]
    <2>1. ASSUME NEW v \in Int, NEW n \in Nat, n # 0 PROVE v + f[n - 1] \in Int
        <3>1. n - 1 \in Nat BY <2>1
        <3> QED BY <3>1 DEF Terms
    <2> QED BY <2>1
<1> HIDE DEF g
<1>2. PICK h \in [Nat -> Int] : RecursesDown(h, 0, g)
    <2>1. 0 \in Int OBVIOUS
    <2> QED BY <1>1, <2>1, NatRecursion
<1>3. ASSUME NEW n \in Nat PROVE h[n] = IF n = 0 THEN 0 ELSE h[n - 1] + f[n - 1]
    <2>1. CASE n = 0 BY <1>2, <2>1 DEF RecursesDown
    <2>2. CASE n # 0
        <3>1. n - 1 \in Nat /\ h[n - 1] \in Int BY <2>2
        <3> QED BY <1>1, <1>2, <2>2, <3>1 DEF RecursesDown
    <2> QED BY <2>1, <2>2
<1>4. h = Body(h) BY <1>3
<1>5. S = Body(S) BY <1>4
<1>6. \A n \in Nat : Sigma(f, n) = S[n] BY DEF Sigma
<1> HIDE DEF S
<1>7. S[0] = 0 /\ \A n \in Nat : S[n + 1] = S[n] + f[n]
    <2>1. ASSUME NEW n \in Nat PROVE S[n + 1] = S[n] + f[n]
        <3>1. n + 1 \in Nat /\ n + 1 # 0 /\ (n + 1) - 1 = n OBVIOUS
        <3> QED BY <1>5, <3>1
    <2> QED BY <1>5, <2>1
<1> DEFINE T == {n \in Nat : S[n] \in Int}
<1>8. 0 \in T BY <1>7
<1>9. ASSUME NEW n \in Nat, n \in T PROVE n + 1 \in T
    BY <1>7, <1>9 DEF Terms
<1> HIDE DEF T
<1>10. k \in T BY <1>8, <1>9, NatInduct
<1>11. k + 1 \in Nat /\ S[k] \in Int BY <1>10 DEF T
<1> QED BY <1>6, <1>7, <1>11

(* Sums of equal terms are equal, *)
LEMMA SigmaSame ==
    ASSUME NEW f \in Terms, NEW g \in Terms, NEW n \in Nat, \A i \in 0 .. n - 1 : f[i] = g[i]
    PROVE  Sigma(f, n) = Sigma(g, n)
<1> DEFINE P == {k \in Nat : k <= n => Sigma(f, k) = Sigma(g, k)}
<1>1. 0 \in P
    <2>1. Sigma(f, 0) = 0 /\ Sigma(g, 0) = 0 BY SigmaStep
    <2> QED BY <2>1
<1>2. ASSUME NEW k \in Nat, k \in P PROVE k + 1 \in P
    <2> SUFFICES ASSUME k + 1 <= n PROVE Sigma(f, k + 1) = Sigma(g, k + 1) OBVIOUS
    <2>1. Sigma(f, k + 1) = Sigma(f, k) + f[k] /\ Sigma(g, k + 1) = Sigma(g, k) + g[k]
        BY SigmaStep
    <2>2. f[k] = g[k] /\ Sigma(f, k) = Sigma(g, k) BY <1>2
    <2> QED BY <2>1, <2>2
<1> HIDE DEF P
<1>3. n \in P BY <1>1, <1>2, NatInduct
<1> QED BY <1>3 DEF P

(* a sum is linear in its terms, *)
LEMMA SigmaLinear ==
    ASSUME NEW f \in Terms, NEW g \in Terms, NEW h \in Terms, NEW a \in Int, NEW b \in Int,
           NEW n \in Nat, \A i \in 0 .. n - 1 : h[i] = a * f[i] + b * g[i]
    PROVE  Sigma(h, n) = a * Sigma(f, n) + b * Sigma(g, n)
<1> DEFINE P == {k \in Nat : k <= n => Sigma(h, k) = a * Sigma(f, k) + b * Sigma(g, k)}
<1>1. 0 \in P
    <2>1. Sigma(f, 0) = 0 /\ Sigma(g, 0) = 0 /\ Sigma(h, 0) = 0 BY SigmaStep
    <2> QED BY <2>1
<1>2. ASSUME NEW k \in Nat, k \in P PROVE k + 1 \in P
    <2> DEFINE x == Sigma(f, k)
               y == Sigma(g, k)
               u == f[k]
               v == g[k]
    <2> SUFFICES ASSUME k + 1 <= n
                 PROVE  Sigma(h, k + 1) = a * Sigma(f, k + 1) + b * Sigma(g, k + 1)
        OBVIOUS
    <2>1. x \in Int /\ Sigma(f, k + 1) = x + u BY SigmaStep
    <2>2. y \in Int /\ Sigma(g, k + 1) = y + v BY SigmaStep
    <2>3. Sigma(h, k + 1) = Sigma(h, k) + h[k] BY SigmaStep
    <2>4. u \in Int /\ v \in Int /\ h[k] = a * u + b * v BY DEF Terms
    <2>5. Sigma(h, k) = a * x + b * y BY <1>2
    <2> HIDE DEF x, y, u, v
    <2>6. (a * x + b * y) + (a * u + b * v) = a * (x + u) + b * (y + v)
        BY <2>1, <2>2, <2>4
    <2> QED BY <2>1, <2>2, <2>3, <2>4, <2>5, <2>6
<1> HIDE DEF P
<1>3. n \in P BY <1>1, <1>2, NatInduct
<1> QED BY <1>3 DEF P

(* and may be taken in two parts. *)
LEMMA SigmaSplit ==
    ASSUME NEW f \in Terms, NEW g \in Terms, NEW m \in Nat, NEW n \in Nat,
           \A i \in 0 .. n - 1 : g[i] = f[i + m]
    PROVE  Sigma(f, m + n) = Sigma(f, m) + Sigma(g, n)
<1> DEFINE P == {k \in Nat : k <= n => Sigma(f, m + k) = Sigma(f, m) + Sigma(g, k)}
<1>0. Sigma(f, m) \in Int BY SigmaStep
<1>1. 0 \in P
    <2>1. Sigma(g, 0) = 0 /\ m + 0 = m BY SigmaStep
    <2> QED BY <1>0, <2>1
<1>2. ASSUME NEW k \in Nat, k \in P PROVE k + 1 \in P
    <2> SUFFICES ASSUME k + 1 <= n PROVE Sigma(f, m + (k + 1)) = Sigma(f, m) + Sigma(g, k + 1)
        OBVIOUS
    <2>1. m + k \in Nat /\ m + (k + 1) = (m + k) + 1 /\ k + m = m + k OBVIOUS
    <2>2. Sigma(f, (m + k) + 1) = Sigma(f, m + k) + f[m + k] BY <2>1, SigmaStep
    <2>3. Sigma(g, k + 1) = Sigma(g, k) + g[k] /\ Sigma(g, k) \in Int BY SigmaStep
    <2>4. g[k] = f[m + k] /\ g[k] \in Int BY <2>1 DEF Terms
    <2>5. Sigma(f, m + k) = Sigma(f, m) + Sigma(g, k) BY <1>2
    <2> QED BY <1>0, <2>1, <2>2, <2>3, <2>4, <2>5
<1> HIDE DEF P
<1>3. n \in P BY <1>1, <1>2, NatInduct
<1> QED BY <1>3 DEF P

-----------------------------------------------------------------------------
(* Division with a remainder *)

LEMMA DivisionIs ==
    ASSUME NEW n \in Nat, NEW d \in Nat, d > 0
    PROVE  /\ n \div d \in Nat /\ (n % d) \in Nat /\ (n % d) < d
           /\ n = (n \div d) * d + (n % d)
<1>1. n \div d \in Nat OBVIOUS
<1>2. (n % d) \in 0 .. d - 1 OBVIOUS
<1>3. n = (n \div d) * d + (n % d) OBVIOUS
<1> QED BY <1>1, <1>2, <1>3

LEMMA DivisionUnique ==
    ASSUME NEW n \in Nat, NEW d \in Nat, d > 0,
           NEW q \in Nat, NEW r \in Nat, r < d, n = q * d + r
    PROVE  n \div d = q /\ (n % d) = r
<1> DEFINE u == n \div d
           v == n % d
<1>1. u \in Nat /\ v \in Nat /\ v < d /\ n = u * d + v BY DivisionIs
<1> HIDE DEF u, v
<1> DEFINE a == u * d
           b == q * d
<1>2. a \in Nat /\ b \in Nat /\ a + v = b + r BY <1>1
<1>3. CASE u > q
    <2>1. u * d >= (q + 1) * d BY <1>1, <1>3
    <2>2. (q + 1) * d = q * d + d OBVIOUS
    <2>3. a >= b + d BY <2>1, <2>2
    <2> HIDE DEF a, b
    <2> QED BY <1>1, <1>2, <2>3
<1>4. CASE u < q
    <2>1. q * d >= (u + 1) * d BY <1>1, <1>4
    <2>2. (u + 1) * d = u * d + d BY <1>1
    <2>3. b >= a + d BY <2>1, <2>2
    <2> HIDE DEF a, b
    <2> QED BY <1>1, <1>2, <2>3
<1>5. CASE u = q
    <2>1. a = b BY <1>5
    <2> HIDE DEF a, b
    <2>2. v = r BY <1>1, <1>2, <2>1
    <2> QED BY <1>5, <2>2 DEF u, v
<1> QED BY <1>1, <1>3, <1>4, <1>5

=============================================================================
