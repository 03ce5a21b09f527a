--------------------------- MODULE PrioWireProofs ---------------------------
(***************************************************************************)
(* What passes between the parties, for every configuration, keys of every *)
(* length and every message: what is read from an unaltered stream is what *)
(* was written (RoundTrip), no stream at all makes a reader that succeeds  *)
(* store what the library cannot rely on (SoundUnlessFailed), a key        *)
(* survives export in either form and import (KeysSurvive), and a          *)
(* ciphertext opens exactly when it is whole, for this server and the      *)
(* buffer has room (DecryptExact).  And the integers read from random      *)
(* octets are in range and uniform (DrawsExact).                           *)
(***************************************************************************)
EXTENDS PrioStream, PrioKeys, PrioRand, PrioSnipProofs, SequenceTheorems

-----------------------------------------------------------------------------
(* Octets (PrioSerial) *)

OctetOf == 0 .. Radix - 1

(* The digits of a number: its last one, and before it those of the rest.  *)
LEMMA OctetsOf ==
    /\ octets_of \in [Nat -> Seq(OctetOf)]
    /\ \A n \in Nat : octets_of[n] = IF n < Radix THEN <<n>>
                                     ELSE Append(octets_of[n \div Radix], n % Radix)
<1> DEFINE S == Seq(OctetOf)
           a == <<0>>
           g == [x \in S \X Nat |-> IF x[2] < Radix THEN <<x[2]>> ELSE Append(x[1], x[2] % Radix)]
           d == [n \in Nat |-> n \div Radix]
           Body(h) == [n \in Nat |-> IF n < Radix THEN <<n>> ELSE Append(h[n \div Radix], n % Radix)]
<1>0. Radix \in Nat /\ Radix > 1 BY RadixAssumption
<1>1. a \in S BY <1>0 DEF OctetOf
<1>2. g \in [S \X Nat -> S]
    <2> SUFFICES ASSUME NEW s \in S, NEW n \in Nat PROVE g[<<s, n>>] \in S OBVIOUS
    <2>1. CASE n < Radix
        <3>1. n \in OctetOf BY <1>0, <2>1 DEF OctetOf
        <3> QED BY <2>1, <3>1
    <2>2. CASE ~ (n < Radix)
        <3>1. n % Radix \in OctetOf BY <1>0 DEF OctetOf
        <3>2. Append(s, n % Radix) \in S BY <3>1
        <3> QED BY <2>2, <3>2
    <2> QED BY <2>1, <2>2
<1>3. d \in [Nat -> Nat] /\ \A n \in Nat : n # 0 => d[n] < n
    <2>1. ASSUME NEW n \in Nat PROVE n \div Radix \in Nat /\ (n # 0 => n \div Radix < n)
        <3>1. /\ n \div Radix \in Nat /\ n % Radix \in Nat
              /\ n = Radix * (n \div Radix) + (n % Radix)
            BY <1>0
        <3> DEFINE q == n \div Radix
        <3>2. Radix * q >= 2 * q BY <1>0, <3>1
        <3> HIDE DEF q
        <3> QED BY <1>0, <3>1, <3>2 DEF q
    <2> QED BY <2>1
<1>4. PICK f \in [Nat -> S] : Recurses(f, a, g, d)
    <2> HIDE DEF a, g, d, S
    <2>1. \A n \in Nat : n # 0 => d[n] < n BY <1>3
    <2> QED BY <1>1, <1>2, <1>3, <2>1, DecreasingRecursion
<1>5. ASSUME NEW n \in Nat
      PROVE  f[n] = IF n < Radix THEN <<n>> ELSE Append(f[n \div Radix], n % Radix)
    <2>1. CASE n = 0
        <3>1. 0 \in Nat /\ 0 < Radix BY <1>0
        <3>2. f[0] = a BY <1>4, <3>1 DEF Recurses
        <3> QED BY <2>1, <3>1, <3>2
    <2>2. CASE n # 0
        <3>1. f[n] = g[<<f[d[n]], n>>] BY <1>4, <2>2 DEF Recurses
        <3>2. d[n] \in Nat /\ f[d[n]] \in S /\ d[n] = n \div Radix BY <1>3, <1>4
        <3> QED BY <3>1, <3>2
    <2> QED BY <2>1, <2>2
<1>6. f = Body(f) BY <1>4, <1>5
<1>7. octets_of = CHOOSE h : h = Body(h) BY DEF octets_of
<1>8. octets_of = Body(octets_of)
    <2> HIDE DEF Body
    <2> QED BY <1>6, <1>7
<1>9. ASSUME NEW n \in Nat
      PROVE  octets_of[n] = IF n < Radix THEN <<n>>
                            ELSE Append(octets_of[n \div Radix], n % Radix)
    BY <1>8
<1>10. ASSUME NEW n \in Nat, \A m \in 0 .. n - 1 : octets_of[m] = f[m]
       PROVE  octets_of[n] = f[n]
    <2>1. CASE n < Radix BY <1>5, <1>9, <2>1
    <2>2. CASE ~ (n < Radix)
        <3>1. n # 0 BY <1>0, <2>2
        <3>2. d[n] \in Nat /\ d[n] < n /\ d[n] = n \div Radix BY <1>3, <3>1
        <3>3. n \div Radix \in 0 .. n - 1 BY <3>2
        <3> QED BY <1>5, <1>9, <1>10, <2>2, <3>3
    <2> QED BY <2>1, <2>2
<1>11. \A n \in Nat : octets_of[n] = f[n]
    <2> DEFINE T == {n \in Nat : octets_of[n] = f[n]}
    <2>1. ASSUME NEW n \in Nat, \A m \in 0 .. n - 1 : m \in T PROVE n \in T BY <1>10, <2>1
    <2> HIDE DEF T
    <2>2. \A n \in Nat : n \in T BY <2>1, NatStrongInduct
    <2> QED BY <2>2 DEF T
<1>12. octets_of \in [Nat -> S]
    <2>1. DOMAIN octets_of = Nat /\ octets_of = [n \in Nat |-> octets_of[n]] BY <1>8
    <2>2. \A n \in Nat : octets_of[n] \in S BY <1>4, <1>11
    <2> QED BY <2>1, <2>2
<1> QED BY <1>9, <1>12

(* Reading octets: the value of the first k of them. *)
LEMMA ReadOctets ==
    ASSUME NEW s \in Seq(OctetOf)
    PROVE  \E v \in [0 .. Len(s) -> Nat] :
             /\ v[0] = 0 /\ \A k \in 1 .. Len(s) : v[k] = v[k - 1] * Radix + s[k]
             /\ mp_read_unsigned_octets(s) = v[Len(s)]
<1> DEFINE l == Len(s)
           g == [x \in Nat \X Nat |-> IF x[2] \in 1 .. l THEN x[1] * Radix + s[x[2]] ELSE 0]
           Body(h) == [k \in 0 .. l |-> IF k = 0 THEN 0 ELSE h[k - 1] * Radix + s[k]]
           C == CHOOSE h : h = Body(h)
<1>0. Radix \in Nat /\ l \in Nat /\ \A k \in 1 .. l : s[k] \in Nat
    BY RadixAssumption DEF OctetOf
<1>10. /\ \A k \in 1 .. l : k \in Nat /\ k # 0 /\ k - 1 \in Nat /\ k \in 0 .. l /\ k - 1 \in 0 .. l
       /\ \A k \in Nat : k + 1 \in 0 .. l =>
              k \in 0 .. l /\ k + 1 \in 1 .. l /\ (k + 1) - 1 = k /\ k + 1 # 0
    <2>1. l \in Nat OBVIOUS
    <2> HIDE DEF l, g, Body, C
    <2> QED BY <2>1
<1>1. g \in [Nat \X Nat -> Nat]
    <2> SUFFICES ASSUME NEW u \in Nat, NEW n \in Nat PROVE g[<<u, n>>] \in Nat OBVIOUS
    <2>1. CASE n \in 1 .. l
        <3>1. s[n] \in Nat /\ u * Radix \in Nat BY <1>0, <2>1
        <3> QED BY <2>1, <3>1
    <2>2. CASE n \notin 1 .. l BY <2>2
    <2> QED BY <2>1, <2>2
<1>2. PICK f \in [Nat -> Nat] : RecursesDown(f, 0, g)
    <2> HIDE DEF g
    <2> QED BY <1>1, NatRecursion
<1> DEFINE v == [k \in 0 .. l |-> f[k]]
<1>3. v \in [0 .. l -> Nat] /\ v[0] = 0
    <2>1. 0 \in Nat /\ 0 \in 0 .. l BY <1>0
    <2>2. f[0] = 0 BY <1>2, <2>1 DEF RecursesDown
    <2>3. v[0] = 0 BY <2>1, <2>2
    <2>4. v \in [0 .. l -> Nat]
        <3>1. \A k \in 0 .. l : f[k] \in Nat BY <1>2
        <3> QED BY <3>1
    <2> QED BY <2>3, <2>4
<1>4. ASSUME NEW k \in 1 .. l PROVE v[k] = v[k - 1] * Radix + s[k]
    <2>1. k \in Nat /\ k # 0 /\ k - 1 \in Nat /\ k \in 0 .. l /\ k - 1 \in 0 .. l BY <1>10
    <2>2. f[k] = g[<<f[k - 1], k>>] /\ f[k - 1] \in Nat BY <1>2, <2>1 DEF RecursesDown
    <2>3. g[<<f[k - 1], k>>] = f[k - 1] * Radix + s[k] BY <2>1, <2>2
    <2> QED BY <2>1, <2>2, <2>3
<1> HIDE DEF v
<1>5. v = Body(v)
    <2>1. ASSUME NEW k \in 0 .. l PROVE v[k] = IF k = 0 THEN 0 ELSE v[k - 1] * Radix + s[k]
        BY <1>0, <1>3, <1>4
    <2> QED BY <1>3, <2>1
<1>6. C = Body(C)
    <2> HIDE DEF Body
    <2> QED BY <1>5
<1> HIDE DEF C
<1>7. \A k \in Nat : k \in 0 .. l => C[k] = v[k]
    <2> DEFINE T == {k \in Nat : k \in 0 .. l => C[k] = v[k]}
    <2>1. 0 \in T BY <1>0, <1>3, <1>6
    <2>2. ASSUME NEW k \in Nat, k \in T PROVE k + 1 \in T
        <3> SUFFICES ASSUME k + 1 \in 0 .. l PROVE C[k + 1] = v[k + 1] OBVIOUS
        <3>1. k \in 0 .. l /\ k + 1 \in 1 .. l /\ (k + 1) - 1 = k /\ k + 1 # 0 BY <1>10
        <3>2. C[k + 1] = C[k] * Radix + s[k + 1] BY <1>6, <3>1
        <3>3. v[k + 1] = v[k] * Radix + s[k + 1] BY <1>4, <3>1
        <3> QED BY <2>2, <3>1, <3>2, <3>3
    <2> HIDE DEF T
    <2>3. \A k \in Nat : k \in T BY <2>1, <2>2, NatInduct
    <2> QED BY <2>3 DEF T
<1>8. mp_read_unsigned_octets(s) = C[l] BY DEF mp_read_unsigned_octets, C
<1>9. C[l] = v[l]
    <2>1. l \in Nat /\ l \in 0 .. l OBVIOUS
    <2> HIDE DEF l
    <2> QED BY <1>7, <2>1
<1> QED BY <1>3, <1>4, <1>8, <1>9

(* What is read from octets is a number, and from those of a number it. *)
LEMMA ReadsNat ==
    ASSUME NEW s \in Seq(OctetOf)
    PROVE  mp_read_unsigned_octets(s) \in Nat
BY ReadOctets

LEMMA ReadAppend ==
    ASSUME NEW s \in Seq(OctetOf), NEW d \in OctetOf
    PROVE  mp_read_unsigned_octets(Append(s, d)) = mp_read_unsigned_octets(s) * Radix + d
<1> DEFINE l == Len(s)
           t == Append(s, d)
<1>0. Radix \in Nat /\ l \in Nat BY RadixAssumption
<1>1. t \in Seq(OctetOf) /\ Len(t) = l + 1 /\ t[l + 1] = d /\ \A k \in 1 .. l : t[k] = s[k]
    OBVIOUS
<1> HIDE DEF t
<1>2. PICK u \in [0 .. l -> Nat] :
          /\ u[0] = 0 /\ \A k \in 1 .. l : u[k] = u[k - 1] * Radix + s[k]
          /\ mp_read_unsigned_octets(s) = u[l]
    BY ReadOctets
<1>3. PICK w \in [0 .. l + 1 -> Nat] :
          /\ w[0] = 0 /\ \A k \in 1 .. l + 1 : w[k] = w[k - 1] * Radix + t[k]
          /\ mp_read_unsigned_octets(t) = w[l + 1]
    <2>1. PICK w \in [0 .. Len(t) -> Nat] :
              /\ w[0] = 0 /\ \A k \in 1 .. Len(t) : w[k] = w[k - 1] * Radix + t[k]
              /\ mp_read_unsigned_octets(t) = w[Len(t)]
        BY <1>1, ReadOctets
    <2> QED BY <1>1, <2>1
<1>4. \A k \in Nat : k \in 0 .. l => w[k] = u[k]
    <2> DEFINE T == {k \in Nat : k \in 0 .. l => w[k] = u[k]}
    <2>1. 0 \in T BY <1>0, <1>2, <1>3
    <2>2. ASSUME NEW k \in Nat, k \in T PROVE k + 1 \in T
        <3> SUFFICES ASSUME k + 1 \in 0 .. l PROVE w[k + 1] = u[k + 1] OBVIOUS
        <3>1. k \in 0 .. l /\ k + 1 \in 1 .. l /\ k + 1 \in 1 .. l + 1 /\ (k + 1) - 1 = k BY <1>0
        <3>2. w[k + 1] = w[k] * Radix + t[k + 1] BY <1>3, <3>1
        <3>3. u[k + 1] = u[k] * Radix + s[k + 1] BY <1>2, <3>1
        <3> QED BY <1>1, <2>2, <3>1, <3>2, <3>3
    <2> HIDE DEF T
    <2>3. \A k \in Nat : k \in T BY <2>1, <2>2, NatInduct
    <2> QED BY <2>3 DEF T
<1>5. w[l] = u[l] /\ l + 1 \in 1 .. l + 1 /\ (l + 1) - 1 = l BY <1>0, <1>4
<1>6. w[l + 1] = w[l] * Radix + t[l + 1] BY <1>3, <1>5
<1> QED BY <1>1, <1>2, <1>3, <1>5, <1>6 DEF t

(* mp_to_fixlen_octets and mp_read_unsigned_octets undo each other: octets *)
(* that stand for a number are at least one and are read as that number.   *)
LEMMA OctetsExact ==
    ASSUME NEW n \in Nat
    PROVE  /\ mp_to_octets(n) \in Seq(OctetOf) /\ mp_to_octets(n) # <<>>
           /\ mp_read_unsigned_octets(mp_to_octets(n)) = n
<1>0. Radix \in Nat /\ Radix > 1 BY RadixAssumption
<1>1. ASSUME NEW m \in Nat PROVE octets_of[m] \in Seq(OctetOf) /\ octets_of[m] # <<>>
    <2>1. octets_of[m] \in Seq(OctetOf) BY OctetsOf
    <2>2. CASE m < Radix
        <3>1. octets_of[m] = <<m>> BY <2>2, OctetsOf
        <3>2. <<m>> # <<>> OBVIOUS
        <3> QED BY <2>1, <3>1, <3>2
    <2>3. CASE ~ (m < Radix)
        <3>1. m \div Radix \in Nat BY <1>0
        <3>2. octets_of[m \div Radix] \in Seq(OctetOf) BY <3>1, OctetsOf
        <3>3. octets_of[m] = Append(octets_of[m \div Radix], m % Radix) BY <2>3, OctetsOf
        <3>4. ASSUME NEW t \in Seq(OctetOf), NEW d \in OctetOf PROVE Append(t, d) # <<>>
            <4>1. Len(Append(t, d)) = Len(t) + 1 /\ Len(t) \in Nat /\ Append(t, d) \in Seq(OctetOf)
                OBVIOUS
            <4>2. Len(Append(t, d)) # 0 BY <4>1
            <4> QED BY <4>2, EmptySeq
        <3>5. m % Radix \in OctetOf BY <1>0 DEF OctetOf
        <3> QED BY <2>1, <3>2, <3>3, <3>4, <3>5
    <2> QED BY <2>1, <2>2, <2>3
<1> DEFINE R(m) == mp_read_unsigned_octets(octets_of[m])
           T == {m \in Nat : R(m) = m}
<1>2. ASSUME NEW m \in Nat, \A i \in 0 .. m - 1 : i \in T PROVE m \in T
    <2>1. CASE m < Radix
        <3>1. octets_of[m] = <<m>> BY <2>1, OctetsOf
        <3>2. <<m>> = Append(<<>>, m) /\ <<>> \in Seq(OctetOf) /\ m \in OctetOf
            BY <1>0, <2>1 DEF OctetOf
        <3>3. mp_read_unsigned_octets(<<m>>) = mp_read_unsigned_octets(<<>>) * Radix + m
            BY <3>2, ReadAppend
        <3>4. mp_read_unsigned_octets(<<>>) = 0
            <4>1. <<>> \in Seq(OctetOf) /\ Len(<<>>) = 0 BY <3>2
            <4> QED BY <4>1, ReadOctets
        <3> QED BY <1>0, <3>1, <3>3, <3>4
    <2>2. CASE ~ (m < Radix)
        <3> DEFINE q == m \div Radix
        <3>1. q \in Nat /\ m % Radix \in OctetOf /\ m = Radix * q + (m % Radix) /\ q < m
            <4>1. q \in Nat /\ m % Radix \in OctetOf /\ m = Radix * q + (m % Radix)
                BY <1>0 DEF OctetOf
            <4>2. Radix * q >= 2 * q BY <1>0, <4>1
            <4>3. m % Radix \in Nat BY <1>0
            <4> HIDE DEF q
            <4> QED BY <1>0, <2>2, <4>1, <4>2, <4>3
        <3>2. octets_of[m] = Append(octets_of[q], m % Radix) BY <2>2, OctetsOf
        <3>3. R(m) = R(q) * Radix + (m % Radix) BY <1>1, <3>1, <3>2, ReadAppend
        <3>4. q \in 0 .. m - 1 BY <3>1
        <3>5. R(q) = q BY <1>2, <3>4
        <3> HIDE DEF q
        <3>6. q * Radix = Radix * q BY <1>0, <3>1
        <3> QED BY <3>1, <3>3, <3>5, <3>6
    <2> QED BY <2>1, <2>2
<1> HIDE DEF T
<1>3. n \in T BY <1>2, NatStrongInduct
<1> QED BY <1>1, <1>3 DEF T, mp_to_octets

-----------------------------------------------------------------------------
(* Objects and cursors (PrioSerial) *)

(* What a stream holds: an element of an array is a string or, if it was   *)
(* altered, nothing.                                                       *)
Element == [type : {"str"}, str : Seq(OctetOf)] \cup {Nil}
Object  == Element \cup [type : {"int"}, int : Int] \cup [type : {"array"}, array : Seq(Element)]

LEMMA ObjectIs ==
    ASSUME NEW o \in Object
    PROVE  /\ o.type = "str" => o.str \in Seq(OctetOf)
           /\ o.type = "int" => o.int \in Int
           /\ o.type = "array" => o.array \in Seq(Element)
<1>1. CASE o \in [type : {"str"}, str : Seq(OctetOf)] BY <1>1
<1>2. CASE o = Nil BY <1>2 DEF Nil
<1>3. CASE o \in [type : {"int"}, int : Int] BY <1>3
<1>4. CASE o \in [type : {"array"}, array : Seq(Element)] BY <1>4
<1> QED BY <1>1, <1>2, <1>3, <1>4 DEF Object, Element

LEMMA ElementIs ==
    ASSUME NEW o \in Element
    PROVE  o \in Object /\ (o.type = "str" => o.str \in Seq(OctetOf))
BY ObjectIs DEF Object

(* A number that fits is an element of the field, and one of the field     *)
(* that was written fits and is read as it was.                            *)
LEMMA FitsField ==
    ASSUME NEW o \in Object, Fits(o), NEW n
    PROVE  object_to_mp_int(o, n) \in Field
<1>1. o.type = "str" /\ o.str # <<>> /\ mp_read_unsigned_octets(o.str) < Modulus
    BY DEF Fits, Stores
<1>2. mp_read_unsigned_octets(o.str) \in Nat BY <1>1, ObjectIs, ReadsNat
<1>3. object_to_mp_int(o, n) = mp_read_unsigned_octets(o.str)
    BY <1>1 DEF object_to_mp_int, Stores
<1> QED BY <1>1, <1>2, <1>3, ModulusAssumption DEF Field

LEMMA WrittenInt ==
    ASSUME NEW n \in Field
    PROVE  /\ serial_write_mp_int(n) \in Element /\ Fits(serial_write_mp_int(n))
           /\ \A x : object_to_mp_int(serial_write_mp_int(n), x) = n
<1> DEFINE o == serial_write_mp_int(n)
<1>1. n \in Nat /\ n < Modulus BY ModulusAssumption DEF Field
<1>2. o.type = "str" /\ o.str = mp_to_octets(n) /\ o = [type |-> "str", str |-> mp_to_octets(n)]
    BY DEF serial_write_mp_int, Str
<1>3. /\ mp_to_octets(n) \in Seq(OctetOf) /\ mp_to_octets(n) # <<>>
      /\ mp_read_unsigned_octets(mp_to_octets(n)) = n
    BY <1>1, OctetsExact
<1>4. o \in Element BY <1>2, <1>3 DEF Element
<1> HIDE DEF o
<1>5. Stores(o) /\ Fits(o) BY <1>1, <1>2, <1>3 DEF Stores, Fits
<1>6. \A x : object_to_mp_int(o, x) = n BY <1>2, <1>3, <1>5 DEF object_to_mp_int
<1> QED BY <1>4, <1>5, <1>6 DEF o

IsRecord(c) == c = [ok |-> c.ok, in |-> c.in, p |-> c.p]

(* A cursor on a stream, filling in an object with the fields D. *)
IsCursor(c, D) ==
    /\ c = [ok |-> c.ok, in |-> c.in, p |-> c.p]
    /\ c.ok \in BOOLEAN /\ c.in \in Seq(Object)
    /\ c.p = [g \in D |-> c.p[g]]

(* r comes from c, with no other field than f changed. *)
Keeps(c, r, D, f) ==
    IsCursor(r, D) /\ (r.ok => c.ok) /\ \A g \in D : g # f => r.p[g] = c.p[g]

(* The next object is o. *)
Next1(c, o) == c.ok /\ c.in # <<>> /\ Head(c.in) = o

(* r comes from c by reading one object. *)
Moved(c, r) == r.ok /\ r.in = Tail(c.in)

LEMMA HeadTail ==
    ASSUME NEW S, NEW s \in Seq(S), s # <<>>
    PROVE  Head(s) \in S /\ Tail(s) \in Seq(S)
OBVIOUS

LEMMA FailedKeeps ==
    ASSUME NEW D, NEW c, IsCursor(c, D), NEW s \in Seq(Object), NEW f
    PROVE  LET r == Failed([c EXCEPT !.in = s])
           IN  Keeps(c, r, D, f) /\ ~r.ok /\ r.p = c.p
<1> DEFINE r == Failed([c EXCEPT !.in = s])
<1>1. c.p = [g \in D |-> c.p[g]] BY DEF IsCursor
<1>2. r = [ok |-> FALSE, in |-> s, p |-> c.p]
    <2>1. PICK a, b, p : c = [ok |-> a, in |-> b, p |-> p] BY DEF IsCursor
    <2>2. [c EXCEPT !.in = s] = [ok |-> a, in |-> s, p |-> p] BY <2>1
    <2>3. r = [[ok |-> a, in |-> s, p |-> p] EXCEPT !.ok = FALSE] BY <2>2 DEF Failed
    <2>4. r = [ok |-> FALSE, in |-> s, p |-> p] BY <2>3
    <2> QED BY <2>1, <2>4
<1> HIDE DEF r
<1>3. r.ok = FALSE /\ r.in = s /\ r.p = c.p BY <1>2
<1>4. r = [ok |-> r.ok, in |-> r.in, p |-> r.p] BY <1>2, <1>3
<1>5. r.p = [g \in D |-> r.p[g]] BY <1>1, <1>3
<1>6. IsCursor(r, D) BY <1>3, <1>4, <1>5 DEF IsCursor
<1> QED BY <1>3, <1>6 DEF r, Keeps

(* A call that fails stores nothing. *)
Fails(c, r, D, f) == Keeps(c, r, D, f) /\ ~r.ok /\ r.p = c.p

LEMMA FailedRead ==
    ASSUME NEW D, NEW c, IsCursor(c, D), NEW s \in Seq(Object), NEW f,
           NEW d, d = [c EXCEPT !.in = s], NEW r, r = Failed(d)
    PROVE  Fails(c, r, D, f)
<1>1. r = Failed([c EXCEPT !.in = s]) OBVIOUS
<1> QED BY <1>1, FailedKeeps DEF Fails

LEMMA FailedSame ==
    ASSUME NEW D, NEW c, IsCursor(c, D), NEW f
    PROVE  Keeps(c, Failed(c), D, f) /\ ~Failed(c).ok /\ Failed(c).p = c.p
<1>1. c.in \in Seq(Object) /\ [c EXCEPT !.in = c.in] = c BY DEF IsCursor
<1> QED BY <1>1, FailedKeeps

(* An object whose field f is set. *)
Put(p, f, v) == [p EXCEPT ![f] = v]

LEMMA SetKeeps ==
    ASSUME NEW D, NEW c, IsCursor(c, D), NEW f \in D, NEW v, c.ok,
           NEW r, IsRecord(r),
           r.ok \in BOOLEAN, r.in \in Seq(Object), r.p = Put(c.p, f, v)
    PROVE  Keeps(c, r, D, f) /\ r.p[f] = v
<1>1. c.p = [g \in D |-> c.p[g]] BY DEF IsCursor
<1>2. /\ r.p = [g \in D |-> r.p[g]] /\ r.p[f] = v
      /\ \A g \in D : g # f => r.p[g] = c.p[g]
    BY <1>1 DEF Put
<1>3. IsCursor(r, D) BY <1>2 DEF IsCursor, IsRecord
<1> QED BY <1>2, <1>3 DEF Keeps

LEMMA Advance ==
    ASSUME NEW D, NEW c, IsCursor(c, D)
    PROVE  /\ [c EXCEPT !.in = Tail(@)] = [ok |-> c.ok, in |-> Tail(c.in), p |-> c.p]
           /\ [c EXCEPT !.in = Tail(@)] = [c EXCEPT !.in = Tail(c.in)]
<1>1. PICK a, b, p : c = [ok |-> a, in |-> b, p |-> p] BY DEF IsCursor
<1>2. \A s : [c EXCEPT !.in = s] = [ok |-> a, in |-> s, p |-> p] BY <1>1
<1>3. c.ok = a /\ c.in = b /\ c.p = p BY <1>1
<1>4. [c EXCEPT !.in = Tail(c.in)] = [ok |-> a, in |-> Tail(c.in), p |-> p] BY <1>2
<1> QED BY <1>3, <1>4

-----------------------------------------------------------------------------
(* Readers (PrioSerial): what each leaves alone, what it has stored if it  *)
(* succeeds, and that it reads what its writer wrote.                      *)

LEMMA IntRead ==
    ASSUME NEW D, NEW c, IsCursor(c, D), NEW f \in D
    PROVE  LET r == serial_read_mp_int(c, f)
           IN  /\ Keeps(c, r, D, f) /\ (r.ok => r.p[f] \in Field)
               /\ \A n \in Field : Next1(c, serial_write_mp_int(n)) => Moved(c, r) /\ r.p[f] = n
<1> DEFINE r == serial_read_mp_int(c, f)
<1>0. c = [ok |-> c.ok, in |-> c.in, p |-> c.p] /\ c.in \in Seq(Object) /\ f \in DOMAIN c.p
    BY DEF IsCursor
<1>1. CASE ~ (c.ok /\ c.in # <<>>)
    <2>1. r = Failed(c) BY <1>1 DEF serial_read_mp_int, Unpack
    <2> HIDE DEF r
    <2>2. \A n : ~ Next1(c, serial_write_mp_int(n)) BY <1>1 DEF Next1
    <2> QED BY <2>1, <2>2, FailedSame DEF r
<1>2. CASE c.ok /\ c.in # <<>>
    <2>9. c.ok = TRUE BY <1>2 DEF IsCursor
    <2> DEFINE o == Head(c.in)
               v == object_to_mp_int(o, c.p[f])
               e == [ok |-> Fits(o), in |-> Tail(c.in), p |-> [c.p EXCEPT ![f] = v]]
    <2>1. o \in Object /\ Tail(c.in) \in Seq(Object) BY <1>0, <1>2, HeadTail
    <2>2. r = e BY <1>0, <1>2 DEF serial_read_mp_int, Unpack
    <2>3. Fits(o) \in BOOLEAN BY DEF Fits
    <2>5. e.ok = Fits(o) /\ e.in = Tail(c.in) OBVIOUS
    <2>8. e.p = Put(c.p, f, v) /\ IsRecord(e) BY DEF Put, IsRecord
    <2>10. e.ok \in BOOLEAN /\ e.in \in Seq(Object) BY <2>1, <2>3, <2>5
    <2> HIDE DEF v, e
    <2>4. Keeps(c, e, D, f) BY <1>2, <2>8, <2>10, SetKeeps
    <2>11. e.p[f] = v BY <1>2, <2>8, <2>10, SetKeeps
    <2> HIDE DEF r, o
    <2>6. Fits(o) => v \in Field BY <2>1, FitsField DEF v
    <2>7. ASSUME NEW n \in Field, Next1(c, serial_write_mp_int(n))
          PROVE  Moved(c, r) /\ r.p[f] = n
        <3>1. o = serial_write_mp_int(n) BY <2>7 DEF Next1, o
        <3>2. Fits(o) /\ v = n BY <3>1, WrittenInt DEF v
        <3> QED BY <2>2, <2>4, <2>5, <2>11, <3>2 DEF Moved
    <2> QED BY <2>2, <2>4, <2>5, <2>6, <2>7, <2>11 DEF r
<1> QED BY <1>1, <1>2

LEMMA ServerIdRead ==
    ASSUME NEW D, NEW c, IsCursor(c, D), NEW f \in D, NEW expected
    PROVE  LET r == serial_read_server_id(c, f, expected)
           IN  /\ Keeps(c, r, D, f)
               /\ r.ok => r.p[f] \in Server \cap expected
               /\ r.p[f] # c.p[f] => r.p[f] \in Server \cap expected
               /\ \A n \in Server \cap expected :
                      Next1(c, PosInt(n)) => Moved(c, r) /\ r.p[f] = n
<1> DEFINE r == serial_read_server_id(c, f, expected)
<1>0. c = [ok |-> c.ok, in |-> c.in, p |-> c.p] /\ c.in \in Seq(Object) /\ f \in DOMAIN c.p
    BY DEF IsCursor
<1>1. CASE ~ (c.ok /\ c.in # <<>>)
    <2>1. r = Failed(c) BY <1>1 DEF serial_read_server_id, Unpack
    <2> HIDE DEF r
    <2>2. \A n : ~ Next1(c, PosInt(n)) BY <1>1 DEF Next1
    <2> QED BY <2>1, <2>2, FailedSame DEF r
<1>2. CASE c.ok /\ c.in # <<>>
    <2>9. c.ok = TRUE BY <1>2 DEF IsCursor
    <2> DEFINE o == Head(c.in)
               d == [c EXCEPT !.in = Tail(@)]
               v == serial_read_int(o)
               e == [ok |-> TRUE, in |-> Tail(c.in), p |-> [c.p EXCEPT ![f] = v]]
               good == o.type = "int" /\ v \in Server \cap expected
    <2>1. o \in Object /\ Tail(c.in) \in Seq(Object) BY <1>0, <1>2, HeadTail
    <2>2. d = [ok |-> c.ok, in |-> Tail(c.in), p |-> c.p] /\ d = [c EXCEPT !.in = Tail(c.in)]
        BY Advance
    <2>3. r = IF o.type # "int" THEN Failed(d)
              ELSE IF v \notin Server \cap expected THEN Failed(d)
              ELSE [d EXCEPT !.p[f] = v]
        BY <1>0, <1>2 DEF serial_read_server_id, Unpack
    <2> HIDE DEF r, v, o, d
    <2>4. CASE ~good
        <3>1. r = Failed(d) BY <2>3, <2>4
        <3>2. ASSUME NEW n \in Server \cap expected, Next1(c, PosInt(n)) PROVE FALSE
            <4>1. o = PosInt(n) BY <3>2 DEF Next1, o
            <4>2. o.type = "int" /\ o.int = n BY <4>1 DEF PosInt
            <4>3. n \in Nat /\ n < 2 BY DEF Server, PRIO_SERVER_A, PRIO_SERVER_B
            <4>4. n % IntRange = n BY <4>3, SerialAssumption
            <4>5. v = n BY <4>2, <4>4 DEF v, serial_read_int
            <4> QED BY <2>4, <4>2, <4>5
        <3>3. Keeps(c, r, D, f) /\ ~r.ok /\ r.p = c.p
            <4>1. d = [c EXCEPT !.in = Tail(c.in)] BY <2>2
            <4>2. Fails(c, r, D, f) BY <2>1, <3>1, <4>1, FailedRead
            <4> QED BY <4>2 DEF Fails
        <3> QED BY <3>2, <3>3 DEF r
    <2>5. CASE good
        <3>1. r = e BY <1>0, <1>2, <2>2, <2>3, <2>5
        <3>3. e.ok = TRUE /\ e.in = Tail(c.in) OBVIOUS
        <3>6. e.p = Put(c.p, f, v) /\ IsRecord(e) BY DEF Put, IsRecord
        <3>7. e.ok \in BOOLEAN /\ e.in \in Seq(Object) BY <2>1, <3>3
        <3> HIDE DEF e
        <3>2. Keeps(c, e, D, f) BY <1>2, <3>6, <3>7, SetKeeps
        <3>8. e.p[f] = v BY <1>2, <3>6, <3>7, SetKeeps
        <3>4. ASSUME NEW n \in Server \cap expected, Next1(c, PosInt(n)) PROVE v = n
            <4>1. o = PosInt(n) BY <3>4 DEF Next1, o
            <4>2. o.type = "int" /\ o.int = n BY <4>1 DEF PosInt
            <4>3. n \in Nat /\ n < 2 BY DEF Server, PRIO_SERVER_A, PRIO_SERVER_B
            <4>4. n % IntRange = n BY <4>3, SerialAssumption
            <4> QED BY <4>2, <4>4 DEF v, serial_read_int
        <3>5. v \in Server \cap expected BY <2>5
        <3> QED BY <3>1, <3>2, <3>3, <3>4, <3>5, <3>8 DEF r, Moved
    <2> QED BY <2>4, <2>5
<1> QED BY <1>1, <1>2

LEMMA BatchRead ==
    ASSUME NEW D, NEW c, IsCursor(c, D), NEW id, NEW f
    PROVE  LET r == serial_read_batch_id(c, id)
           IN  /\ Keeps(c, r, D, f) /\ r.p = c.p
               /\ Next1(c, Str(id)) => Moved(c, r)
               /\ \A other : Next1(c, Str(other)) /\ r.ok => other = id
<1> DEFINE r == serial_read_batch_id(c, id)
<1>0. c = [ok |-> c.ok, in |-> c.in, p |-> c.p] /\ c.in \in Seq(Object) /\ c.p = [g \in D |-> c.p[g]]
    BY DEF IsCursor
<1>1. CASE ~ (c.ok /\ c.in # <<>>)
    <2>1. r = Failed(c) BY <1>1 DEF serial_read_batch_id, Unpack
    <2> HIDE DEF r
    <2>2. \A x : ~ Next1(c, Str(x)) BY <1>1 DEF Next1
    <2> QED BY <2>1, <2>2, FailedSame DEF r
<1>2. CASE c.ok /\ c.in # <<>>
    <2>9. c.ok = TRUE BY <1>2 DEF IsCursor
    <2> DEFINE o == Head(c.in)
               d == [c EXCEPT !.in = Tail(@)]
    <2>1. o \in Object /\ Tail(c.in) \in Seq(Object) BY <1>0, <1>2, HeadTail
    <2>2. d = [ok |-> c.ok, in |-> Tail(c.in), p |-> c.p] /\ d = [c EXCEPT !.in = Tail(c.in)]
        BY Advance
    <2>3. r = IF o = Str(id) THEN d ELSE Failed(d)
        BY <1>0, <1>2 DEF serial_read_batch_id, Unpack
    <2> HIDE DEF r, o, d
    <2>4. CASE o = Str(id)
        <3>1. r = [ok |-> c.ok, in |-> Tail(c.in), p |-> c.p] BY <2>2, <2>3, <2>4
        <3>2. r.ok = c.ok /\ r.in = Tail(c.in) /\ r.p = c.p BY <3>1
        <3>3. r = [ok |-> r.ok, in |-> r.in, p |-> r.p] BY <3>1, <3>2
        <3>4. r.p = [g \in D |-> r.p[g]] BY <1>0, <3>2
        <3>5. IsCursor(r, D) BY <1>2, <2>1, <3>2, <3>3, <3>4 DEF IsCursor
        <3>6. Keeps(c, r, D, f) BY <1>2, <3>2, <3>5 DEF Keeps
        <3>7. ASSUME NEW x, Next1(c, Str(x)) PROVE x = id
            <4>1. Str(x) = Str(id) BY <2>4, <3>7 DEF Next1, o
            <4> QED BY <4>1 DEF Str
        <3> QED BY <1>2, <3>2, <3>6, <3>7 DEF r, Moved
    <2>5. CASE o # Str(id)
        <3>1. r = Failed(d) BY <2>3, <2>5
        <3>2. Keeps(c, r, D, f) /\ ~r.ok /\ r.p = c.p
            <4>1. d = [c EXCEPT !.in = Tail(c.in)] BY <2>2
            <4>2. Fails(c, r, D, f) BY <2>1, <3>1, <4>1, FailedRead
            <4> QED BY <4>2 DEF Fails
        <3>3. ~ Next1(c, Str(id)) BY <2>5 DEF Next1, o
        <3> QED BY <3>2, <3>3 DEF r
    <2> QED BY <2>4, <2>5
<1> QED BY <1>1, <1>2

LEMMA SeedRead ==
    ASSUME NEW D, NEW c, IsCursor(c, D), "seed" \in D
    PROVE  LET r == serial_read_prg_seed(c)
           IN  /\ Keeps(c, r, D, "seed")
               /\ r.ok => r.p["seed"] \in [1 .. PRG_SEED_LENGTH -> OctetOf]
               /\ \A s \in [1 .. PRG_SEED_LENGTH -> OctetOf] :
                      Next1(c, Str(s)) => Moved(c, r) /\ r.p["seed"] = s
<1> DEFINE r == serial_read_prg_seed(c)
<1>0. c = [ok |-> c.ok, in |-> c.in, p |-> c.p] /\ c.in \in Seq(Object) /\ "seed" \in DOMAIN c.p
    BY DEF IsCursor
<1>1. CASE ~ (c.ok /\ c.in # <<>>)
    <2>1. r = Failed(c) BY <1>1 DEF serial_read_prg_seed, Unpack
    <2> HIDE DEF r
    <2>2. \A x : ~ Next1(c, Str(x)) BY <1>1 DEF Next1
    <2> QED BY <2>1, <2>2, FailedSame DEF r
<1>2. CASE c.ok /\ c.in # <<>>
    <2>9. c.ok = TRUE BY <1>2 DEF IsCursor
    <2> DEFINE o == Head(c.in)
               d == [c EXCEPT !.in = Tail(@)]
               v == o.str
               e == [ok |-> TRUE, in |-> Tail(c.in), p |-> [c.p EXCEPT !["seed"] = v]]
               good == o.type = "str" /\ Len(o.str) = PRG_SEED_LENGTH
    <2>1. o \in Object /\ Tail(c.in) \in Seq(Object) BY <1>0, <1>2, HeadTail
    <2>2. d = [ok |-> c.ok, in |-> Tail(c.in), p |-> c.p] /\ d = [c EXCEPT !.in = Tail(c.in)]
        BY Advance
    <2>3. r = IF o.type # "str" THEN Failed(d)
              ELSE IF Len(o.str) # PRG_SEED_LENGTH THEN Failed(d)
              ELSE [d EXCEPT !.p.seed = o.str]
        BY <1>0, <1>2 DEF serial_read_prg_seed, Unpack
    <2> HIDE DEF r, o, d
    <2>4. ASSUME NEW s \in [1 .. PRG_SEED_LENGTH -> OctetOf], Next1(c, Str(s))
          PROVE  good /\ o.str = s
        <3>1. o = Str(s) BY <2>4 DEF Next1, o
        <3>2. o.type = "str" /\ o.str = s BY <3>1 DEF Str
        <3>3. Len(s) = PRG_SEED_LENGTH BY SerialAssumption
        <3> QED BY <3>2, <3>3
    <2>5. CASE ~good
        <3>1. r = Failed(d) BY <2>3, <2>5
        <3>2. Keeps(c, r, D, "seed") /\ ~r.ok
            <4>1. d = [c EXCEPT !.in = Tail(c.in)] BY <2>2
            <4>2. Fails(c, r, D, "seed") BY <2>1, <3>1, <4>1, FailedRead
            <4> QED BY <4>2 DEF Fails
        <3> QED BY <2>4, <2>5, <3>2 DEF r
    <2>6. CASE good
        <3>1. r = e BY <1>0, <1>2, <2>2, <2>3, <2>6
        <3>3. e.ok = TRUE /\ e.in = Tail(c.in) OBVIOUS
        <3>6. e.p = Put(c.p, "seed", v) /\ IsRecord(e) BY DEF Put, IsRecord
        <3>7. e.ok \in BOOLEAN /\ e.in \in Seq(Object) BY <2>1, <3>3
        <3> HIDE DEF e, v
        <3>2. Keeps(c, e, D, "seed") BY <1>2, <3>6, <3>7, SetKeeps
        <3>8. e.p["seed"] = v BY <1>0, <3>6 DEF Put
        <3>4. v \in Seq(OctetOf) /\ Len(v) = PRG_SEED_LENGTH BY <2>1, <2>6, ObjectIs DEF v
        <3>5. v \in [1 .. PRG_SEED_LENGTH -> OctetOf] BY <3>4
        <3> QED BY <2>4, <2>6, <3>1, <3>2, <3>3, <3>5, <3>8 DEF r, Moved, v
    <2> QED BY <2>5, <2>6
<1> QED BY <1>1, <1>2

(* An array is filled in entirely if the reader succeeds. *)
LEMMA ArrayRead ==
    ASSUME NEW D, NEW c, IsCursor(c, D), NEW f \in D, NEW len \in Nat
    PROVE  LET r == serial_read_mp_array(c, f, len)
           IN  /\ Keeps(c, r, D, f) /\ (r.ok => r.p[f] \in Arrays(len))
               /\ \A a \in Arrays(len) :
                      Next1(c, serial_write_mp_array(a)) => Moved(c, r) /\ r.p[f] = a
<1> DEFINE r == serial_read_mp_array(c, f, len)
<1>0. c = [ok |-> c.ok, in |-> c.in, p |-> c.p] /\ c.in \in Seq(Object) /\ f \in DOMAIN c.p
    BY DEF IsCursor
<1>1. CASE ~ (c.ok /\ c.in # <<>>)
    <2>1. r = Failed(c) BY <1>1 DEF serial_read_mp_array, Unpack
    <2> HIDE DEF r
    <2>2. \A x : ~ Next1(c, serial_write_mp_array(x)) BY <1>1 DEF Next1
    <2> QED BY <2>1, <2>2, FailedSame DEF r
<1>2. CASE c.ok /\ c.in # <<>>
    <2> DEFINE o == Head(c.in)
               d == [c EXCEPT !.in = Tail(@)]
               old == MPArray_resize(d.p[f], len)
               read(i) == \A j \in 1 .. i - 1 : Fits(o.array[j])
               F(i) == IF read(i) THEN object_to_mp_int(o.array[i], old[i]) ELSE old[i]
               v == Array(len, F)
               e == [ok |-> read(len + 1), in |-> Tail(c.in), p |-> [c.p EXCEPT ![f] = v]]
               good == o.type = "array" /\ Len(o.array) = len
    <2>1. o \in Object /\ Tail(c.in) \in Seq(Object) BY <1>0, <1>2, HeadTail
    <2>2. d = [ok |-> c.ok, in |-> Tail(c.in), p |-> c.p] /\ d = [c EXCEPT !.in = Tail(c.in)]
        BY Advance
    <2>3. r = IF o.type # "array" THEN Failed(d)
              ELSE IF Len(o.array) # len THEN Failed(d)
              ELSE [d EXCEPT !.p[f] = v, !.ok = read(len + 1)]
        BY <1>0, <1>2 DEF serial_read_mp_array, Unpack
    <2> HIDE DEF r, o, d, F
    <2>4. v = [i \in 1 .. len |-> F(i)]
        <3> DEFINE G == [i \in 1 .. len |-> F(i)]
                   S == {F(i) : i \in 1 .. len}
        <3>1. G \in [1 .. len -> S] OBVIOUS
        <3> HIDE DEF S
        <3>2. G \in Seq(S) BY <3>1
        <3>3. <<>> \o G = G
            <4> HIDE DEF G
            <4> QED BY <3>2, ConcatEmptySeq
        <3> QED BY <3>3 DEF Array
    <2> HIDE DEF v
    <2>5. ASSUME NEW a \in Arrays(len), Next1(c, serial_write_mp_array(a))
          PROVE  /\ good /\ o.array = [i \in 1 .. len |-> serial_write_mp_int(a[i])]
                 /\ \A i \in 1 .. len : a[i] \in Field
        <3>1. o = Arr([i \in DOMAIN a |-> serial_write_mp_int(a[i])])
            BY <2>5 DEF Next1, o, serial_write_mp_array
        <3>2. DOMAIN a = 1 .. len /\ \A i \in 1 .. len : a[i] \in Field BY DEF Arrays
        <3>3. o.type = "array" /\ o.array = [i \in 1 .. len |-> serial_write_mp_int(a[i])]
            BY <3>1, <3>2 DEF Arr
        <3>4. Len([i \in 1 .. len |-> serial_write_mp_int(a[i])]) = len OBVIOUS
        <3> QED BY <3>2, <3>3, <3>4
    <2>6. CASE ~good
        <3>1. r = Failed(d) BY <2>3, <2>6
        <3> HIDE DEF e, read, old
        <3>2. r = Failed([c EXCEPT !.in = Tail(c.in)]) BY <2>2, <3>1
        <3>3. Tail(c.in) \in Seq(Object) BY <2>1
        <3>4. Keeps(c, r, D, f) BY <3>2, <3>3, FailedKeeps
        <3>5. ~r.ok BY <3>2, <3>3, FailedKeeps
        <3> QED BY <2>5, <2>6, <3>4, <3>5 DEF r
    <2>7. CASE good
        <3>1. r = e BY <1>0, <1>2, <2>2, <2>3, <2>7
        <3>2. e.ok = read(len + 1) /\ e.in = Tail(c.in) OBVIOUS
        <3>3. e.p = Put(c.p, f, v) /\ IsRecord(e) BY DEF Put, IsRecord
        <3>4. e.ok \in BOOLEAN /\ e.in \in Seq(Object) BY <2>1, <3>2
        <3> HIDE DEF e
        <3>5. Keeps(c, e, D, f) BY <1>2, <3>3, <3>4, SetKeeps
        <3>6. e.p[f] = v BY <1>0, <3>3 DEF Put
        <3>7. ASSUME read(len + 1)
              PROVE  \A i \in 1 .. len : /\ Fits(o.array[i])
                                         /\ F(i) = object_to_mp_int(o.array[i], old[i])
            <4>1. \A i \in 1 .. len : i \in 1 .. (len + 1) - 1
                                      /\ \A j \in 1 .. i - 1 : j \in 1 .. (len + 1) - 1
                OBVIOUS
            <4> QED BY <3>7, <4>1 DEF F
        <3>8. ASSUME read(len + 1) PROVE v \in Arrays(len)
            <4>1. ASSUME NEW i \in 1 .. len PROVE F(i) \in Field
                <5>1. o.array \in Seq(Element) BY <2>1, <2>7, ObjectIs
                <5>2. o.array[i] \in Object BY <2>7, <5>1, ElementIs
                <5> QED BY <3>7, <3>8, <5>2, FitsField
            <4> QED BY <2>4, <4>1 DEF Arrays
        <3>9. ASSUME NEW a \in Arrays(len), Next1(c, serial_write_mp_array(a))
              PROVE  read(len + 1) /\ v = a
            <4>1. \A i \in 1 .. len : /\ o.array[i] = serial_write_mp_int(a[i])
                                      /\ a[i] \in Field
                BY <2>5, <3>9
            <4>2. \A i \in 1 .. len : Fits(o.array[i]) BY <4>1, WrittenInt
            <4>3. (len + 1) - 1 = len OBVIOUS
            <4>4. read(len + 1) BY <4>2, <4>3
            <4>5. ASSUME NEW i \in 1 .. len PROVE F(i) = a[i]
                <5>1. F(i) = object_to_mp_int(o.array[i], old[i]) BY <3>7, <4>4
                <5> QED BY <4>1, <5>1, WrittenInt
            <4>6. a = [i \in 1 .. len |-> a[i]] BY DEF Arrays
            <4> QED BY <2>4, <4>4, <4>5, <4>6
        <3> HIDE DEF read
        <3> QED BY <3>1, <3>2, <3>5, <3>6, <3>8, <3>9 DEF r, Moved
    <2> QED BY <2>6, <2>7
<1> QED BY <1>1, <1>2

-----------------------------------------------------------------------------
(* Streams: what remains after the first j objects. *)

Rest(s, j) == [i \in 1 .. Len(s) - j |-> s[j + i]]

LEMMA RestIs ==
    ASSUME NEW S, NEW s \in Seq(S), NEW j \in 0 .. Len(s)
    PROVE  /\ Rest(s, j) \in Seq(S) /\ Len(Rest(s, j)) = Len(s) - j
           /\ \A i \in 1 .. Len(s) - j : Rest(s, j)[i] = s[j + i]
<1>1. Len(s) \in Nat /\ Len(s) - j \in Nat OBVIOUS
<1>2. \A i \in 1 .. Len(s) - j : j + i \in 1 .. Len(s) /\ s[j + i] \in S OBVIOUS
<1> QED BY <1>1, <1>2 DEF Rest

LEMMA RestNone ==
    ASSUME NEW S, NEW s \in Seq(S)
    PROVE  Rest(s, 0) = s
<1>1. Len(s) - 0 = Len(s) /\ \A i \in 1 .. Len(s) : 0 + i = i OBVIOUS
<1>2. s = [i \in 1 .. Len(s) |-> s[i]] OBVIOUS
<1> QED BY <1>1, <1>2 DEF Rest

LEMMA RestNext ==
    ASSUME NEW S, NEW s \in Seq(S), NEW j \in Nat, j < Len(s)
    PROVE  /\ Rest(s, j) # <<>> /\ Head(Rest(s, j)) = s[j + 1]
           /\ Tail(Rest(s, j)) = Rest(s, j + 1)
<1> DEFINE r == Rest(s, j)
           t == Tail(r)
           q == Rest(s, j + 1)
<1>1. Len(s) \in Nat /\ j \in 0 .. Len(s) /\ j + 1 \in 0 .. Len(s) OBVIOUS
<1>2. r \in Seq(S) /\ Len(r) = Len(s) - j /\ \A i \in 1 .. Len(s) - j : r[i] = s[j + i]
    BY <1>1, RestIs
<1>3. /\ q \in Seq(S) /\ Len(q) = Len(s) - (j + 1)
      /\ \A i \in 1 .. Len(s) - (j + 1) : q[i] = s[j + 1 + i]
    BY <1>1, RestIs
<1> HIDE DEF r, q
<1>4. r # <<>> /\ 1 \in 1 .. Len(s) - j BY <1>1, <1>2
<1>5. Head(r) = s[j + 1] BY <1>2, <1>4
<1>6. t \in Seq(S) /\ Len(t) = Len(r) - 1 /\ \A i \in 1 .. Len(t) : t[i] = r[i + 1] BY <1>2, <1>4
<1> HIDE DEF t
<1>7. Len(t) = Len(q) BY <1>1, <1>2, <1>3, <1>6
<1>8. ASSUME NEW i \in 1 .. Len(t) PROVE t[i] = q[i]
    <2>1. i + 1 \in 1 .. Len(s) - j /\ i \in 1 .. Len(s) - (j + 1) /\ j + (i + 1) = j + 1 + i
        BY <1>1, <1>2, <1>6
    <2>2. t[i] = r[i + 1] /\ r[i + 1] = s[j + (i + 1)] /\ q[i] = s[j + 1 + i]
        BY <1>2, <1>3, <1>6, <2>1
    <2> QED BY <2>1, <2>2
<1>9. t = q BY <1>3, <1>6, <1>7, <1>8, SeqEqual
<1> QED BY <1>4, <1>5, <1>9 DEF r, t, q

(* A cursor at the j-th object of s. *)
At(c, s, j) == c.ok /\ c.in = Rest(s, j)

LEMMA AtNext ==
    ASSUME NEW s \in Seq(Object), NEW j \in Nat, j < Len(s), NEW c, At(c, s, j)
    PROVE  /\ Next1(c, s[j + 1])
           /\ \A r : Moved(c, r) => At(r, s, j + 1)
<1>1. /\ Rest(s, j) # <<>> /\ Head(Rest(s, j)) = s[j + 1] /\ Tail(Rest(s, j)) = Rest(s, j + 1)
    BY RestNext
<1> QED BY <1>1 DEF At, Next1, Moved

-----------------------------------------------------------------------------
(* Writers (PrioSerial): the objects each appends. *)

LEMMA WrittenArray ==
    ASSUME NEW len \in Nat, NEW a \in Arrays(len)
    PROVE  serial_write_mp_array(a) \in Object
<1> DEFINE w == [i \in 1 .. len |-> serial_write_mp_int(a[i])]
<1>1. DOMAIN a = 1 .. len /\ \A i \in 1 .. len : a[i] \in Field BY DEF Arrays
<1>2. \A i \in 1 .. len : serial_write_mp_int(a[i]) \in Element BY <1>1, WrittenInt
<1>3. w \in Seq(Element) BY <1>2
<1>4. serial_write_mp_array(a) = [type |-> "array", array |-> w]
    BY <1>1 DEF serial_write_mp_array, Arr
<1> HIDE DEF w
<1> QED BY <1>3, <1>4 DEF Object

LEMMA IntObject == ASSUME NEW n \in Field PROVE serial_write_mp_int(n) \in Object
BY WrittenInt, ElementIs

LEMMA PosIntObject == ASSUME NEW n \in Int PROVE PosInt(n) \in Object
BY DEF PosInt, Object

LEMMA StrObject == ASSUME NEW s \in Seq(OctetOf) PROVE Str(s) \in Object
BY DEF Str, Object, Element

(* The elements of a concatenation. *)
IsJoin(x, S, s, n, t, m) ==
    /\ x \in Seq(S) /\ Len(x) = n + m
    /\ \A i \in 1 .. n : x[i] = s[i]
    /\ \A i \in 1 .. m : x[n + i] = t[i]

LEMMA Joined ==
    ASSUME NEW S, NEW s \in Seq(S), NEW t \in Seq(S), NEW n, Len(s) = n, NEW m, Len(t) = m,
           NEW x, x = s \o t
    PROVE  IsJoin(x, S, s, n, t, m)
<1>1. /\ x \in Seq(S) /\ Len(x) = n + m
      /\ \A i \in 1 .. n + m : x[i] = IF i <= n THEN s[i] ELSE t[i - n]
    BY ConcatProperties
<1>2. n \in Nat /\ m \in Nat OBVIOUS
<1>3. ASSUME NEW i \in 1 .. n PROVE x[i] = s[i]
    <2>1. i \in 1 .. n + m /\ i <= n BY <1>2
    <2> QED BY <1>1, <2>1
<1>4. ASSUME NEW i \in 1 .. m PROVE x[n + i] = t[i]
    <2>1. n + i \in 1 .. n + m /\ ~ (n + i <= n) /\ (n + i) - n = i BY <1>2
    <2>2. x[n + i] = t[(n + i) - n] BY <1>1, <2>1
    <2> QED BY <2>1, <2>2
<1> QED BY <1>1, <1>3, <1>4 DEF IsJoin

(* A packet begins with the batch id, the triple, three constant terms and *)
(* the server's id.                                                        *)
HeadField == {"a", "b", "c", "f0", "g0", "h0"}

PacketHead(w, x, id) ==
    /\ w[1] = Str(id)
    /\ w[2] = serial_write_mp_int(x.a) /\ w[3] = serial_write_mp_int(x.b)
    /\ w[4] = serial_write_mp_int(x.c)
    /\ w[5] = serial_write_mp_int(x.f0) /\ w[6] = serial_write_mp_int(x.g0)
    /\ w[7] = serial_write_mp_int(x.h0)
    /\ w[8] = PosInt(x.for_server)

HeadTyped(x) ==
    /\ x.a \in Field /\ x.b \in Field /\ x.c \in Field
    /\ x.f0 \in Field /\ x.g0 \in Field /\ x.h0 \in Field
    /\ x.for_server \in Server

HeadConcat(x, id, z) ==
    <<Str(id)>> \o serial_write_beaver_triple(x)
    \o <<serial_write_mp_int(x.f0), serial_write_mp_int(x.g0), serial_write_mp_int(x.h0)>>
    \o <<PosInt(x.for_server)>> \o z

HeadWrites(w, x, id, z) ==
    /\ w \in Seq(Object) /\ Len(w) = 8 + Len(z) /\ PacketHead(w, x, id)
    /\ \A i \in 1 .. Len(z) : w[8 + i] = z[i]

LEMMA HeadWritten ==
    ASSUME NEW x, HeadTyped(x), NEW id \in Seq(OctetOf), NEW z \in Seq(Object)
    PROVE  HeadWrites(HeadConcat(x, id, z), x, id, z)
<1> DEFINE s1 == <<Str(id)>>
           t1 == serial_write_beaver_triple(x)
           t2 == <<serial_write_mp_int(x.f0), serial_write_mp_int(x.g0), serial_write_mp_int(x.h0)>>
           t3 == <<PosInt(x.for_server)>>
           s2 == s1 \o t1
           s3 == s2 \o t2
           s4 == s3 \o t3
           w  == s4 \o z
<1>1. s1 \in Seq(Object) /\ Len(s1) = 1 /\ s1[1] = Str(id) BY StrObject
<1>2. /\ t1 \in Seq(Object) /\ Len(t1) = 3 /\ t1[1] = serial_write_mp_int(x.a)
      /\ t1[2] = serial_write_mp_int(x.b) /\ t1[3] = serial_write_mp_int(x.c)
    BY IntObject DEF serial_write_beaver_triple, HeadTyped
<1>3. /\ t2 \in Seq(Object) /\ Len(t2) = 3 /\ t2[1] = serial_write_mp_int(x.f0)
      /\ t2[2] = serial_write_mp_int(x.g0) /\ t2[3] = serial_write_mp_int(x.h0)
    BY IntObject DEF HeadTyped
<1>4. t3 \in Seq(Object) /\ Len(t3) = 1 /\ t3[1] = PosInt(x.for_server)
    <2>1. x.for_server \in Int BY DEF HeadTyped, Server, PRIO_SERVER_A, PRIO_SERVER_B
    <2> QED BY <2>1, PosIntObject
<1> HIDE DEF s1, t1, t2, t3
<1>5. /\ s2 \in Seq(Object) /\ Len(s2) = 4 /\ s2[1] = s1[1]
      /\ s2[2] = t1[1] /\ s2[3] = t1[2] /\ s2[4] = t1[3]
    <2>1. s2 = s1 \o t1 OBVIOUS
    <2> HIDE DEF s2
    <2>2. IsJoin(s2, Object, s1, 1, t1, 3) BY <1>1, <1>2, <2>1, Joined
    <2> QED BY <2>2 DEF IsJoin
<1>6. /\ s3 \in Seq(Object) /\ Len(s3) = 7 /\ \A i \in 1 .. 4 : s3[i] = s2[i]
      /\ s3[5] = t2[1] /\ s3[6] = t2[2] /\ s3[7] = t2[3]
    <2>1. s3 = s2 \o t2 OBVIOUS
    <2> HIDE DEF s2, s3
    <2>2. IsJoin(s3, Object, s2, 4, t2, 3) BY <1>3, <1>5, <2>1, Joined
    <2> QED BY <2>2 DEF IsJoin
<1>7. /\ s4 \in Seq(Object) /\ Len(s4) = 8 /\ s4[8] = t3[1]
      /\ \A i \in 1 .. 7 : s4[i] = s3[i]
    <2>1. s4 = s3 \o t3 OBVIOUS
    <2> HIDE DEF s3, s4
    <2>2. IsJoin(s4, Object, s3, 7, t3, 1) BY <1>4, <1>6, <2>1, Joined
    <2> QED BY <2>2 DEF IsJoin
<1>8. /\ w \in Seq(Object) /\ Len(w) = 8 + Len(z)
      /\ \A i \in 1 .. 8 : w[i] = s4[i]
      /\ \A i \in 1 .. Len(z) : w[8 + i] = z[i]
    <2>1. w = s4 \o z OBVIOUS
    <2> HIDE DEF s4, w
    <2>2. IsJoin(w, Object, s4, 8, z, Len(z)) BY <1>7, <2>1, Joined
    <2> QED BY <2>2 DEF IsJoin
<1> HIDE DEF s2, s3, s4, w
<1>10. PacketHead(w, x, id)
    <2>1. w[1] = Str(id) /\ w[2] = serial_write_mp_int(x.a) /\ w[3] = serial_write_mp_int(x.b)
        BY <1>1, <1>2, <1>5, <1>6, <1>7, <1>8
    <2>2. w[4] = serial_write_mp_int(x.c) /\ w[5] = serial_write_mp_int(x.f0)
        BY <1>2, <1>3, <1>5, <1>6, <1>7, <1>8
    <2>3. /\ w[6] = serial_write_mp_int(x.g0) /\ w[7] = serial_write_mp_int(x.h0)
          /\ w[8] = PosInt(x.for_server)
        BY <1>3, <1>4, <1>6, <1>7, <1>8
    <2> QED BY <2>1, <2>2, <2>3 DEF PacketHead
<1>11. HeadConcat(x, id, z) = w BY DEF HeadConcat, w, s1, s2, s3, s4, t1, t2, t3
<1> QED BY <1>8, <1>10, <1>11 DEF HeadWrites

-----------------------------------------------------------------------------
(* Packets of a client *)

HeadCursor(c, id) ==
    LET c1 == serial_read_beaver_triple(serial_read_batch_id(c, id))
        c2 == serial_read_mp_int(serial_read_mp_int(serial_read_mp_int(c1, "f0"), "g0"), "h0")
    IN  serial_read_server_id(c2, "for_server", {c.p.for_server})

(* The cursor stands before a packet for the server of the reader's object. *)
AtHead(c, s, x, id) ==
    /\ s \in Seq(Object) /\ 8 <= Len(s) /\ At(c, s, 0)
    /\ PacketHead(s, x, id) /\ HeadTyped(x) /\ x.for_server = c.p["for_server"]

(* Reading an integer, one step of a chain of them. *)
LEMMA IntStep ==
    ASSUME NEW D, NEW c, IsCursor(c, D), NEW f \in D, NEW r, r = serial_read_mp_int(c, f)
    PROVE  /\ Keeps(c, r, D, f) /\ (r.ok => r.p[f] \in Field)
           /\ \A s \in Seq(Object), n \in Field, j \in Nat :
                  j < Len(s) /\ At(c, s, j) /\ s[j + 1] = serial_write_mp_int(n)
                      => At(r, s, j + 1) /\ r.p[f] = n
<1>1. /\ Keeps(c, r, D, f) /\ (r.ok => r.p[f] \in Field)
      /\ \A n \in Field : Next1(c, serial_write_mp_int(n)) => Moved(c, r) /\ r.p[f] = n
    BY IntRead
<1>2. ASSUME NEW s \in Seq(Object), NEW n \in Field, NEW j \in Nat,
             j < Len(s), At(c, s, j), s[j + 1] = serial_write_mp_int(n)
      PROVE  At(r, s, j + 1) /\ r.p[f] = n
    <2>1. Next1(c, s[j + 1]) /\ \A q : Moved(c, q) => At(q, s, j + 1) BY <1>2, AtNext
    <2>2. Moved(c, r) /\ r.p[f] = n BY <1>1, <1>2, <2>1
    <2> QED BY <2>1, <2>2
<1> QED BY <1>1, <1>2

HeadReads(c, r, D, id) ==
    /\ IsCursor(r, D) /\ (r.ok => c.ok)
    /\ \A g \in D : g \notin HeadField => r.p[g] = c.p[g]
    /\ r.ok => \A g \in HeadField : r.p[g] \in Field
    /\ \A s, x, wid : AtHead(c, s, x, wid) =>
           IF wid = id THEN At(r, s, 8) /\ \A g \in HeadField : r.p[g] = x[g]
           ELSE ~r.ok

LEMMA HeadRead ==
    ASSUME NEW D, HeadField \subseteq D, "for_server" \in D, NEW c, IsCursor(c, D), NEW id,
           NEW r, r = HeadCursor(c, id)
    PROVE  HeadReads(c, r, D, id)
<1> DEFINE c1 == serial_read_batch_id(c, id)
           c2 == serial_read_mp_int(c1, "a")
           c3 == serial_read_mp_int(c2, "b")
           c4 == serial_read_mp_int(c3, "c")
           c5 == serial_read_mp_int(c4, "f0")
           c6 == serial_read_mp_int(c5, "g0")
           c7 == serial_read_mp_int(c6, "h0")
<1>0. "a" \in D /\ "b" \in D /\ "c" \in D /\ "f0" \in D /\ "g0" \in D /\ "h0" \in D BY DEF HeadField
<1>1. r = serial_read_server_id(c7, "for_server", {c.p["for_server"]})
    BY DEF HeadCursor, serial_read_beaver_triple
<1>2. c2 = serial_read_mp_int(c1, "a") /\ c3 = serial_read_mp_int(c2, "b") OBVIOUS
<1>3. c4 = serial_read_mp_int(c3, "c") /\ c5 = serial_read_mp_int(c4, "f0") OBVIOUS
<1>4. c6 = serial_read_mp_int(c5, "g0") /\ c7 = serial_read_mp_int(c6, "h0") OBVIOUS
<1>5. /\ Keeps(c, c1, D, "a") /\ c1.p = c.p
      /\ Next1(c, Str(id)) => Moved(c, c1)
      /\ \A other : Next1(c, Str(other)) /\ c1.ok => other = id
    BY BatchRead
<1> HIDE DEF c1, c2, c3, c4, c5, c6, c7
<1> DEFINE Step(u, v, f) ==
        /\ Keeps(u, v, D, f) /\ (v.ok => v.p[f] \in Field)
        /\ \A s \in Seq(Object), n \in Field, j \in Nat :
               j < Len(s) /\ At(u, s, j) /\ s[j + 1] = serial_write_mp_int(n)
                   => At(v, s, j + 1) /\ v.p[f] = n
<1>11. IsCursor(c1, D) BY <1>5 DEF Keeps
<1>12. Step(c1, c2, "a") BY <1>0, <1>2, <1>11, IntStep
<1>13. IsCursor(c2, D) BY <1>12 DEF Keeps
<1>14. Step(c2, c3, "b") BY <1>0, <1>2, <1>13, IntStep
<1>15. IsCursor(c3, D) BY <1>14 DEF Keeps
<1>16. Step(c3, c4, "c") BY <1>0, <1>3, <1>15, IntStep
<1>17. IsCursor(c4, D) BY <1>16 DEF Keeps
<1>18. Step(c4, c5, "f0") BY <1>0, <1>3, <1>17, IntStep
<1>19. IsCursor(c5, D) BY <1>18 DEF Keeps
<1>20. Step(c5, c6, "g0") BY <1>0, <1>4, <1>19, IntStep
<1>21. IsCursor(c6, D) BY <1>20 DEF Keeps
<1>22. Step(c6, c7, "h0") BY <1>0, <1>4, <1>21, IntStep
<1>23. IsCursor(c7, D) BY <1>22 DEF Keeps
<1>24. /\ Keeps(c7, r, D, "for_server")
       /\ r.p["for_server"] # c7.p["for_server"] => r.p["for_server"] \in Server \cap {c.p["for_server"]}
       /\ \A n \in Server \cap {c.p["for_server"]} : Next1(c7, PosInt(n)) => Moved(c7, r)
    BY <1>1, <1>23, ServerIdRead
<1>25. IsCursor(r, D) BY <1>24 DEF Keeps
<1>26. /\ (r.ok => c7.ok) /\ (c7.ok => c6.ok) /\ (c6.ok => c5.ok) /\ (c5.ok => c4.ok)
       /\ (c4.ok => c3.ok) /\ (c3.ok => c2.ok) /\ (c2.ok => c1.ok) /\ (c1.ok => c.ok)
    BY <1>5, <1>12, <1>14, <1>16, <1>18, <1>20, <1>22, <1>24 DEF Keeps
<1>27. ASSUME NEW g \in D, g \notin HeadField PROVE c7.p[g] = c.p[g]
    <2>1. g # "a" /\ g # "b" /\ g # "c" /\ g # "f0" /\ g # "g0" /\ g # "h0"
        BY <1>27 DEF HeadField
    <2>2. c2.p[g] = c.p[g] /\ c3.p[g] = c2.p[g] /\ c4.p[g] = c3.p[g]
        BY <1>5, <1>12, <1>14, <1>16, <2>1 DEF Keeps
    <2>3. c5.p[g] = c4.p[g] /\ c6.p[g] = c5.p[g] /\ c7.p[g] = c6.p[g]
        BY <1>18, <1>20, <1>22, <2>1 DEF Keeps
    <2> QED BY <2>2, <2>3
<1>28. ASSUME NEW g \in D, g \notin HeadField PROVE r.p[g] = c.p[g]
    <2>1. CASE g # "for_server" BY <1>24, <1>27, <1>28, <2>1 DEF Keeps
    <2>2. CASE g = "for_server"
        <3>1. c7.p["for_server"] = c.p["for_server"] BY <1>27, <1>28, <2>2
        <3> QED BY <1>24, <2>2, <3>1
    <2> QED BY <2>1, <2>2
<1>29. /\ r.p["a"] = c2.p["a"] /\ r.p["b"] = c3.p["b"] /\ r.p["c"] = c4.p["c"]
       /\ r.p["f0"] = c5.p["f0"] /\ r.p["g0"] = c6.p["g0"] /\ r.p["h0"] = c7.p["h0"]
    <2>1. c3.p["a"] = c2.p["a"] BY <1>0, <1>14 DEF Keeps
    <2>2. c4.p["a"] = c3.p["a"] /\ c4.p["b"] = c3.p["b"] BY <1>0, <1>16 DEF Keeps
    <2>3. c5.p["a"] = c4.p["a"] /\ c5.p["b"] = c4.p["b"] /\ c5.p["c"] = c4.p["c"]
        BY <1>0, <1>18 DEF Keeps
    <2>4. /\ c6.p["a"] = c5.p["a"] /\ c6.p["b"] = c5.p["b"] /\ c6.p["c"] = c5.p["c"]
          /\ c6.p["f0"] = c5.p["f0"]
        BY <1>0, <1>20 DEF Keeps
    <2>5. /\ c7.p["a"] = c6.p["a"] /\ c7.p["b"] = c6.p["b"] /\ c7.p["c"] = c6.p["c"]
          /\ c7.p["f0"] = c6.p["f0"] /\ c7.p["g0"] = c6.p["g0"]
        BY <1>0, <1>22 DEF Keeps
    <2>6. /\ r.p["a"] = c7.p["a"] /\ r.p["b"] = c7.p["b"] /\ r.p["c"] = c7.p["c"]
          /\ r.p["f0"] = c7.p["f0"] /\ r.p["g0"] = c7.p["g0"] /\ r.p["h0"] = c7.p["h0"]
        BY <1>0, <1>24 DEF Keeps
    <2> QED BY <2>1, <2>2, <2>3, <2>4, <2>5, <2>6
<1>30. ASSUME r.ok PROVE \A g \in HeadField : r.p[g] \in Field
    <2>1. c7.ok /\ c6.ok /\ c5.ok /\ c4.ok /\ c3.ok /\ c2.ok BY <1>26, <1>30
    <2>2. c2.p["a"] \in Field /\ c3.p["b"] \in Field /\ c4.p["c"] \in Field
        BY <1>12, <1>14, <1>16, <2>1
    <2>3. c5.p["f0"] \in Field /\ c6.p["g0"] \in Field /\ c7.p["h0"] \in Field
        BY <1>18, <1>20, <1>22, <2>1
    <2> QED BY <1>29, <2>2, <2>3 DEF HeadField
<1>31. ASSUME NEW s, NEW x, NEW wid, AtHead(c, s, x, wid)
       PROVE  IF wid = id THEN At(r, s, 8) /\ \A g \in HeadField : r.p[g] = x[g] ELSE ~r.ok
    <2>0. /\ s \in Seq(Object) /\ 8 <= Len(s) /\ Len(s) \in Nat /\ At(c, s, 0)
          /\ PacketHead(s, x, wid) /\ HeadTyped(x) /\ x.for_server = c.p["for_server"]
        BY <1>31 DEF AtHead
    <2>1. Next1(c, s[0 + 1]) /\ \A q : Moved(c, q) => At(q, s, 0 + 1)
        <3>1. 0 \in Nat /\ 0 < Len(s) BY <2>0
        <3> QED BY <2>0, <3>1, AtNext
    <2>2. Next1(c, Str(wid)) /\ 0 + 1 = 1 BY <2>0, <2>1 DEF PacketHead
    <2>3. CASE wid # id BY <1>5, <1>26, <2>2, <2>3
    <2>4. CASE wid = id
        <3>1. At(c1, s, 1) BY <1>5, <2>1, <2>2, <2>4
        <3>2. At(c2, s, 1 + 1) /\ c2.p["a"] = x.a
            <4>1. 1 \in Nat /\ 1 < Len(s) /\ x.a \in Field /\ s[1 + 1] = serial_write_mp_int(x.a)
                BY <2>0 DEF PacketHead, HeadTyped
            <4> QED BY <1>12, <2>0, <3>1, <4>1
        <3>3. At(c3, s, 2 + 1) /\ c3.p["b"] = x.b
            <4>1. /\ 2 \in Nat /\ 2 < Len(s) /\ x.b \in Field /\ 1 + 1 = 2
                  /\ s[2 + 1] = serial_write_mp_int(x.b)
                BY <2>0 DEF PacketHead, HeadTyped
            <4> QED BY <1>14, <2>0, <3>2, <4>1
        <3>4. At(c4, s, 3 + 1) /\ c4.p["c"] = x.c
            <4>1. /\ 3 \in Nat /\ 3 < Len(s) /\ x.c \in Field /\ 2 + 1 = 3
                  /\ s[3 + 1] = serial_write_mp_int(x.c)
                BY <2>0 DEF PacketHead, HeadTyped
            <4> QED BY <1>16, <2>0, <3>3, <4>1
        <3>5. At(c5, s, 4 + 1) /\ c5.p["f0"] = x.f0
            <4>1. /\ 4 \in Nat /\ 4 < Len(s) /\ x.f0 \in Field /\ 3 + 1 = 4
                  /\ s[4 + 1] = serial_write_mp_int(x.f0)
                BY <2>0 DEF PacketHead, HeadTyped
            <4> QED BY <1>18, <2>0, <3>4, <4>1
        <3>6. At(c6, s, 5 + 1) /\ c6.p["g0"] = x.g0
            <4>1. /\ 5 \in Nat /\ 5 < Len(s) /\ x.g0 \in Field /\ 4 + 1 = 5
                  /\ s[5 + 1] = serial_write_mp_int(x.g0)
                BY <2>0 DEF PacketHead, HeadTyped
            <4> QED BY <1>20, <2>0, <3>5, <4>1
        <3>7. At(c7, s, 6 + 1) /\ c7.p["h0"] = x.h0
            <4>1. /\ 6 \in Nat /\ 6 < Len(s) /\ x.h0 \in Field /\ 5 + 1 = 6
                  /\ s[6 + 1] = serial_write_mp_int(x.h0)
                BY <2>0 DEF PacketHead, HeadTyped
            <4> QED BY <1>22, <2>0, <3>6, <4>1
        <3>8. At(r, s, 7 + 1)
            <4>1. /\ 7 \in Nat /\ 7 < Len(s) /\ 6 + 1 = 7 /\ s[7 + 1] = PosInt(x.for_server)
                  /\ x.for_server \in Server \cap {c.p["for_server"]}
                BY <2>0 DEF PacketHead, HeadTyped
            <4>2. At(c7, s, 7) BY <3>7, <4>1
            <4>3. Next1(c7, s[7 + 1]) /\ \A q : Moved(c7, q) => At(q, s, 7 + 1)
                BY <2>0, <4>1, <4>2, AtNext
            <4> QED BY <1>24, <4>1, <4>3
        <3>9. 7 + 1 = 8 OBVIOUS
        <3>10. \A g \in HeadField : r.p[g] = x[g]
            BY <1>29, <3>2, <3>3, <3>4, <3>5, <3>6, <3>7 DEF HeadField
        <3> QED BY <2>4, <3>8, <3>9, <3>10
    <2> QED BY <2>3, <2>4
<1>32. r.ok => c.ok BY <1>26
<1> QED BY <1>25, <1>28, <1>30, <1>31, <1>32 DEF HeadReads

-----------------------------------------------------------------------------
(* The kinds of objects (PrioStream): the fields of each, and what its     *)
(* writer and its reader do.                                               *)

Fields(k) ==
    CASE k = "packetA" -> {"a", "b", "c", "f0", "g0", "h0", "for_server", "data_shares", "h_points"}
      [] k = "packetB" -> {"a", "b", "c", "f0", "g0", "h0", "for_server", "seed"}
      [] k = "server"  -> {"data_shares"}
      [] k = "verify1" -> {"share_d", "share_e"}
      [] k = "verify2" -> {"share_out"}
      [] k = "total"   -> {"idx", "data_shares"}

(* An object of kind k, whatever reads have made of it. *)
ObjectOf(k, p) ==
    /\ p = [g \in Fields(k) |-> p[g]]
    /\ k = "packetA" => p["for_server"] = PRIO_SERVER_A
    /\ k = "packetB" => p["for_server"] = PRIO_SERVER_B

(* What a reader returns: an object, and if it succeeds one that might     *)
(* have been written.                                                      *)
Returned(k, r) ==
    /\ r.ok \in BOOLEAN /\ r.in \in Seq(Object)
    /\ ObjectOf(k, r.p) /\ (r.ok => r.p \in Shape(k))

(* The objects of w are the first of s. *)
Begins(s, w) == Len(w) <= Len(s) /\ \A i \in 1 .. Len(w) : s[i] = w[i]

(* The reader has read w and found the x that was written. *)
Back(s, w, x, r) == r.ok /\ r.p = x /\ r.in = Rest(s, Len(w))

LEMMA Lengths2 == NumFields \in Nat /\ PrioConfig_hPoints \in Nat
BY NIsPower, NumFieldsAssumption DEF N, PrioConfig_hPoints

LEMMA CursorIs ==
    ASSUME NEW D, NEW p, p = [g \in D |-> p[g]], NEW s \in Seq(Object)
    PROVE  IsCursor(Cursor(s, p), D) /\ At(Cursor(s, p), s, 0) /\ Cursor(s, p).p = p
<1> DEFINE c == Cursor(s, p)
<1>1. c = [ok |-> TRUE, in |-> s, p |-> p] BY DEF Cursor
<1> HIDE DEF c
<1>2. c.ok = TRUE /\ c.in = s /\ c.p = p BY <1>1
<1>3. c = [ok |-> c.ok, in |-> c.in, p |-> c.p] BY <1>1, <1>2
<1>4. c.p = [g \in D |-> c.p[g]] BY <1>2
<1>5. IsCursor(c, D) BY <1>2, <1>3, <1>4 DEF IsCursor
<1>6. Rest(s, 0) = s BY RestNone
<1> QED BY <1>2, <1>5, <1>6 DEF c, At

(* Server A's packet. *)
LEMMA WritesA ==
    ASSUME NEW x \in Shape("packetA"), NEW id \in Seq(OctetOf),
           NEW w, w = serial_write_packet_client(x, id)
    PROVE  /\ w \in Seq(Object) /\ Len(w) = 10 /\ PacketHead(w, x, id) /\ HeadTyped(x)
           /\ w[9] = serial_write_mp_array(x.data_shares)
           /\ w[10] = serial_write_mp_array(x.h_points)
<1> DEFINE z == serial_write_server_a_data(x)
<1>1. /\ HeadTyped(x) /\ x.for_server = PRIO_SERVER_A
      /\ x.data_shares \in Arrays(NumFields) /\ x.h_points \in Arrays(PrioConfig_hPoints)
    BY DEF Shape, HeadTyped, Server
<1>2. /\ z \in Seq(Object) /\ Len(z) = 2 /\ z[1] = serial_write_mp_array(x.data_shares)
      /\ z[2] = serial_write_mp_array(x.h_points)
    BY <1>1, Lengths2, WrittenArray DEF serial_write_server_a_data
<1>3. w = HeadConcat(x, id, z) BY <1>1 DEF serial_write_packet_client, HeadConcat
<1> HIDE DEF z
<1>4. /\ w \in Seq(Object) /\ Len(w) = 8 + Len(z) /\ PacketHead(w, x, id)
      /\ \A i \in 1 .. Len(z) : w[8 + i] = z[i]
    <2>1. HeadWrites(HeadConcat(x, id, z), x, id, z) BY <1>1, <1>2, HeadWritten
    <2> QED BY <1>3, <2>1 DEF HeadWrites
<1> QED BY <1>1, <1>2, <1>4

LEMMA WritesB ==
    ASSUME NEW x \in Shape("packetB"), NEW id \in Seq(OctetOf),
           NEW w, w = serial_write_packet_client(x, id)
    PROVE  /\ w \in Seq(Object) /\ Len(w) = 9 /\ PacketHead(w, x, id) /\ HeadTyped(x)
           /\ w[9] = Str(x.seed)
<1> DEFINE z == serial_write_server_b_data(x)
<1>1. /\ HeadTyped(x) /\ x.for_server = PRIO_SERVER_B /\ PRIO_SERVER_B # PRIO_SERVER_A
      /\ x.seed \in [1 .. PRG_SEED_LENGTH -> OctetOf]
    BY DEF Shape, HeadTyped, Server, OctetOf, PRIO_SERVER_A, PRIO_SERVER_B
<1>2. z \in Seq(Object) /\ Len(z) = 1 /\ z[1] = Str(x.seed)
    <2>1. x.seed \in Seq(OctetOf) BY <1>1, SerialAssumption
    <2> QED BY <2>1, StrObject DEF serial_write_server_b_data, serial_write_prg_seed
<1>3. w = HeadConcat(x, id, z) BY <1>1 DEF serial_write_packet_client, HeadConcat
<1> HIDE DEF z
<1>4. /\ w \in Seq(Object) /\ Len(w) = 8 + Len(z) /\ PacketHead(w, x, id)
      /\ \A i \in 1 .. Len(z) : w[8 + i] = z[i]
    <2>1. HeadWrites(HeadConcat(x, id, z), x, id, z) BY <1>1, <1>2, HeadWritten
    <2> QED BY <1>3, <2>1 DEF HeadWrites
<1> QED BY <1>1, <1>2, <1>4

(* An array and a seed that stand at the cursor. *)
ArrayReads(c, r, D, f, len) ==
    /\ Keeps(c, r, D, f) /\ (r.ok => r.p[f] \in Arrays(len))
    /\ \A s \in Seq(Object), a \in Arrays(len), j \in Nat :
           j < Len(s) /\ At(c, s, j) /\ s[j + 1] = serial_write_mp_array(a)
               => At(r, s, j + 1) /\ r.p[f] = a

LEMMA ArrayStep ==
    ASSUME NEW D, NEW c, IsCursor(c, D), NEW f \in D, NEW len \in Nat,
           NEW r, r = serial_read_mp_array(c, f, len)
    PROVE  ArrayReads(c, r, D, f, len)
<1>1. /\ Keeps(c, r, D, f) /\ (r.ok => r.p[f] \in Arrays(len))
      /\ \A a \in Arrays(len) : Next1(c, serial_write_mp_array(a)) => Moved(c, r) /\ r.p[f] = a
    BY ArrayRead
<1>2. ASSUME NEW s \in Seq(Object), NEW a \in Arrays(len), NEW j \in Nat,
             j < Len(s), At(c, s, j), s[j + 1] = serial_write_mp_array(a)
      PROVE  At(r, s, j + 1) /\ r.p[f] = a
    <2>1. Next1(c, s[j + 1]) /\ \A q : Moved(c, q) => At(q, s, j + 1) BY <1>2, AtNext
    <2>2. Moved(c, r) /\ r.p[f] = a BY <1>1, <1>2, <2>1
    <2> QED BY <2>1, <2>2
<1> QED BY <1>1, <1>2 DEF ArrayReads

(* A packet at the beginning of the stream is before the cursor. *)
LEMMA BeginsHead ==
    ASSUME NEW s \in Seq(Object), NEW w \in Seq(Object), Len(w) >= 8, Begins(s, w),
           NEW x, NEW id, PacketHead(w, x, id), HeadTyped(x),
           NEW c, At(c, s, 0), x.for_server = c.p["for_server"]
    PROVE  AtHead(c, s, x, id)
<1>1. 8 <= Len(s) /\ \A i \in 1 .. 8 : s[i] = w[i] BY DEF Begins
<1>2. PacketHead(s, x, id) BY <1>1 DEF PacketHead
<1> QED BY <1>1, <1>2 DEF AtHead

LEMMA ReadsA ==
    ASSUME NEW p, ObjectOf("packetA", p), NEW s \in Seq(Object), NEW id,
           NEW r, r = serial_read_packet_client(Cursor(s, p), id)
    PROVE  /\ Returned("packetA", r)
           /\ \A x \in Shape("packetA"), wid \in Seq(OctetOf) :
                  LET w == serial_write_packet_client(x, wid)
                  IN  Begins(s, w) => IF wid = id THEN Back(s, w, x, r) ELSE ~r.ok
<1> DEFINE D == Fields("packetA")
           c == Cursor(s, p)
           h == HeadCursor(c, id)
           d == serial_read_mp_array(h, "data_shares", NumFields)
<1>0. D = {"a", "b", "c", "f0", "g0", "h0", "for_server", "data_shares", "h_points"} BY DEF Fields
<1>1. p = [g \in D |-> p[g]] /\ p["for_server"] = PRIO_SERVER_A BY DEF ObjectOf
<1>2. /\ HeadField \subseteq D /\ "for_server" \in D /\ "data_shares" \in D /\ "h_points" \in D
      /\ "for_server" \notin HeadField /\ D = HeadField \cup {"for_server", "data_shares", "h_points"}
    BY <1>0 DEF HeadField
<1> HIDE DEF D
<1>3. IsCursor(c, D) /\ At(c, s, 0) /\ c.p = p BY <1>1, CursorIs
<1>4. c.p.for_server = PRIO_SERVER_A /\ c.p["for_server"] = PRIO_SERVER_A BY <1>1, <1>3
<1>5. r = serial_read_mp_array(d, "h_points", PrioConfig_hPoints)
    BY <1>4 DEF serial_read_packet_client, serial_read_server_a_data, HeadCursor
<1>18. h = HeadCursor(c, id) OBVIOUS
<1>7. d = serial_read_mp_array(h, "data_shares", NumFields) OBVIOUS
<1> HIDE DEF c, h, d
<1>6. /\ IsCursor(h, D) /\ (h.ok => c.ok)
      /\ \A g \in D : g \notin HeadField => h.p[g] = c.p[g]
      /\ h.ok => \A g \in HeadField : h.p[g] \in Field
      /\ \A t, x, wid : AtHead(c, t, x, wid) =>
             IF wid = id THEN At(h, t, 8) /\ \A g \in HeadField : h.p[g] = x[g] ELSE ~h.ok
    <2>1. HeadReads(c, h, D, id) BY <1>2, <1>3, <1>18, HeadRead
    <2> QED BY <2>1 DEF HeadReads
<1>8. ArrayReads(h, d, D, "data_shares", NumFields)
    BY <1>2, <1>6, <1>7, Lengths2, ArrayStep
<1>9. IsCursor(d, D) BY <1>8 DEF ArrayReads, Keeps
<1>10. ArrayReads(d, r, D, "h_points", PrioConfig_hPoints)
    BY <1>2, <1>5, <1>9, Lengths2, ArrayStep
<1>11. IsCursor(r, D) /\ (r.ok => d.ok) /\ (d.ok => h.ok) BY <1>8, <1>10 DEF ArrayReads, Keeps
<1>12. /\ \A g \in HeadField \cup {"for_server"} : r.p[g] = h.p[g]
       /\ r.p["data_shares"] = d.p["data_shares"]
    <2>1. \A g \in HeadField \cup {"for_server"} : g \in D /\ g # "data_shares" /\ g # "h_points"
        BY <1>2 DEF HeadField
    <2> QED BY <1>2, <1>8, <1>10, <2>1 DEF ArrayReads, Keeps
<1>13. r.p["for_server"] = PRIO_SERVER_A BY <1>2, <1>4, <1>6, <1>12
<1>14. ObjectOf("packetA", r.p) BY <1>11, <1>13 DEF IsCursor, ObjectOf, D
<1>15. ASSUME r.ok PROVE r.p \in Shape("packetA")
    <2>1. \A g \in HeadField : r.p[g] \in Field BY <1>6, <1>11, <1>12, <1>15
    <2>2. /\ r.p["data_shares"] \in Arrays(NumFields)
          /\ r.p["h_points"] \in Arrays(PrioConfig_hPoints)
        BY <1>8, <1>10, <1>11, <1>12, <1>15 DEF ArrayReads
    <2> DEFINE q == r.p
    <2>3. q = [g \in D |-> q[g]] BY <1>11 DEF IsCursor
    <2>4. /\ q["a"] \in Field /\ q["b"] \in Field /\ q["c"] \in Field
          /\ q["f0"] \in Field /\ q["g0"] \in Field /\ q["h0"] \in Field
        BY <2>1 DEF HeadField
    <2> HIDE DEF q
    <2>5. q = [a |-> q["a"], b |-> q["b"], c |-> q["c"], f0 |-> q["f0"], g0 |-> q["g0"],
               h0 |-> q["h0"], for_server |-> q["for_server"],
               data_shares |-> q["data_shares"], h_points |-> q["h_points"]]
        BY <1>0, <2>3
    <2>6. q["for_server"] \in {PRIO_SERVER_A} BY <1>13 DEF q
    <2>7. q["data_shares"] \in Arrays(NumFields) /\ q["h_points"] \in Arrays(PrioConfig_hPoints)
        BY <2>2 DEF q
    <2>8. q \in [a : Field, b : Field, c : Field, f0 : Field, g0 : Field, h0 : Field,
                 for_server : {PRIO_SERVER_A}, data_shares : Arrays(NumFields),
                 h_points : Arrays(PrioConfig_hPoints)]
        BY <2>4, <2>5, <2>6, <2>7
    <2> QED BY <2>8 DEF Shape, q
<1>16. ASSUME NEW x \in Shape("packetA"), NEW wid \in Seq(OctetOf),
              NEW w, w = serial_write_packet_client(x, wid), Begins(s, w)
       PROVE  IF wid = id THEN Back(s, w, x, r) ELSE ~r.ok
    <2>1. /\ w \in Seq(Object) /\ Len(w) = 10 /\ PacketHead(w, x, wid) /\ HeadTyped(x)
          /\ w[9] = serial_write_mp_array(x.data_shares)
          /\ w[10] = serial_write_mp_array(x.h_points)
        BY <1>16, WritesA
    <2>2. /\ x.for_server = PRIO_SERVER_A /\ x = [g \in D |-> x[g]]
          /\ x.data_shares \in Arrays(NumFields) /\ x.h_points \in Arrays(PrioConfig_hPoints)
        BY <1>0 DEF Shape
    <2>3. AtHead(c, s, x, wid) BY <1>3, <1>4, <1>16, <2>1, <2>2, BeginsHead
    <2>4. CASE wid # id
        <3>1. ~h.ok BY <1>6, <2>3, <2>4
        <3> QED BY <1>11, <2>4, <3>1
    <2>5. CASE wid = id
        <3>1. At(h, s, 8) /\ \A g \in HeadField : h.p[g] = x[g] BY <1>6, <2>3, <2>5
        <3>2. /\ 8 < Len(s) /\ s[8 + 1] = serial_write_mp_array(x.data_shares)
              /\ 9 < Len(s) /\ s[9 + 1] = serial_write_mp_array(x.h_points)
              /\ 8 \in Nat /\ 9 \in Nat /\ 8 + 1 = 9 /\ 9 + 1 = 10
            BY <1>16, <2>1 DEF Begins
        <3>3. At(d, s, 9) /\ d.p["data_shares"] = x.data_shares
            <4>1. 8 < Len(s) /\ s[8 + 1] = serial_write_mp_array(x.data_shares) /\ 8 \in Nat
                BY <3>2
            <4>2. At(d, s, 8 + 1) /\ d.p["data_shares"] = x.data_shares
                BY <1>8, <2>2, <3>1, <4>1 DEF ArrayReads
            <4> QED BY <3>2, <4>2
        <3>4. At(r, s, 10) /\ r.p["h_points"] = x.h_points
            <4>1. 9 < Len(s) /\ s[9 + 1] = serial_write_mp_array(x.h_points) /\ 9 \in Nat
                BY <3>2
            <4>2. At(r, s, 9 + 1) /\ r.p["h_points"] = x.h_points
                BY <1>10, <2>2, <3>3, <4>1 DEF ArrayReads
            <4> QED BY <3>2, <4>2
        <3>5. ASSUME NEW g \in D PROVE r.p[g] = x[g]
            <4>1. CASE g \in HeadField BY <1>12, <3>1, <4>1
            <4>2. CASE g = "for_server" BY <1>13, <2>2, <4>2
            <4>3. CASE g = "data_shares" BY <1>12, <3>3, <4>3
            <4>4. CASE g = "h_points" BY <3>4, <4>4
            <4> QED BY <1>2, <4>1, <4>2, <4>3, <4>4
        <3>6. r.p = [g \in D |-> r.p[g]] BY <1>11 DEF IsCursor
        <3>7. r.p = x BY <2>2, <3>5, <3>6
        <3> QED BY <2>1, <2>5, <3>4, <3>7 DEF Back, At
    <2> QED BY <2>4, <2>5
<1>17. r.ok \in BOOLEAN /\ r.in \in Seq(Object) BY <1>11 DEF IsCursor
<1> QED BY <1>14, <1>15, <1>16, <1>17 DEF Returned

LEMMA ReadsB ==
    ASSUME NEW p, ObjectOf("packetB", p), NEW s \in Seq(Object), NEW id,
           NEW r, r = serial_read_packet_client(Cursor(s, p), id)
    PROVE  /\ Returned("packetB", r)
           /\ \A x \in Shape("packetB"), wid \in Seq(OctetOf) :
                  LET w == serial_write_packet_client(x, wid)
                  IN  Begins(s, w) => IF wid = id THEN Back(s, w, x, r) ELSE ~r.ok
<1> DEFINE D == Fields("packetB")
           c == Cursor(s, p)
           h == HeadCursor(c, id)
           T == [1 .. PRG_SEED_LENGTH -> OctetOf]
<1>0. D = {"a", "b", "c", "f0", "g0", "h0", "for_server", "seed"} BY DEF Fields
<1>1. p = [g \in D |-> p[g]] /\ p["for_server"] = PRIO_SERVER_B BY DEF ObjectOf
<1>2. /\ HeadField \subseteq D /\ "for_server" \in D /\ "seed" \in D
      /\ "for_server" \notin HeadField /\ D = HeadField \cup {"for_server", "seed"}
    BY <1>0 DEF HeadField
<1> HIDE DEF D
<1>3. IsCursor(c, D) /\ At(c, s, 0) /\ c.p = p BY <1>1, CursorIs
<1>4. c.p.for_server = PRIO_SERVER_B /\ c.p["for_server"] = PRIO_SERVER_B BY <1>1, <1>3
<1>5. r = serial_read_prg_seed(h)
    <2>1. PRIO_SERVER_B # PRIO_SERVER_A BY DEF PRIO_SERVER_A, PRIO_SERVER_B
    <2> QED BY <1>4, <2>1 DEF serial_read_packet_client, serial_read_server_b_data, HeadCursor
<1>18. h = HeadCursor(c, id) OBVIOUS
<1> HIDE DEF c, h
<1>6. /\ IsCursor(h, D) /\ (h.ok => c.ok)
      /\ \A g \in D : g \notin HeadField => h.p[g] = c.p[g]
      /\ h.ok => \A g \in HeadField : h.p[g] \in Field
      /\ \A t, x, wid : AtHead(c, t, x, wid) =>
             IF wid = id THEN At(h, t, 8) /\ \A g \in HeadField : h.p[g] = x[g] ELSE ~h.ok
    <2>1. HeadReads(c, h, D, id) BY <1>2, <1>3, <1>18, HeadRead
    <2> QED BY <2>1 DEF HeadReads
<1>7. /\ Keeps(h, r, D, "seed") /\ (r.ok => r.p["seed"] \in T)
      /\ \A q \in T : Next1(h, Str(q)) => Moved(h, r) /\ r.p["seed"] = q
    BY <1>2, <1>5, <1>6, SeedRead
<1>11. IsCursor(r, D) /\ (r.ok => h.ok) BY <1>7 DEF Keeps
<1>12. \A g \in HeadField \cup {"for_server"} : r.p[g] = h.p[g]
    <2>1. \A g \in HeadField \cup {"for_server"} : g \in D /\ g # "seed" BY <1>2 DEF HeadField
    <2> QED BY <1>7, <2>1 DEF Keeps
<1>13. r.p["for_server"] = PRIO_SERVER_B BY <1>2, <1>4, <1>6, <1>12
<1>14. ObjectOf("packetB", r.p) BY <1>11, <1>13 DEF IsCursor, ObjectOf, D
<1>15. ASSUME r.ok PROVE r.p \in Shape("packetB")
    <2>1. \A g \in HeadField : r.p[g] \in Field BY <1>6, <1>11, <1>12, <1>15
    <2>2. r.p["seed"] \in T BY <1>7, <1>15
    <2> DEFINE q == r.p
    <2>3. q = [g \in D |-> q[g]] BY <1>11 DEF IsCursor
    <2>4. /\ q["a"] \in Field /\ q["b"] \in Field /\ q["c"] \in Field
          /\ q["f0"] \in Field /\ q["g0"] \in Field /\ q["h0"] \in Field
        BY <2>1 DEF HeadField
    <2> HIDE DEF q
    <2>5. q = [a |-> q["a"], b |-> q["b"], c |-> q["c"], f0 |-> q["f0"], g0 |-> q["g0"],
               h0 |-> q["h0"], for_server |-> q["for_server"], seed |-> q["seed"]]
        BY <1>0, <2>3
    <2>6. q["for_server"] \in {PRIO_SERVER_B} BY <1>13 DEF q
    <2>7. q["seed"] \in T BY <2>2 DEF q
    <2> HIDE DEF T
    <2>8. q \in [a : Field, b : Field, c : Field, f0 : Field, g0 : Field, h0 : Field,
                 for_server : {PRIO_SERVER_B}, seed : T]
        BY <2>4, <2>5, <2>6, <2>7
    <2> QED BY <2>8 DEF Shape, q, T, OctetOf
<1>16. ASSUME NEW x \in Shape("packetB"), NEW wid \in Seq(OctetOf),
              NEW w, w = serial_write_packet_client(x, wid), Begins(s, w)
       PROVE  IF wid = id THEN Back(s, w, x, r) ELSE ~r.ok
    <2>1. /\ w \in Seq(Object) /\ Len(w) = 9 /\ PacketHead(w, x, wid) /\ HeadTyped(x)
          /\ w[9] = Str(x.seed)
        BY <1>16, WritesB
    <2>2. x.for_server = PRIO_SERVER_B /\ x = [g \in D |-> x[g]] /\ x.seed \in T
        BY <1>0 DEF Shape, OctetOf
    <2>3. AtHead(c, s, x, wid) BY <1>3, <1>4, <1>16, <2>1, <2>2, BeginsHead
    <2>4. CASE wid # id
        <3>1. ~h.ok BY <1>6, <2>3, <2>4
        <3> QED BY <1>11, <2>4, <3>1
    <2>5. CASE wid = id
        <3>1. At(h, s, 8) /\ \A g \in HeadField : h.p[g] = x[g] BY <1>6, <2>3, <2>5
        <3>2. 8 < Len(s) /\ s[8 + 1] = Str(x.seed) /\ 8 \in Nat /\ 8 + 1 = 9
            BY <1>16, <2>1 DEF Begins
        <3>3. Next1(h, s[8 + 1]) /\ \A q : Moved(h, q) => At(q, s, 8 + 1)
            BY <3>1, <3>2, AtNext
        <3>4. Moved(h, r) /\ r.p["seed"] = x.seed BY <1>7, <2>2, <3>2, <3>3
        <3>5. At(r, s, 9) BY <3>2, <3>3, <3>4
        <3>6. ASSUME NEW g \in D PROVE r.p[g] = x[g]
            <4>1. CASE g \in HeadField BY <1>12, <3>1, <4>1
            <4>2. CASE g = "for_server" BY <1>13, <2>2, <4>2
            <4>3. CASE g = "seed" BY <3>4, <4>3
            <4> QED BY <1>2, <4>1, <4>2, <4>3
        <3>7. r.p = [g \in D |-> r.p[g]] BY <1>11 DEF IsCursor
        <3>8. r.p = x BY <2>2, <3>6, <3>7
        <3> QED BY <2>1, <2>5, <3>5, <3>8 DEF Back, At
    <2> QED BY <2>4, <2>5
<1>17. r.ok \in BOOLEAN /\ r.in \in Seq(Object) BY <1>11 DEF IsCursor
<1> QED BY <1>14, <1>15, <1>16, <1>17 DEF Returned

(* The arrays of a server, a message of each round and a total. *)
LEMMA ReadsServer ==
    ASSUME NEW p, ObjectOf("server", p), NEW s \in Seq(Object),
           NEW r, r = PrioServer_read(Cursor(s, p))
    PROVE  /\ Returned("server", r)
           /\ \A x \in Shape("server") :
                  LET w == PrioServer_write(x)
                  IN  w \in Seq(Object) /\ Len(w) = 1 /\ (Begins(s, w) => Back(s, w, x, r))
<1> DEFINE D == Fields("server")
           c == Cursor(s, p)
<1>0. D = {"data_shares"} BY DEF Fields
<1>1. p = [g \in D |-> p[g]] BY DEF ObjectOf
<1> HIDE DEF D
<1>2. IsCursor(c, D) /\ At(c, s, 0) BY <1>1, CursorIs
<1>3. r = serial_read_mp_array(c, "data_shares", NumFields) BY DEF PrioServer_read
<1> HIDE DEF c
<1>4. ArrayReads(c, r, D, "data_shares", NumFields)
    BY <1>0, <1>2, <1>3, Lengths2, ArrayStep
<1>5. IsCursor(r, D) BY <1>4 DEF ArrayReads, Keeps
<1>6. r.ok \in BOOLEAN /\ r.in \in Seq(Object) /\ r.p = [g \in D |-> r.p[g]]
    BY <1>5 DEF IsCursor
<1>7. ObjectOf("server", r.p) BY <1>6 DEF ObjectOf, D
<1>8. ASSUME r.ok PROVE r.p \in Shape("server")
    <2>1. r.p["data_shares"] \in Arrays(NumFields) BY <1>4, <1>8 DEF ArrayReads
    <2> DEFINE q == r.p
    <2>2. q = [g \in D |-> q[g]] /\ q["data_shares"] \in Arrays(NumFields) BY <1>6, <2>1
    <2> HIDE DEF q
    <2>3. q = [data_shares |-> q["data_shares"]] BY <1>0, <2>2
    <2>4. q \in [data_shares : Arrays(NumFields)] BY <2>2, <2>3
    <2> QED BY <2>4 DEF Shape, q
<1>9. ASSUME NEW x \in Shape("server"), NEW w, w = PrioServer_write(x)
      PROVE  w \in Seq(Object) /\ Len(w) = 1 /\ (Begins(s, w) => Back(s, w, x, r))
    <2>1. x.data_shares \in Arrays(NumFields) /\ x = [g \in D |-> x[g]] BY <1>0 DEF Shape
    <2>2. serial_write_mp_array(x.data_shares) \in Object BY <2>1, Lengths2, WrittenArray
    <2>3. w = <<serial_write_mp_array(x.data_shares)>> BY <1>9 DEF PrioServer_write
    <2>4. w \in Seq(Object) /\ Len(w) = 1 /\ w[1] = serial_write_mp_array(x.data_shares)
        BY <2>2, <2>3
    <2>5. ASSUME Begins(s, w) PROVE Back(s, w, x, r)
        <3>1. /\ 0 < Len(s) /\ s[0 + 1] = serial_write_mp_array(x.data_shares)
              /\ 0 \in Nat /\ 0 + 1 = 1
            BY <2>4, <2>5 DEF Begins
        <3>2. At(r, s, 0 + 1) /\ r.p["data_shares"] = x.data_shares
            BY <1>2, <1>4, <2>1, <3>1 DEF ArrayReads
        <3>3. \A g \in D : r.p[g] = x[g] BY <1>0, <3>2
        <3>4. r.p = x BY <1>6, <2>1, <3>3
        <3> QED BY <2>4, <3>1, <3>2, <3>4 DEF Back, At
    <2> QED BY <2>4, <2>5
<1> QED BY <1>6, <1>7, <1>8, <1>9 DEF Returned

LEMMA ReadsVerify1 ==
    ASSUME NEW p, ObjectOf("verify1", p), NEW s \in Seq(Object),
           NEW r, r = PrioPacketVerify1_read(Cursor(s, p))
    PROVE  /\ Returned("verify1", r)
           /\ \A x \in Shape("verify1") :
                  LET w == PrioPacketVerify1_write(x)
                  IN  w \in Seq(Object) /\ Len(w) = 2 /\ (Begins(s, w) => Back(s, w, x, r))
<1> DEFINE D == Fields("verify1")
           c == Cursor(s, p)
           d == serial_read_mp_int(c, "share_d")
<1>0. D = {"share_d", "share_e"} BY DEF Fields
<1>1. p = [g \in D |-> p[g]] BY DEF ObjectOf
<1> HIDE DEF D
<1>2. IsCursor(c, D) /\ At(c, s, 0) BY <1>1, CursorIs
<1>3. d = serial_read_mp_int(c, "share_d") /\ r = serial_read_mp_int(d, "share_e")
    BY DEF PrioPacketVerify1_read
<1> HIDE DEF c, d
<1> DEFINE Step(u, v, f) ==
        /\ Keeps(u, v, D, f) /\ (v.ok => v.p[f] \in Field)
        /\ \A t \in Seq(Object), n \in Field, j \in Nat :
               j < Len(t) /\ At(u, t, j) /\ t[j + 1] = serial_write_mp_int(n)
                   => At(v, t, j + 1) /\ v.p[f] = n
<1>4. Step(c, d, "share_d") BY <1>0, <1>2, <1>3, IntStep
<1>5. IsCursor(d, D) BY <1>4 DEF Keeps
<1>6. Step(d, r, "share_e") BY <1>0, <1>3, <1>5, IntStep
<1>7. IsCursor(r, D) /\ (r.ok => d.ok) /\ r.p["share_d"] = d.p["share_d"]
    BY <1>0, <1>6 DEF Keeps
<1>8. r.ok \in BOOLEAN /\ r.in \in Seq(Object) /\ r.p = [g \in D |-> r.p[g]]
    BY <1>7 DEF IsCursor
<1>9. ObjectOf("verify1", r.p) BY <1>8 DEF ObjectOf, D
<1>10. ASSUME r.ok PROVE r.p \in Shape("verify1")
    <2>1. r.p["share_d"] \in Field /\ r.p["share_e"] \in Field BY <1>4, <1>6, <1>7, <1>10
    <2> DEFINE q == r.p
    <2>2. q = [g \in D |-> q[g]] /\ q["share_d"] \in Field /\ q["share_e"] \in Field
        BY <1>8, <2>1
    <2> HIDE DEF q
    <2>3. q = [share_d |-> q["share_d"], share_e |-> q["share_e"]] BY <1>0, <2>2
    <2>4. q \in [share_d : Field, share_e : Field] BY <2>2, <2>3
    <2> QED BY <2>4 DEF Shape, q
<1>11. ASSUME NEW x \in Shape("verify1"), NEW w, w = PrioPacketVerify1_write(x)
       PROVE  w \in Seq(Object) /\ Len(w) = 2 /\ (Begins(s, w) => Back(s, w, x, r))
    <2>1. x.share_d \in Field /\ x.share_e \in Field /\ x = [g \in D |-> x[g]]
        BY <1>0 DEF Shape
    <2>2. serial_write_mp_int(x.share_d) \in Object /\ serial_write_mp_int(x.share_e) \in Object
        BY <2>1, IntObject
    <2>3. w = <<serial_write_mp_int(x.share_d), serial_write_mp_int(x.share_e)>>
        BY <1>11 DEF PrioPacketVerify1_write
    <2>4. /\ w \in Seq(Object) /\ Len(w) = 2 /\ w[1] = serial_write_mp_int(x.share_d)
          /\ w[2] = serial_write_mp_int(x.share_e)
        BY <2>2, <2>3
    <2>5. ASSUME Begins(s, w) PROVE Back(s, w, x, r)
        <3>1. /\ 0 < Len(s) /\ s[0 + 1] = serial_write_mp_int(x.share_d) /\ 0 \in Nat /\ 0 + 1 = 1
              /\ 1 < Len(s) /\ s[1 + 1] = serial_write_mp_int(x.share_e) /\ 1 \in Nat /\ 1 + 1 = 2
            BY <2>4, <2>5 DEF Begins
        <3>2. At(d, s, 0 + 1) /\ d.p["share_d"] = x.share_d BY <1>2, <1>4, <2>1, <3>1
        <3>3. At(r, s, 1 + 1) /\ r.p["share_e"] = x.share_e
            <4>1. At(d, s, 1) BY <3>1, <3>2
            <4> QED BY <1>6, <2>1, <3>1, <4>1
        <3>4. \A g \in D : r.p[g] = x[g] BY <1>0, <1>7, <3>2, <3>3
        <3>5. r.p = x BY <1>8, <2>1, <3>4
        <3> QED BY <2>4, <3>1, <3>3, <3>5 DEF Back, At
    <2> QED BY <2>4, <2>5
<1> QED BY <1>8, <1>9, <1>10, <1>11 DEF Returned

LEMMA ReadsVerify2 ==
    ASSUME NEW p, ObjectOf("verify2", p), NEW s \in Seq(Object),
           NEW r, r = PrioPacketVerify2_read(Cursor(s, p))
    PROVE  /\ Returned("verify2", r)
           /\ \A x \in Shape("verify2") :
                  LET w == PrioPacketVerify2_write(x)
                  IN  w \in Seq(Object) /\ Len(w) = 1 /\ (Begins(s, w) => Back(s, w, x, r))
<1> DEFINE D == Fields("verify2")
           c == Cursor(s, p)
<1>0. D = {"share_out"} BY DEF Fields
<1>1. p = [g \in D |-> p[g]] BY DEF ObjectOf
<1> HIDE DEF D
<1>2. IsCursor(c, D) /\ At(c, s, 0) BY <1>1, CursorIs
<1>3. r = serial_read_mp_int(c, "share_out") BY DEF PrioPacketVerify2_read
<1> HIDE DEF c
<1> DEFINE Step(u, v, f) ==
        /\ Keeps(u, v, D, f) /\ (v.ok => v.p[f] \in Field)
        /\ \A t \in Seq(Object), n \in Field, j \in Nat :
               j < Len(t) /\ At(u, t, j) /\ t[j + 1] = serial_write_mp_int(n)
                   => At(v, t, j + 1) /\ v.p[f] = n
<1>4. Step(c, r, "share_out") BY <1>0, <1>2, <1>3, IntStep
<1>5. IsCursor(r, D) BY <1>4 DEF Keeps
<1>6. r.ok \in BOOLEAN /\ r.in \in Seq(Object) /\ r.p = [g \in D |-> r.p[g]]
    BY <1>5 DEF IsCursor
<1>7. ObjectOf("verify2", r.p) BY <1>6 DEF ObjectOf, D
<1>8. ASSUME r.ok PROVE r.p \in Shape("verify2")
    <2>1. r.p["share_out"] \in Field BY <1>4, <1>8
    <2> DEFINE q == r.p
    <2>2. q = [g \in D |-> q[g]] /\ q["share_out"] \in Field BY <1>6, <2>1
    <2> HIDE DEF q
    <2>3. q = [share_out |-> q["share_out"]] BY <1>0, <2>2
    <2>4. q \in [share_out : Field] BY <2>2, <2>3
    <2> QED BY <2>4 DEF Shape, q
<1>9. ASSUME NEW x \in Shape("verify2"), NEW w, w = PrioPacketVerify2_write(x)
      PROVE  w \in Seq(Object) /\ Len(w) = 1 /\ (Begins(s, w) => Back(s, w, x, r))
    <2>1. x.share_out \in Field /\ x = [g \in D |-> x[g]] BY <1>0 DEF Shape
    <2>2. serial_write_mp_int(x.share_out) \in Object BY <2>1, IntObject
    <2>3. w = <<serial_write_mp_int(x.share_out)>> BY <1>9 DEF PrioPacketVerify2_write
    <2>4. w \in Seq(Object) /\ Len(w) = 1 /\ w[1] = serial_write_mp_int(x.share_out)
        BY <2>2, <2>3
    <2>5. ASSUME Begins(s, w) PROVE Back(s, w, x, r)
        <3>1. 0 < Len(s) /\ s[0 + 1] = serial_write_mp_int(x.share_out) /\ 0 \in Nat /\ 0 + 1 = 1
            BY <2>4, <2>5 DEF Begins
        <3>2. At(r, s, 0 + 1) /\ r.p["share_out"] = x.share_out BY <1>2, <1>4, <2>1, <3>1
        <3>3. \A g \in D : r.p[g] = x[g] BY <1>0, <3>2
        <3>4. r.p = x BY <1>6, <2>1, <3>3
        <3> QED BY <2>4, <3>1, <3>2, <3>4 DEF Back, At
    <2> QED BY <2>4, <2>5
<1> QED BY <1>6, <1>7, <1>8, <1>9 DEF Returned

LEMMA ReadsTotal ==
    ASSUME NEW p, ObjectOf("total", p), NEW s \in Seq(Object),
           NEW r, r = PrioTotalShare_read(Cursor(s, p))
    PROVE  /\ Returned("total", r)
           /\ \A x \in Shape("total") :
                  LET w == PrioTotalShare_write(x)
                  IN  w \in Seq(Object) /\ Len(w) = 2 /\ (Begins(s, w) => Back(s, w, x, r))
<1> DEFINE D == Fields("total")
           c == Cursor(s, p)
           d == serial_read_server_id(c, "idx", Server)
<1>0. D = {"idx", "data_shares"} BY DEF Fields
<1>1. p = [g \in D |-> p[g]] BY DEF ObjectOf
<1> HIDE DEF D
<1>2. IsCursor(c, D) /\ At(c, s, 0) BY <1>1, CursorIs
<1>3. /\ d = serial_read_server_id(c, "idx", Server)
      /\ r = serial_read_mp_array(d, "data_shares", NumFields)
    BY DEF PrioTotalShare_read
<1> HIDE DEF c, d
<1>4. /\ Keeps(c, d, D, "idx") /\ (d.ok => d.p["idx"] \in Server \cap Server)
      /\ \A n \in Server \cap Server : Next1(c, PosInt(n)) => Moved(c, d) /\ d.p["idx"] = n
    BY <1>0, <1>2, <1>3, ServerIdRead
<1>5. IsCursor(d, D) BY <1>4 DEF Keeps
<1>6. ArrayReads(d, r, D, "data_shares", NumFields)
    BY <1>0, <1>3, <1>5, Lengths2, ArrayStep
<1>7. IsCursor(r, D) /\ (r.ok => d.ok) /\ r.p["idx"] = d.p["idx"]
    BY <1>0, <1>6 DEF ArrayReads, Keeps
<1>8. r.ok \in BOOLEAN /\ r.in \in Seq(Object) /\ r.p = [g \in D |-> r.p[g]]
    BY <1>7 DEF IsCursor
<1>9. ObjectOf("total", r.p) BY <1>8 DEF ObjectOf, D
<1>10. ASSUME r.ok PROVE r.p \in Shape("total")
    <2>1. r.p["idx"] \in Server /\ r.p["data_shares"] \in Arrays(NumFields)
        BY <1>4, <1>6, <1>7, <1>10 DEF ArrayReads
    <2> DEFINE q == r.p
    <2>2. /\ q = [g \in D |-> q[g]] /\ q["idx"] \in Server
          /\ q["data_shares"] \in Arrays(NumFields)
        BY <1>8, <2>1
    <2> HIDE DEF q
    <2>3. q = [idx |-> q["idx"], data_shares |-> q["data_shares"]] BY <1>0, <2>2
    <2>4. q \in [idx : Server, data_shares : Arrays(NumFields)] BY <2>2, <2>3
    <2> QED BY <2>4 DEF Shape, q
<1>11. ASSUME NEW x \in Shape("total"), NEW w, w = PrioTotalShare_write(x)
       PROVE  w \in Seq(Object) /\ Len(w) = 2 /\ (Begins(s, w) => Back(s, w, x, r))
    <2>1. x.idx \in Server /\ x.data_shares \in Arrays(NumFields) /\ x = [g \in D |-> x[g]]
        BY <1>0 DEF Shape
    <2>2. PosInt(x.idx) \in Object /\ serial_write_mp_array(x.data_shares) \in Object
        <3>1. x.idx \in Int BY <2>1 DEF Server, PRIO_SERVER_A, PRIO_SERVER_B
        <3> QED BY <2>1, <3>1, Lengths2, PosIntObject, WrittenArray
    <2>3. w = <<PosInt(x.idx), serial_write_mp_array(x.data_shares)>>
        BY <1>11 DEF PrioTotalShare_write
    <2>4. /\ w \in Seq(Object) /\ Len(w) = 2 /\ w[1] = PosInt(x.idx)
          /\ w[2] = serial_write_mp_array(x.data_shares)
        BY <2>2, <2>3
    <2>5. ASSUME Begins(s, w) PROVE Back(s, w, x, r)
        <3>1. /\ 0 < Len(s) /\ s[0 + 1] = PosInt(x.idx) /\ 0 \in Nat /\ 0 + 1 = 1
              /\ 1 < Len(s) /\ s[1 + 1] = serial_write_mp_array(x.data_shares)
              /\ 1 \in Nat /\ 1 + 1 = 2
            BY <2>4, <2>5 DEF Begins
        <3>2. Next1(c, s[0 + 1]) /\ \A q : Moved(c, q) => At(q, s, 0 + 1)
            BY <1>2, <3>1, AtNext
        <3>3. Moved(c, d) /\ d.p["idx"] = x.idx BY <1>4, <2>1, <3>1, <3>2
        <3>4. At(d, s, 1) BY <3>1, <3>2, <3>3
        <3>5. At(r, s, 1 + 1) /\ r.p["data_shares"] = x.data_shares
            BY <1>6, <2>1, <3>1, <3>4 DEF ArrayReads
        <3>6. \A g \in D : r.p[g] = x[g] BY <1>0, <1>7, <3>3, <3>5
        <3>7. r.p = x BY <1>8, <2>1, <3>6
        <3> QED BY <2>4, <3>1, <3>5, <3>7 DEF Back, At
    <2> QED BY <2>4, <2>5
<1> QED BY <1>8, <1>9, <1>10, <1>11 DEF Returned

-----------------------------------------------------------------------------
(* Every kind *)

Packets == {"packetA", "packetB"}

(* Written and Result, for the batch id of a configuration. *)
WrittenBy(k, x, id) ==
    CASE k \in Packets -> serial_write_packet_client(x, cfg_batch_id(id))
      [] k = "server"  -> PrioServer_write(x)
      [] k = "verify1" -> PrioPacketVerify1_write(x)
      [] k = "verify2" -> PrioPacketVerify2_write(x)
      [] k = "total"   -> PrioTotalShare_write(x)

ResultBy(k, c, id) ==
    CASE k \in Packets -> serial_read_packet_client(c, cfg_batch_id(id))
      [] k = "server"  -> PrioServer_read(c)
      [] k = "verify1" -> PrioPacketVerify1_read(c)
      [] k = "verify2" -> PrioPacketVerify2_read(c)
      [] k = "total"   -> PrioTotalShare_read(c)

LEMMA WrittenResult ==
    /\ \A k \in Kind : \A x : Written(k, x) = WrittenBy(k, x, writerId)
    /\ \A k \in Kind : \A c : Result(k, c) = ResultBy(k, c, readerId)
<1>1. \A k \in Kind : \A x : Written(k, x) = WrittenBy(k, x, writerId)
    BY DEF Written, WrittenBy, Packets
<1>2. \A k \in Kind : \A c : Result(k, c) = ResultBy(k, c, readerId)
    BY DEF Result, ResultBy, Packets
<1> QED BY <1>1, <1>2

LEMMA BatchOctets ==
    ASSUME NEW id \in Seq(OctetOf)
    PROVE  cfg_batch_id(id) \in Seq(OctetOf)
<1>1. 0 \in OctetOf BY RadixAssumption DEF OctetOf
<1>2. DOMAIN id = 1 .. Len(id) /\ Len(id) \in Nat /\ \A i \in 1 .. Len(id) : id[i] \in OctetOf
    OBVIOUS
<1> QED BY <1>1, <1>2 DEF cfg_batch_id

LEMMA WritesIs ==
    ASSUME NEW k \in Kind, NEW x \in Shape(k), NEW id \in Seq(OctetOf)
    PROVE  WrittenBy(k, x, id) \in Seq(Object) /\ Len(WrittenBy(k, x, id)) \in Nat \ {0}
<1> DEFINE w == WrittenBy(k, x, id)
<1>0. cfg_batch_id(id) \in Seq(OctetOf) BY BatchOctets
<1>1. CASE k = "packetA"
    <2>1. w = serial_write_packet_client(x, cfg_batch_id(id)) BY <1>1 DEF WrittenBy, Packets
    <2> HIDE DEF w
    <2>2. w \in Seq(Object) /\ Len(w) = 10 BY <1>0, <1>1, <2>1, WritesA
    <2> QED BY <2>2 DEF w
<1>2. CASE k = "packetB"
    <2>1. w = serial_write_packet_client(x, cfg_batch_id(id)) BY <1>2 DEF WrittenBy, Packets
    <2> HIDE DEF w
    <2>2. w \in Seq(Object) /\ Len(w) = 9 BY <1>0, <1>2, <2>1, WritesB
    <2> QED BY <2>2 DEF w
<1> DEFINE p == [g \in Fields(k) |-> 0]
<1>3. CASE k = "server"
    <2>1. w = PrioServer_write(x) BY <1>3 DEF WrittenBy, Packets
    <2>2. ObjectOf("server", [g \in Fields("server") |-> 0]) BY DEF ObjectOf
    <2>3. <<>> \in Seq(Object) OBVIOUS
    <2> HIDE DEF w
    <2>4. w \in Seq(Object) /\ Len(w) = 1 BY <1>3, <2>1, <2>2, <2>3, ReadsServer
    <2> QED BY <2>4 DEF w
<1>4. CASE k = "verify1"
    <2>1. w = PrioPacketVerify1_write(x) BY <1>4 DEF WrittenBy, Packets
    <2>2. ObjectOf("verify1", [g \in Fields("verify1") |-> 0]) BY DEF ObjectOf
    <2>3. <<>> \in Seq(Object) OBVIOUS
    <2> HIDE DEF w
    <2>4. w \in Seq(Object) /\ Len(w) = 2 BY <1>4, <2>1, <2>2, <2>3, ReadsVerify1
    <2> QED BY <2>4 DEF w
<1>5. CASE k = "verify2"
    <2>1. w = PrioPacketVerify2_write(x) BY <1>5 DEF WrittenBy, Packets
    <2>2. ObjectOf("verify2", [g \in Fields("verify2") |-> 0]) BY DEF ObjectOf
    <2>3. <<>> \in Seq(Object) OBVIOUS
    <2> HIDE DEF w
    <2>4. w \in Seq(Object) /\ Len(w) = 1 BY <1>5, <2>1, <2>2, <2>3, ReadsVerify2
    <2> QED BY <2>4 DEF w
<1>6. CASE k = "total"
    <2>1. w = PrioTotalShare_write(x) BY <1>6 DEF WrittenBy, Packets
    <2>2. ObjectOf("total", [g \in Fields("total") |-> 0]) BY DEF ObjectOf
    <2>3. <<>> \in Seq(Object) OBVIOUS
    <2> HIDE DEF w
    <2>4. w \in Seq(Object) /\ Len(w) = 2 BY <1>6, <2>1, <2>2, <2>3, ReadsTotal
    <2> QED BY <2>4 DEF w
<1> QED BY <1>1, <1>2, <1>3, <1>4, <1>5, <1>6 DEF Kind

(* Two configurations of one batch, or an object that names no batch. *)
Agree(k, wid, id) == cfg_batch_id(wid) = cfg_batch_id(id) \/ k \notin Packets

(* What was written and stands at the beginning is read, unless the        *)
(* batches differ.                                                         *)
LEMMA ReadIs ==
    ASSUME NEW k \in Kind, NEW p, ObjectOf(k, p), NEW s \in Seq(Object),
           NEW id \in Seq(OctetOf), NEW wid \in Seq(OctetOf),
           NEW r, r = ResultBy(k, Cursor(s, p), id)
    PROVE  /\ Returned(k, r)
           /\ \A x \in Shape(k) : Begins(s, WrittenBy(k, x, wid)) =>
                  IF Agree(k, wid, id) THEN Back(s, WrittenBy(k, x, wid), x, r) ELSE ~r.ok
<1>0. cfg_batch_id(id) \in Seq(OctetOf) /\ cfg_batch_id(wid) \in Seq(OctetOf) BY BatchOctets
<1>1. CASE k = "packetA"
    <2>1. r = serial_read_packet_client(Cursor(s, p), cfg_batch_id(id))
        BY <1>1 DEF ResultBy, Packets
    <2>2. \A x : WrittenBy(k, x, wid) = serial_write_packet_client(x, cfg_batch_id(wid))
        BY <1>1 DEF WrittenBy, Packets
    <2>3. Agree(k, wid, id) <=> cfg_batch_id(wid) = cfg_batch_id(id) BY <1>1 DEF Agree, Packets
    <2>4. Returned(k, r) BY <1>1, <2>1, ReadsA
    <2>5. ASSUME NEW x \in Shape(k), Begins(s, WrittenBy(k, x, wid))
          PROVE  IF Agree(k, wid, id) THEN Back(s, WrittenBy(k, x, wid), x, r) ELSE ~r.ok
        BY <1>0, <1>1, <2>1, <2>2, <2>3, <2>5, ReadsA
    <2> QED BY <2>4, <2>5
<1>2. CASE k = "packetB"
    <2>1. r = serial_read_packet_client(Cursor(s, p), cfg_batch_id(id))
        BY <1>2 DEF ResultBy, Packets
    <2>2. \A x : WrittenBy(k, x, wid) = serial_write_packet_client(x, cfg_batch_id(wid))
        BY <1>2 DEF WrittenBy, Packets
    <2>3. Agree(k, wid, id) <=> cfg_batch_id(wid) = cfg_batch_id(id) BY <1>2 DEF Agree, Packets
    <2>4. Returned(k, r) BY <1>2, <2>1, ReadsB
    <2>5. ASSUME NEW x \in Shape(k), Begins(s, WrittenBy(k, x, wid))
          PROVE  IF Agree(k, wid, id) THEN Back(s, WrittenBy(k, x, wid), x, r) ELSE ~r.ok
        BY <1>0, <1>2, <2>1, <2>2, <2>3, <2>5, ReadsB
    <2> QED BY <2>4, <2>5
<1>3. CASE k = "server"
    <2>1. r = PrioServer_read(Cursor(s, p)) BY <1>3 DEF ResultBy, Packets
    <2>2. \A x : WrittenBy(k, x, wid) = PrioServer_write(x) BY <1>3 DEF WrittenBy, Packets
    <2>3. Agree(k, wid, id) BY <1>3 DEF Agree, Packets
    <2>4. Returned(k, r) BY <1>3, <2>1, ReadsServer
    <2>5. ASSUME NEW x \in Shape(k), Begins(s, WrittenBy(k, x, wid))
          PROVE  Back(s, WrittenBy(k, x, wid), x, r)
        BY <1>3, <2>1, <2>2, <2>5, ReadsServer
    <2> QED BY <2>3, <2>4, <2>5
<1>4. CASE k = "verify1"
    <2>1. r = PrioPacketVerify1_read(Cursor(s, p)) BY <1>4 DEF ResultBy, Packets
    <2>2. \A x : WrittenBy(k, x, wid) = PrioPacketVerify1_write(x) BY <1>4 DEF WrittenBy, Packets
    <2>3. Agree(k, wid, id) BY <1>4 DEF Agree, Packets
    <2>4. Returned(k, r) BY <1>4, <2>1, ReadsVerify1
    <2>5. ASSUME NEW x \in Shape(k), Begins(s, WrittenBy(k, x, wid))
          PROVE  Back(s, WrittenBy(k, x, wid), x, r)
        BY <1>4, <2>1, <2>2, <2>5, ReadsVerify1
    <2> QED BY <2>3, <2>4, <2>5
<1>5. CASE k = "verify2"
    <2>1. r = PrioPacketVerify2_read(Cursor(s, p)) BY <1>5 DEF ResultBy, Packets
    <2>2. \A x : WrittenBy(k, x, wid) = PrioPacketVerify2_write(x) BY <1>5 DEF WrittenBy, Packets
    <2>3. Agree(k, wid, id) BY <1>5 DEF Agree, Packets
    <2>4. Returned(k, r) BY <1>5, <2>1, ReadsVerify2
    <2>5. ASSUME NEW x \in Shape(k), Begins(s, WrittenBy(k, x, wid))
          PROVE  Back(s, WrittenBy(k, x, wid), x, r)
        BY <1>5, <2>1, <2>2, <2>5, ReadsVerify2
    <2> QED BY <2>3, <2>4, <2>5
<1>6. CASE k = "total"
    <2>1. r = PrioTotalShare_read(Cursor(s, p)) BY <1>6 DEF ResultBy, Packets
    <2>2. \A x : WrittenBy(k, x, wid) = PrioTotalShare_write(x) BY <1>6 DEF WrittenBy, Packets
    <2>3. Agree(k, wid, id) BY <1>6 DEF Agree, Packets
    <2>4. Returned(k, r) BY <1>6, <2>1, ReadsTotal
    <2>5. ASSUME NEW x \in Shape(k), Begins(s, WrittenBy(k, x, wid))
          PROVE  Back(s, WrittenBy(k, x, wid), x, r)
        BY <1>6, <2>1, <2>2, <2>5, ReadsTotal
    <2> QED BY <2>3, <2>4, <2>5
<1> QED BY <1>1, <1>2, <1>3, <1>4, <1>5, <1>6 DEF Kind

-----------------------------------------------------------------------------
(* The stream as what was written: object i of q begins after cut[i - 1]   *)
(* objects of the stream and ends with its cut[i].                         *)

Piece(s, cut, i, e, id) ==
    /\ cut[i] = cut[i - 1] + Len(WrittenBy(e.kind, e.p, id))
    /\ \A j \in 1 .. Len(WrittenBy(e.kind, e.p, id)) :
           s[cut[i - 1] + j] = WrittenBy(e.kind, e.p, id)[j]

Cuts(s, q, id, cut) ==
    /\ cut \in [0 .. Len(q) -> 0 .. Len(s)]
    /\ cut[0] = 0 /\ cut[Len(q)] = Len(s)
    /\ \A i, j \in 0 .. Len(q) : i <= j => cut[i] <= cut[j]
    /\ \A i \in 1 .. Len(q) : Piece(s, cut, i, q[i], id)

Laid(s, q, id) == \E cut : Cuts(s, q, id, cut)

Entry == UNION {[kind : {k}, p : Shape(k)] : k \in Kind}

LEMMA EntryIs ==
    /\ \A k \in Kind : \A x \in Shape(k) : [kind |-> k, p |-> x] \in Entry
    /\ \A e \in Entry : e.kind \in Kind /\ e.p \in Shape(e.kind)
<1>1. ASSUME NEW k \in Kind, NEW x \in Shape(k) PROVE [kind |-> k, p |-> x] \in Entry
    <2>1. [kind |-> k, p |-> x] \in [kind : {k}, p : Shape(k)] OBVIOUS
    <2> QED BY <2>1 DEF Entry
<1>2. ASSUME NEW e \in Entry PROVE e.kind \in Kind /\ e.p \in Shape(e.kind)
    <2>1. PICK k \in Kind : e \in [kind : {k}, p : Shape(k)] BY DEF Entry
    <2>2. e.kind = k /\ e.p \in Shape(k) BY <2>1
    <2> QED BY <2>2
<1> QED BY <1>1, <1>2

LEMMA LaidEmpty == ASSUME NEW id PROVE Laid(<<>>, <<>>, id)
<1> DEFINE cut == [i \in 0 .. 0 |-> 0]
<1>1. Cuts(<<>>, <<>>, id, cut) BY DEF Cuts
<1> QED BY <1>1 DEF Laid

LEMMA LaidAppend ==
    ASSUME NEW s \in Seq(Object), NEW q \in Seq(Entry), NEW id \in Seq(OctetOf),
           Laid(s, q, id), NEW e \in Entry, NEW w, w = WrittenBy(e.kind, e.p, id),
           NEW t, t = s \o w, NEW u, u = Append(q, e)
    PROVE  Laid(t, u, id)
<1> DEFINE n == Len(q)
           l == Len(s)
           m == Len(w)
<1>1. n \in Nat /\ l \in Nat /\ u \in Seq(Entry) /\ Len(u) = n + 1 /\ u[n + 1] = e
    OBVIOUS
<1>2. \A i \in 1 .. n : u[i] = q[i] OBVIOUS
<1>3. w \in Seq(Object) /\ m \in Nat BY EntryIs, WritesIs
<1>4. /\ Len(t) = l + m /\ \A i \in 1 .. l : t[i] = s[i]
      /\ \A i \in 1 .. m : t[l + i] = w[i]
    <2>1. IsJoin(t, Object, s, l, w, m) BY <1>3, Joined
    <2> QED BY <2>1 DEF IsJoin
<1>5. PICK cut : Cuts(s, q, id, cut) BY DEF Laid
<1> HIDE DEF n, l, m
<1>6. /\ cut \in [0 .. n -> 0 .. l] /\ cut[0] = 0 /\ cut[n] = l
      /\ \A i, j \in 0 .. n : i <= j => cut[i] <= cut[j]
      /\ \A i \in 1 .. n : Piece(s, cut, i, q[i], id)
    BY <1>5 DEF Cuts, n, l
<1> DEFINE b == [i \in 0 .. n + 1 |-> IF i <= n THEN cut[i] ELSE l + m]
<1>7. \A i \in 0 .. n : b[i] = cut[i] /\ cut[i] \in 0 .. l BY <1>1, <1>6
<1>8. b[n + 1] = l + m /\ DOMAIN b = 0 .. n + 1 BY <1>1
<1>9. b \in [0 .. n + 1 -> 0 .. l + m]
    <2>1. ASSUME NEW i \in 0 .. n + 1
          PROVE  (IF i <= n THEN cut[i] ELSE l + m) \in 0 .. l + m
        <3>1. CASE i <= n
            <4>1. n \in Nat /\ l \in Nat BY <1>1
            <4>2. i \in 0 .. n BY <3>1, <4>1
            <4>3. cut[i] \in 0 .. l BY <1>7, <4>2
            <4>4. cut[i] \in 0 .. l + m BY <1>3, <4>1, <4>3
            <4> QED BY <3>1, <4>4
        <3>2. CASE ~ (i <= n) BY <1>1, <1>3, <3>2
        <3> QED BY <3>1, <3>2
    <2> QED BY <2>1
<1> HIDE DEF b
<1>10. ASSUME NEW i \in 0 .. n + 1, NEW j \in 0 .. n + 1, i <= j PROVE b[i] <= b[j]
    <2>1. CASE j <= n
        <3>1. i \in 0 .. n /\ j \in 0 .. n BY <1>1, <1>10, <2>1
        <3> QED BY <1>6, <1>7, <1>10, <3>1
    <2>2. CASE j = n + 1 BY <1>1, <1>3, <1>8, <1>9, <2>2
    <2> QED BY <1>1, <2>1, <2>2
<1>11. ASSUME NEW i \in 1 .. n + 1 PROVE Piece(t, b, i, u[i], id)
    <2>1. CASE i \in 1 .. n
        <3> DEFINE v == WrittenBy(q[i].kind, q[i].p, id)
        <3>1. Piece(s, cut, i, q[i], id) BY <1>6, <2>1
        <3>2. i \in 0 .. n /\ i - 1 \in 0 .. n BY <1>1, <2>1
        <3>3. b[i] = cut[i] /\ b[i - 1] = cut[i - 1] /\ cut[i] \in 0 .. l /\ cut[i - 1] \in 0 .. l
            BY <1>7, <3>2
        <3>4. q[i] \in Entry BY <2>1 DEF n
        <3>5. Len(v) \in Nat BY <3>4, EntryIs, WritesIs
        <3>6. cut[i] = cut[i - 1] + Len(v) /\ \A j \in 1 .. Len(v) : s[cut[i - 1] + j] = v[j]
            BY <3>1 DEF Piece
        <3> HIDE DEF v
        <3>7. ASSUME NEW j \in 1 .. Len(v) PROVE t[b[i - 1] + j] = v[j]
            <4>1. cut[i - 1] + j \in 1 .. l
                <5>1. cut[i - 1] \in Nat /\ cut[i] \in Nat /\ cut[i] <= l /\ l \in Nat
                    BY <1>1, <3>3
                <5>2. cut[i] = cut[i - 1] + Len(v) /\ j \in Nat /\ j >= 1 /\ j <= Len(v)
                    BY <3>5, <3>6
                <5>3. cut[i - 1] + j >= 1 /\ cut[i - 1] + j <= l /\ cut[i - 1] + j \in Int
                    <6>1. \A x, y, z, L \in Nat : y = x + z /\ y <= L /\ z >= j
                              => x + j >= 1 /\ x + j <= L /\ x + j \in Int
                        BY <5>2
                    <6> QED BY <3>5, <5>1, <5>2, <6>1
                <5> QED BY <5>1, <5>3
            <4> QED BY <1>4, <3>3, <3>6, <4>1
        <3>8. u[i] = q[i] BY <1>2, <2>1
        <3> QED BY <3>3, <3>6, <3>7, <3>8 DEF Piece, v
    <2>2. CASE i = n + 1
        <3>1. i - 1 = n /\ n \in 0 .. n BY <1>1, <2>2
        <3>2. b[i - 1] = l /\ b[i] = l + m BY <1>6, <1>7, <1>8, <2>2, <3>1
        <3>3. u[i] = e BY <1>1, <2>2
        <3> QED BY <1>4, <3>2, <3>3 DEF Piece, m
    <2> QED BY <1>1, <2>1, <2>2
<1>12. b[0] = 0 BY <1>1, <1>6, <1>7
<1>13. Cuts(t, u, id, b)
    BY <1>1, <1>4, <1>8, <1>9, <1>10, <1>11, <1>12 DEF Cuts
<1> QED BY <1>13 DEF Laid

LEMMA LaidFirst ==
    ASSUME NEW s \in Seq(Object), NEW q \in Seq(Entry), NEW id \in Seq(OctetOf),
           Laid(s, q, id), q # <<>>, NEW w, w = WrittenBy(q[1].kind, q[1].p, id)
    PROVE  Begins(s, w) /\ Laid(Rest(s, Len(w)), Tail(q), id)
<1> DEFINE n == Len(q)
           l == Len(s)
           m == Len(w)
           t == Rest(s, m)
           u == Tail(q)
<1>1. /\ n \in Nat /\ n >= 1 /\ l \in Nat /\ u \in Seq(Entry) /\ Len(u) = n - 1
      /\ \A i \in 1 .. n - 1 : u[i] = q[i + 1]
    BY HeadTailProperties
<1>2. q[1] \in Entry BY <1>1
<1>3. w \in Seq(Object) /\ m \in Nat BY <1>2, EntryIs, WritesIs
<1>4. PICK cut : Cuts(s, q, id, cut) BY DEF Laid
<1> HIDE DEF n, l, m, u
<1>5. /\ cut \in [0 .. n -> 0 .. l] /\ cut[0] = 0 /\ cut[n] = l
      /\ \A i, j \in 0 .. n : i <= j => cut[i] <= cut[j]
      /\ \A i \in 1 .. n : Piece(s, cut, i, q[i], id)
    BY <1>4 DEF Cuts, n, l
<1>6. cut[1] = m /\ (\A j \in 1 .. m : s[j] = w[j])
    <2>1. Piece(s, cut, 1, q[1], id) BY <1>1, <1>5
    <2>2. cut[1] = cut[1 - 1] + m /\ \A j \in 1 .. m : s[cut[1 - 1] + j] = w[j]
        BY <2>1 DEF Piece, m
    <2>3. 1 - 1 = 0 /\ \A j \in 1 .. m : 0 + j = j BY <1>3
    <2> QED BY <1>3, <1>5, <2>2, <2>3
<1>7. m \in 0 .. l BY <1>1, <1>5, <1>6
<1>8. Begins(s, w) BY <1>3, <1>6, <1>7 DEF Begins, m, l
<1>9. Len(t) = l - m /\ \A i \in 1 .. l - m : t[i] = s[m + i] BY <1>7, RestIs DEF l
<1> HIDE DEF t
<1> DEFINE b == [i \in 0 .. n - 1 |-> cut[i + 1] - m]
<1>10. \A i \in 0 .. n - 1 : i + 1 \in 1 .. n /\ i + 1 \in 0 .. n /\ 1 \in 0 .. n BY <1>1
<1>11. \A i \in 0 .. n - 1 : b[i] = cut[i + 1] - m /\ cut[i + 1] \in m .. l
    <2>1. \A i \in 0 .. n - 1 : cut[1] <= cut[i + 1] /\ cut[i + 1] \in 0 .. l
        BY <1>1, <1>5, <1>10
    <2> QED BY <1>1, <1>3, <1>6, <2>1
<1>12. b \in [0 .. n - 1 -> 0 .. l - m]
    <2>1. \A i \in 0 .. n - 1 : cut[i + 1] - m \in 0 .. l - m BY <1>1, <1>3, <1>11
    <2> QED BY <2>1
<1> HIDE DEF b
<1>13. b[0] = 0 /\ b[n - 1] = l - m
    <2>1. 0 \in 0 .. n - 1 /\ n - 1 \in 0 .. n - 1 /\ n - 1 + 1 = n /\ 0 + 1 = 1 BY <1>1
    <2>2. b[0] = cut[1] - m /\ b[n - 1] = cut[n] - m BY <1>11, <2>1
    <2> QED BY <1>3, <1>5, <1>6, <2>2
<1>14. ASSUME NEW i \in 0 .. n - 1, NEW j \in 0 .. n - 1, i <= j PROVE b[i] <= b[j]
    <2>1. cut[i + 1] <= cut[j + 1] BY <1>1, <1>5, <1>10, <1>14
    <2>2. b[i] = cut[i + 1] - m /\ b[j] = cut[j + 1] - m BY <1>11
    <2>3. cut[i + 1] \in 0 .. l /\ cut[j + 1] \in 0 .. l BY <1>5, <1>10
    <2>4. m \in Int /\ cut[i + 1] \in Int /\ cut[j + 1] \in Int BY <1>3, <2>3
    <2> QED BY <2>1, <2>2, <2>4
<1>15. ASSUME NEW i \in 1 .. n - 1 PROVE Piece(t, b, i, u[i], id)
    <2> DEFINE v == WrittenBy(u[i].kind, u[i].p, id)
    <2>1. i \in 0 .. n - 1 /\ i - 1 \in 0 .. n - 1 /\ i - 1 + 1 = i /\ i + 1 \in 1 .. n
          /\ (i + 1) - 1 = i
        BY <1>1
    <2>2. Piece(s, cut, i + 1, u[i], id) BY <1>1, <1>5, <2>1
    <2>3. /\ cut[i + 1] = cut[(i + 1) - 1] + Len(v)
          /\ \A j \in 1 .. Len(v) : s[cut[(i + 1) - 1] + j] = v[j]
        BY <2>2 DEF Piece
    <2>4. /\ b[i] = cut[i + 1] - m /\ cut[i + 1] \in m .. l
          /\ b[i - 1] = cut[i - 1 + 1] - m /\ cut[i - 1 + 1] \in m .. l
        BY <1>11, <2>1
    <2>5. u[i] \in Entry BY <1>1
    <2>6. Len(v) \in Nat BY <2>5, EntryIs, WritesIs
    <2> HIDE DEF v
    <2>7. b[i] = b[i - 1] + Len(v)
        <3>1. b[i] = cut[i + 1] - m /\ b[i - 1] = cut[i] - m /\ cut[i + 1] = cut[i] + Len(v)
            BY <2>1, <2>3, <2>4
        <3>2. cut[i] \in Int /\ m \in Int /\ Len(v) \in Int BY <1>1, <1>3, <2>1, <2>4, <2>6
        <3> QED BY <3>1, <3>2
    <2>8. ASSUME NEW j \in 1 .. Len(v) PROVE t[b[i - 1] + j] = v[j]
        <3>1. s[cut[i] + j] = v[j] BY <2>1, <2>3
        <3>2. b[i - 1] + j \in 1 .. l - m /\ m + (b[i - 1] + j) = cut[i] + j
            <4>1. b[i - 1] = cut[i] - m /\ cut[i] \in m .. l /\ cut[i + 1] \in m .. l
                BY <2>1, <2>4
            <4>2. cut[i + 1] = cut[i] + Len(v) BY <2>1, <2>3
            <4>3. ASSUME NEW x \in Int, NEW y \in Int, x \in m .. l, y \in m .. l, y = x + Len(v)
                  PROVE  (x - m) + j \in 1 .. l - m /\ m + ((x - m) + j) = x + j
                <5>1. l \in Nat /\ m \in Nat /\ j \in Nat /\ j >= 1 /\ j <= Len(v) /\ Len(v) \in Nat
                    BY <1>1, <1>3, <2>6
                <5>2. m <= x /\ y <= l /\ j >= 1 /\ x + j <= y BY <4>3, <5>1
                <5>3. (x - m) + j >= 1 /\ (x - m) + j <= l - m BY <5>1, <5>2
                <5> QED BY <5>1, <5>3
            <4>4. cut[i] \in Int /\ cut[i + 1] \in Int BY <4>1
            <4> QED BY <4>1, <4>2, <4>3, <4>4
        <3>3. t[b[i - 1] + j] = s[m + (b[i - 1] + j)] BY <1>9, <3>2
        <3> QED BY <3>1, <3>2, <3>3
    <2> QED BY <2>7, <2>8 DEF Piece, v
<1>16. Cuts(t, u, id, b) BY <1>1, <1>9, <1>12, <1>13, <1>14, <1>15 DEF Cuts
<1>17. Laid(t, u, id) BY <1>16 DEF Laid
<1> QED BY <1>8, <1>17 DEF t, u, m

-----------------------------------------------------------------------------
(* Altered streams are streams, and what is made anew is well shaped. *)

LEMMA FrontIs ==
    ASSUME NEW S, NEW s \in Seq(S), s # <<>>
    PROVE  Front(s) \in Seq(S)
<1>1. 1 \in Int /\ Len(s) - 1 \in Int /\ \A i \in 1 .. Len(s) - 1 : i \in 1 .. Len(s) OBVIOUS
<1>2. \A i \in 1 .. Len(s) - 1 : s[i] \in S BY <1>1, ElementOfSeq
<1>3. SubSeq(s, 1, Len(s) - 1) \in Seq(S) BY <1>1, <1>2, SubSeqProperties
<1> QED BY <1>3 DEF Front

LEMMA AlteredObject ==
    ASSUME NEW o \in Object, NEW y \in Altered(o)
    PROVE  y \in Object
<1>0. Nil \in Element /\ Nil \in Object BY DEF Element, Object
<1>1. Modulus \in Nat BY ModulusAssumption
<1>2. Str(mp_to_octets(Modulus)) \in Element
    <2>1. mp_to_octets(Modulus) \in Seq(OctetOf) BY <1>1, OctetsExact
    <2> QED BY <2>1 DEF Str, Element
<1>3. CASE y = Nil BY <1>0, <1>3
<1>4. CASE o.type = "str" /\ y # Nil
    <2>1. y \in {Str(mp_to_octets(Modulus)), Str(<<0>> \o o.str), Str(<<>>)} BY <1>4 DEF Altered
    <2>2. o.str \in Seq(OctetOf) /\ <<0>> \in Seq(OctetOf) /\ <<>> \in Seq(OctetOf)
        BY <1>4, ObjectIs, RadixAssumption DEF OctetOf
    <2>3. <<0>> \o o.str \in Seq(OctetOf) BY <2>2, ConcatProperties
    <2>4. Str(mp_to_octets(Modulus)) \in Object BY <1>2, ElementIs
    <2> QED BY <2>1, <2>2, <2>3, <2>4, StrObject
<1>5. CASE o.type = "int" /\ y # Nil
    <2>1. y \in {PosInt(o.int + IntRange), PosInt(1 - o.int), PosInt(o.int + 2)}
        BY <1>5 DEF Altered
    <2>2. o.int \in Int /\ IntRange \in Int BY <1>5, ObjectIs, SerialAssumption
    <2>3. o.int + IntRange \in Int /\ 1 - o.int \in Int /\ o.int + 2 \in Int BY <2>2
    <2> QED BY <2>1, <2>3, PosIntObject
<1>6. CASE o.type = "array" /\ y # Nil
    <2>1. CASE o.array = <<>>
        <3>1. y \in {} BY <1>6, <2>1 DEF Altered
        <3> QED BY <3>1
    <2>2. CASE o.array # <<>>
        <3> DEFINE f == Front(o.array)
        <3>1. y \in {Arr(f), Arr(Append(f, Str(mp_to_octets(Modulus)))), Arr(<<Nil>> \o Tail(o.array))}
            BY <1>6, <2>2 DEF Altered
        <3>2. o.array \in Seq(Element) BY <1>6, ObjectIs
        <3>3. f \in Seq(Element) BY <2>2, <3>2, FrontIs
        <3> HIDE DEF f
        <3>4. Append(f, Str(mp_to_octets(Modulus))) \in Seq(Element) BY <1>2, <3>3
        <3>5. <<Nil>> \o Tail(o.array) \in Seq(Element)
            <4>1. Tail(o.array) \in Seq(Element) /\ <<Nil>> \in Seq(Element)
                BY <1>0, <2>2, <3>2, HeadTail
            <4> QED BY <4>1, ConcatProperties
        <3>6. \A a \in Seq(Element) : Arr(a) \in Object BY DEF Arr, Object
        <3> QED BY <3>1, <3>3, <3>4, <3>5, <3>6
    <2> QED BY <2>1, <2>2
<1>7. CASE o.type \notin {"str", "int", "array"} /\ y # Nil
    <2>1. y \in {} BY <1>7 DEF Altered
    <2> QED BY <2>1
<1> QED BY <1>3, <1>4, <1>5, <1>6, <1>7

(* The same of the array of a server or of a packet just made. *)
LEMMA NewArray ==
    ASSUME NEW len \in Nat
    PROVE  MPArray_new(len) \in Arrays(len)
<1>1. 0 \in Field BY ModulusAssumption DEF Field
<1> QED BY <1>1 DEF MPArray_new, Arrays

LEMMA FreshIs ==
    ASSUME NEW k \in Kind
    PROVE  ObjectOf(k, Fresh(k)) /\ (k # "total" => Fresh(k) \in Shape(k))
<1>0. 0 \in Field BY ModulusAssumption DEF Field
<1>1. MPArray_new(NumFields) \in Arrays(NumFields)
      /\ MPArray_new(PrioConfig_hPoints) \in Arrays(PrioConfig_hPoints)
    BY Lengths2, NewArray
<1>2. CASE k = "packetA"
    <2>1. ObjectOf(k, Fresh(k)) BY <1>2 DEF ObjectOf, Fresh, Fields
    <2>2. Fresh(k) \in Shape(k) BY <1>0, <1>1, <1>2 DEF Fresh, Shape
    <2> QED BY <2>1, <2>2
<1>3. CASE k = "packetB"
    <2>1. ObjectOf(k, Fresh(k)) BY <1>3 DEF ObjectOf, Fresh, Fields
    <2>2. [i \in 1 .. PRG_SEED_LENGTH |-> 0] \in [1 .. PRG_SEED_LENGTH -> 0 .. Radix - 1]
        BY SerialAssumption, RadixAssumption
    <2>3. Fresh(k) \in Shape(k) BY <1>0, <1>3, <2>2 DEF Fresh, Shape
    <2> QED BY <2>1, <2>3
<1>4. CASE k \in {"server", "verify1", "verify2"}
    <2>1. ObjectOf(k, Fresh(k)) BY <1>4 DEF ObjectOf, Fresh, Fields
    <2>2. Fresh(k) \in Shape(k) BY <1>0, <1>1, <1>4 DEF Fresh, Shape
    <2> QED BY <2>1, <2>2
<1>5. CASE k = "total" BY <1>5 DEF ObjectOf, Fresh, Fields
<1> QED BY <1>2, <1>3, <1>4, <1>5 DEF Kind

-----------------------------------------------------------------------------
(* The inductive invariant of the stream (PrioStream): what a reader has   *)
(* is of its kind, and might have been written if the last read into it    *)
(* succeeded; until something goes wrong the stream is what was written.   *)

StreamTypes ==
    /\ stream \in Seq(Object) /\ pending \in Seq(Entry) /\ intact \in BOOLEAN
    /\ writerId \in Seq(OctetOf) /\ readerId \in Seq(OctetOf)

ReaderObjects ==
    /\ obj = [k \in Kind |-> obj[k]] /\ state = [k \in Kind |-> state[k]]
    /\ \A k \in Kind :
           /\ ObjectOf(k, obj[k]) /\ state[k] \in {"new", "success", "failure"}
           /\ state[k] = "new" => obj[k] = Fresh(k)
           /\ state[k] = "success" => obj[k] \in Shape(k)

NothingLost == intact => Laid(stream, pending, writerId)

StreamInv == StreamTypes /\ ReaderObjects /\ NothingLost /\ RoundTrip

LEMMA StreamInvInit == StreamInit => StreamInv
<1> SUFFICES ASSUME StreamInit PROVE StreamInv OBVIOUS
<1> USE DEF StreamInit
<1>1. StreamTypes
    <2>1. BatchIds \subseteq Seq(OctetOf) BY StreamAssumption DEF OctetOf
    <2> QED BY <2>1 DEF StreamTypes
<1>2. ReaderObjects
    <2>1. \A k \in Kind : obj[k] = Fresh(k) /\ state[k] = "new" OBVIOUS
    <2>2. \A k \in Kind : ObjectOf(k, Fresh(k)) BY FreshIs
    <2>3. obj = [k \in Kind |-> obj[k]] /\ state = [k \in Kind |-> state[k]] OBVIOUS
    <2> QED BY <2>1, <2>2, <2>3 DEF ReaderObjects
<1>3. NothingLost BY LaidEmpty DEF NothingLost
<1>4. RoundTrip BY DEF RoundTrip, NoRead
<1> QED BY <1>1, <1>2, <1>3, <1>4 DEF StreamInv

(* A step that leaves the reader alone. *)
LEMMA ReaderKept ==
    ASSUME StreamInv, UNCHANGED <<writerId, readerId, obj, state, last>>
    PROVE  ReaderObjects' /\ RoundTrip' /\ writerId' \in Seq(OctetOf) /\ readerId' \in Seq(OctetOf)
<1>1. ReaderObjects' BY DEF StreamInv, ReaderObjects
<1>2. RoundTrip' BY DEF StreamInv, RoundTrip, SameBatch
<1> QED BY <1>1, <1>2 DEF StreamInv, StreamTypes

LEMMA WriteKeeps ==
    ASSUME StreamInv, NEW k \in Kind, Write(k)
    PROVE  StreamInv'
<1>1. PICK x \in Sample[k] : /\ stream' = stream \o Written(k, x)
                             /\ pending' = Append(pending, [kind |-> k, p |-> x])
    BY DEF Write
<1> DEFINE e == [kind |-> k, p |-> x]
           w == WrittenBy(e.kind, e.p, writerId)
<1>2. UNCHANGED <<writerId, readerId, obj, state, intact, last>> BY DEF Write
<1>3. /\ stream \in Seq(Object) /\ pending \in Seq(Entry) /\ writerId \in Seq(OctetOf)
      /\ intact \in BOOLEAN /\ NothingLost
    BY DEF StreamInv, StreamTypes
<1>4. x \in Shape(k) BY StreamAssumption
<1>5. e \in Entry /\ e.kind = k /\ e.p = x BY <1>4, EntryIs
<1>6. Written(k, x) = w BY <1>5, WrittenResult
<1> HIDE DEF e
<1>7. w \in Seq(Object) BY <1>3, <1>4, <1>5, WritesIs
<1> HIDE DEF w
<1>8. stream' = stream \o w /\ pending' = Append(pending, e) BY <1>1, <1>6 DEF e
<1>9. stream' \in Seq(Object) /\ pending' \in Seq(Entry) BY <1>3, <1>5, <1>7, <1>8
<1>10. NothingLost'
    <2>1. ASSUME intact PROVE Laid(stream', pending', writerId)
        <3>1. Laid(stream, pending, writerId) BY <1>3, <2>1 DEF NothingLost
        <3>2. w = WrittenBy(e.kind, e.p, writerId) BY DEF w
        <3> QED BY <1>3, <1>5, <1>8, <3>1, <3>2, LaidAppend
    <2> QED BY <1>2, <2>1 DEF NothingLost
<1>11. StreamTypes' BY <1>2, <1>3, <1>9, ReaderKept DEF StreamTypes
<1> QED BY <1>2, <1>10, <1>11, ReaderKept DEF StreamInv

(* What a read returns, stores and leaves. *)
LEMMA ReadKeeps ==
    ASSUME StreamInv, NEW k \in Kind, Read(k)
    PROVE  StreamInv'
<1> DEFINE res     == Result(k, Cursor(stream, obj[k]))
           matches == intact /\ pending # <<>> /\ pending[1].kind = k
           x       == pending[1].p
           w       == WrittenBy(k, x, writerId)
<1>1. /\ stream' = res.in /\ obj' = [obj EXCEPT ![k] = res.p]
      /\ state' = [state EXCEPT ![k] = IF res.ok THEN "success" ELSE "failure"]
      /\ last' = [kind |-> k, rv |-> res.ok, want |-> IF matches THEN <<x>> ELSE <<>>]
      /\ intact' = (matches /\ res.ok)
      /\ pending' = IF matches THEN Tail(pending) ELSE <<>>
      /\ writerId' = writerId /\ readerId' = readerId
    BY DEF Read
<1>2. /\ stream \in Seq(Object) /\ pending \in Seq(Entry) /\ intact \in BOOLEAN
      /\ writerId \in Seq(OctetOf) /\ readerId \in Seq(OctetOf)
      /\ NothingLost /\ ReaderObjects
    BY DEF StreamInv, StreamTypes
<1>3. res = ResultBy(k, Cursor(stream, obj[k]), readerId) BY WrittenResult
<1> HIDE DEF res
<1>4. ObjectOf(k, obj[k]) BY <1>2 DEF ReaderObjects
<1>5. /\ Returned(k, res)
      /\ \A y \in Shape(k) : Begins(stream, WrittenBy(k, y, writerId)) =>
             IF Agree(k, writerId, readerId) THEN Back(stream, WrittenBy(k, y, writerId), y, res)
             ELSE ~res.ok
    BY <1>2, <1>3, <1>4, ReadIs
<1>6. /\ res.ok \in BOOLEAN /\ res.in \in Seq(Object) /\ ObjectOf(k, res.p)
      /\ res.ok => res.p \in Shape(k)
    BY <1>5 DEF Returned
<1>7. matches \in BOOLEAN OBVIOUS
<1>8. ASSUME matches
      PROVE  /\ x \in Shape(k) /\ Tail(pending) \in Seq(Entry)
             /\ IF Agree(k, writerId, readerId) THEN Back(stream, w, x, res) ELSE ~res.ok
             /\ Laid(Rest(stream, Len(w)), Tail(pending), writerId)
    <2>1. pending # <<>> /\ pending[1].kind = k /\ Laid(stream, pending, writerId)
        BY <1>2, <1>8 DEF NothingLost
    <2>2. pending[1] \in Entry /\ Tail(pending) \in Seq(Entry) BY <1>2, <2>1
    <2>3. x \in Shape(k) BY <2>1, <2>2, EntryIs
    <2>4. w = WrittenBy(pending[1].kind, pending[1].p, writerId) BY <2>1
    <2> HIDE DEF w
    <2>5. Begins(stream, w) /\ Laid(Rest(stream, Len(w)), Tail(pending), writerId)
        BY <1>2, <2>1, <2>4, LaidFirst
    <2>6. IF Agree(k, writerId, readerId) THEN Back(stream, w, x, res) ELSE ~res.ok
        BY <1>5, <2>3, <2>5 DEF w
    <2> QED BY <2>2, <2>3, <2>5, <2>6
<1> HIDE DEF matches, x, w
<1>9. StreamTypes'
    <2>1. stream' \in Seq(Object) BY <1>1, <1>6
    <2>2. pending' \in Seq(Entry) BY <1>1, <1>7, <1>8
    <2>3. intact' \in BOOLEAN BY <1>1, <1>6, <1>7
    <2> QED BY <1>1, <1>2, <2>1, <2>2, <2>3 DEF StreamTypes
<1>10. ReaderObjects'
    <2>1. /\ obj = [i \in Kind |-> obj[i]] /\ state = [i \in Kind |-> state[i]]
          /\ \A i \in Kind : /\ ObjectOf(i, obj[i]) /\ state[i] \in {"new", "success", "failure"}
                             /\ state[i] = "new" => obj[i] = Fresh(i)
                             /\ state[i] = "success" => obj[i] \in Shape(i)
        BY <1>2 DEF ReaderObjects
    <2>2. /\ obj' = [i \in Kind |-> obj'[i]] /\ obj'[k] = res.p
          /\ \A i \in Kind : i # k => obj'[i] = obj[i]
        BY <1>1, <2>1
    <2>3. /\ state' = [i \in Kind |-> state'[i]]
          /\ state'[k] = IF res.ok THEN "success" ELSE "failure"
          /\ \A i \in Kind : i # k => state'[i] = state[i]
        BY <1>1, <2>1
    <2>4. ASSUME NEW i \in Kind
          PROVE  /\ ObjectOf(i, obj'[i]) /\ state'[i] \in {"new", "success", "failure"}
                 /\ state'[i] = "new" => obj'[i] = Fresh(i)
                 /\ state'[i] = "success" => obj'[i] \in Shape(i)
        <3>1. CASE i = k BY <1>6, <2>2, <2>3, <3>1
        <3>2. CASE i # k BY <2>1, <2>2, <2>3, <3>2
        <3> QED BY <3>1, <3>2
    <2> QED BY <2>2, <2>3, <2>4 DEF ReaderObjects
<1>11. NothingLost'
    <2>1. ASSUME intact' PROVE Laid(stream', pending', writerId')
        <3>1. matches /\ res.ok BY <1>1, <2>1
        <3>2. Back(stream, w, x, res) BY <1>8, <3>1
        <3>3. stream' = Rest(stream, Len(w)) BY <1>1, <3>2 DEF Back
        <3>4. pending' = Tail(pending) BY <1>1, <3>1
        <3> QED BY <1>1, <1>8, <3>1, <3>3, <3>4
    <2> QED BY <2>1 DEF NothingLost
<1>12. RoundTrip'
    <2>1. last'.kind = k /\ last'.rv = res.ok /\ last'.want = IF matches THEN <<x>> ELSE <<>>
        BY <1>1
    <2>2. ASSUME last'.want # <<>>
          PROVE  IF SameBatch' \/ last'.kind \notin {"packetA", "packetB"}
                 THEN last'.rv /\ obj'[last'.kind] = last'.want[1] ELSE ~last'.rv
        <3>1. matches /\ last'.want[1] = x BY <1>7, <2>1, <2>2
        <3>2. (SameBatch' \/ last'.kind \notin {"packetA", "packetB"}) <=>
                  Agree(k, writerId, readerId)
            BY <1>1, <2>1 DEF SameBatch, Agree, Packets
        <3>3. obj'[k] = res.p BY <1>1, <1>2 DEF ReaderObjects
        <3>4. CASE Agree(k, writerId, readerId)
            <4>1. Back(stream, w, x, res) BY <1>8, <3>1, <3>4
            <4>2. res.ok /\ res.p = x BY <4>1 DEF Back
            <4> QED BY <2>1, <3>1, <3>2, <3>3, <3>4, <4>2
        <3>5. CASE ~Agree(k, writerId, readerId)
            <4>1. ~res.ok BY <1>8, <3>1, <3>5
            <4> QED BY <2>1, <3>2, <3>5, <4>1
        <3> QED BY <3>4, <3>5
    <2> QED BY <2>2 DEF RoundTrip
<1> QED BY <1>9, <1>10, <1>11, <1>12 DEF StreamInv

LEMMA TamperKeeps ==
    ASSUME StreamInv, Tamper
    PROVE  StreamInv'
<1>1. /\ stream # <<>> /\ intact' = FALSE /\ pending' = <<>>
      /\ UNCHANGED <<writerId, readerId, obj, state, last>>
    BY DEF Tamper
<1>2. stream \in Seq(Object) BY DEF StreamInv, StreamTypes
<1>3. stream' \in Seq(Object)
    <2>1. CASE stream' = Front(stream) BY <1>1, <1>2, <2>1, FrontIs
    <2>2. ASSUME NEW i \in DOMAIN stream, NEW o \in Altered(stream[i]),
                 stream' = [stream EXCEPT ![i] = o]
          PROVE  stream' \in Seq(Object)
        <3>1. i \in 1 .. Len(stream) /\ stream[i] \in Object BY <1>2
        <3>2. o \in Object BY <3>1, AlteredObject
        <3> QED BY <1>2, <2>2, <3>1, <3>2, ExceptSeq
    <2> QED BY <2>1, <2>2 DEF Tamper
<1>4. StreamTypes'
    <2>1. writerId' \in Seq(OctetOf) /\ readerId' \in Seq(OctetOf) BY <1>1, ReaderKept
    <2>2. pending' \in Seq(Entry) BY <1>1, EmptySeq
    <2>3. intact' \in BOOLEAN BY <1>1
    <2> QED BY <1>3, <2>1, <2>2, <2>3 DEF StreamTypes
<1>5. NothingLost' BY <1>1 DEF NothingLost
<1> QED BY <1>1, <1>4, <1>5, ReaderKept DEF StreamInv

LEMMA ReconnectKeeps ==
    ASSUME StreamInv, Reconnect
    PROVE  StreamInv'
<1>1. /\ stream' = <<>> /\ pending' = <<>> /\ intact' = TRUE
      /\ UNCHANGED <<writerId, readerId, obj, state, last>>
    BY DEF Reconnect
<1>2. StreamTypes' BY <1>1, ReaderKept DEF StreamTypes
<1>3. NothingLost' BY <1>1, LaidEmpty DEF NothingLost
<1> QED BY <1>1, <1>2, <1>3, ReaderKept DEF StreamInv

LEMMA StreamInvKept == StreamInv /\ [StreamNext]_streamVars => StreamInv'
<1> SUFFICES ASSUME StreamInv, [StreamNext]_streamVars PROVE StreamInv' OBVIOUS
<1>1. CASE UNCHANGED streamVars
    <2>1. UNCHANGED <<stream, writerId, readerId, obj, state, pending, intact, last>>
        BY <1>1 DEF streamVars
    <2>2. StreamTypes' BY <2>1 DEF StreamInv, StreamTypes
    <2>3. NothingLost' BY <2>1 DEF StreamInv, NothingLost
    <2> QED BY <2>1, <2>2, <2>3, ReaderKept DEF StreamInv
<1>2. ASSUME NEW k \in Kind, Write(k) PROVE StreamInv' BY <1>2, WriteKeeps
<1>3. ASSUME NEW k \in Kind, Read(k) PROVE StreamInv' BY <1>3, ReadKeeps
<1>4. CASE Tamper BY <1>4, TamperKeeps
<1>5. CASE Reconnect BY <1>5, ReconnectKeeps
<1> QED BY <1>1, <1>2, <1>3, <1>4, <1>5 DEF StreamNext, Done

(* What a reader has stored without failing is what the library relies on. *)
LEMMA ShapedFields ==
    ASSUME NEW len \in Nat, NEW a \in Arrays(len)
    PROVE  InField(a, len)
<1>1. DOMAIN a = 1 .. len /\ \A i \in 1 .. len : a[i] \in Field BY DEF Arrays
<1>2. Len(a) = len BY DEF Arrays
<1> QED BY <1>1, <1>2 DEF InField

LEMMA ShapeSound ==
    ASSUME StreamInv, NEW k \in Kind, state[k] # "failure"
    PROVE  WellShaped(k)
<1> DEFINE p == obj[k]
           F == {"a", "b", "c", "f0", "g0", "h0", "share_d", "share_e", "share_out"}
<1>1. /\ state[k] = "new" => p = Fresh(k)
      /\ state[k] = "success" => p \in Shape(k)
      /\ state[k] \in {"new", "success"}
    BY DEF StreamInv, ReaderObjects
<1>2. p \in Shape(k) \/ (k = "total" /\ state[k] = "new" /\ p = Fresh(k)) BY <1>1, FreshIs
<1>3. WellShaped(k) <=>
        /\ \A f \in DOMAIN p \cap F : p[f] \in Field
        /\ "h_points" \in DOMAIN p => InField(p.h_points, PrioConfig_hPoints)
        /\ "data_shares" \in DOMAIN p /\ state[k] = "success" => InField(p.data_shares, NumFields)
        /\ "seed" \in DOMAIN p => Len(p.seed) = PRG_SEED_LENGTH
        /\ k = "packetA" => p.for_server = PRIO_SERVER_A
        /\ k = "packetB" => p.for_server = PRIO_SERVER_B
        /\ k = "total" /\ state[k] = "success" => p.idx \in Server
    BY DEF WellShaped
<1> HIDE DEF p
<1>4. CASE k = "packetA"
    <2>1. /\ DOMAIN p = {"a", "b", "c", "f0", "g0", "h0", "for_server", "data_shares", "h_points"}
          /\ p["a"] \in Field /\ p["b"] \in Field /\ p["c"] \in Field
          /\ p["f0"] \in Field /\ p["g0"] \in Field /\ p["h0"] \in Field
          /\ p.for_server = PRIO_SERVER_A
          /\ p.data_shares \in Arrays(NumFields) /\ p.h_points \in Arrays(PrioConfig_hPoints)
        BY <1>2, <1>4 DEF Shape
    <2>2. InField(p.data_shares, NumFields) /\ InField(p.h_points, PrioConfig_hPoints)
        BY <2>1, Lengths2, ShapedFields
    <2> QED BY <1>3, <1>4, <2>1, <2>2
<1>5. CASE k = "packetB"
    <2>1. /\ DOMAIN p = {"a", "b", "c", "f0", "g0", "h0", "for_server", "seed"}
          /\ p["a"] \in Field /\ p["b"] \in Field /\ p["c"] \in Field
          /\ p["f0"] \in Field /\ p["g0"] \in Field /\ p["h0"] \in Field
          /\ p.for_server = PRIO_SERVER_B
          /\ p.seed \in [1 .. PRG_SEED_LENGTH -> 0 .. Radix - 1]
        BY <1>2, <1>5 DEF Shape
    <2>2. Len(p.seed) = PRG_SEED_LENGTH BY <2>1, SerialAssumption
    <2> QED BY <1>3, <1>5, <2>1, <2>2
<1>6. CASE k = "server"
    <2>1. DOMAIN p = {"data_shares"} /\ p.data_shares \in Arrays(NumFields)
        BY <1>2, <1>6 DEF Shape
    <2>2. InField(p.data_shares, NumFields) BY <2>1, Lengths2, ShapedFields
    <2> QED BY <1>3, <1>6, <2>1, <2>2
<1>7. CASE k = "verify1"
    <2>1. DOMAIN p = {"share_d", "share_e"} /\ p["share_d"] \in Field /\ p["share_e"] \in Field
        BY <1>2, <1>7 DEF Shape
    <2> QED BY <1>3, <1>7, <2>1
<1>8. CASE k = "verify2"
    <2>1. DOMAIN p = {"share_out"} /\ p["share_out"] \in Field BY <1>2, <1>8 DEF Shape
    <2> QED BY <1>3, <1>8, <2>1
<1>9. CASE k = "total" /\ p \in Shape(k)
    <2>1. DOMAIN p = {"idx", "data_shares"} /\ p.idx \in Server /\ p.data_shares \in Arrays(NumFields)
        BY <1>9 DEF Shape
    <2>2. InField(p.data_shares, NumFields) BY <2>1, Lengths2, ShapedFields
    <2> QED BY <1>3, <1>9, <2>1, <2>2
<1>10. CASE k = "total" /\ state[k] = "new" /\ p = Fresh(k)
    <2>1. DOMAIN p = {"idx", "data_shares"} BY <1>10 DEF Fresh
    <2> QED BY <1>3, <1>10, <2>1
<1> QED BY <1>2, <1>4, <1>5, <1>6, <1>7, <1>8, <1>9, <1>10 DEF Kind

LEMMA StreamInvHolds == StreamSpec => []StreamInv
BY StreamInvInit, StreamInvKept, PTL DEF StreamSpec

(* What is read as it was written is what was written, unless it is a      *)
(* packet of another batch, which is refused.                              *)
THEOREM RoundTripHolds == StreamSpec => []RoundTrip
<1>1. StreamInv => RoundTrip BY DEF StreamInv
<1> QED BY <1>1, StreamInvHolds, PTL

(* No stream, however it was altered, makes a reader that does not fail    *)
(* store what the library cannot rely on.                                  *)
THEOREM SoundUnlessFailedHolds == StreamSpec => []SoundUnlessFailed
<1>1. StreamInv => SoundUnlessFailed BY ShapeSound DEF SoundUnlessFailed
<1> QED BY <1>1, StreamInvHolds, PTL

-----------------------------------------------------------------------------
(* Keys (PrioKeys) *)

KL == CURVE25519_KEY_LEN

Octets(n) == [1 .. n -> 0 .. 255]

(* The leading zeros are the first elements. *)
LEMMA LeadingZeros ==
    ASSUME NEW n \in Nat, NEW sk \in Octets(n)
    PROVE  \E c \in 0 .. n :
             /\ Cardinality({i \in DOMAIN sk : \A j \in 1 .. i : sk[j] = 0}) = c
             /\ \A i \in 1 .. c : sk[i] = 0
<1> DEFINE Z == {i \in 1 .. n : \A j \in 1 .. i : sk[j] = 0}
           T == {i \in Nat : i > 0 /\ i \notin Z}
<1>1. DOMAIN sk = 1 .. n BY DEF Octets
<1>2. n + 1 \in T OBVIOUS
<1>3. T \subseteq Nat OBVIOUS
<1> HIDE DEF Z
<1>4. PICK m \in T : \A y \in T : m <= y BY <1>2, <1>3, LeastNat
<1>5. m \in Nat /\ m > 0 /\ m <= n + 1 /\ m \notin Z BY <1>2, <1>4
<1>6. \A i \in Nat : i > 0 /\ i < m => i \in Z BY <1>4
<1>7. Z = 1 .. m - 1
    <2>1. ASSUME NEW i \in Z PROVE i \in 1 .. m - 1
        <3>1. i \in 1 .. n /\ \A j \in 1 .. i : sk[j] = 0 BY DEF Z
        <3>2. CASE i >= m
            <4>1. m \in 1 .. n /\ \A j \in 1 .. m : j \in 1 .. i BY <1>5, <3>1, <3>2
            <4>2. m \in Z BY <3>1, <4>1 DEF Z
            <4> QED BY <1>5, <4>2
        <3> QED BY <1>5, <3>1, <3>2
    <2>2. ASSUME NEW i \in 1 .. m - 1 PROVE i \in Z BY <1>5, <1>6
    <2> QED BY <2>1, <2>2
<1>8. Cardinality(1 .. m - 1) = m - 1
    <2>1. 1 \in Int /\ m - 1 \in Int /\ 1 <= m BY <1>5
    <2>2. Cardinality(1 .. m - 1) = IF 1 > m - 1 THEN 0 ELSE (m - 1) - 1 + 1 BY <2>1, FS_Interval
    <2> QED BY <1>5, <2>2
<1>9. \A i \in 1 .. m - 1 : sk[i] = 0
    <2> SUFFICES ASSUME NEW i \in 1 .. m - 1 PROVE sk[i] = 0 OBVIOUS
    <2>1. i \in Z BY <1>7
    <2>2. i \in 1 .. i BY <1>5
    <2> QED BY <2>1, <2>2 DEF Z
<1>10. m - 1 \in 0 .. n BY <1>5
<1>11. {i \in DOMAIN sk : \A j \in 1 .. i : sk[j] = 0} = 1 .. m - 1 BY <1>1, <1>7 DEF Z
<1> QED BY <1>8, <1>9, <1>10, <1>11

(* A sequence is its c first elements, all zero, and the rest. *)
LEMMA ZerosBack ==
    ASSUME NEW n \in Nat, NEW sk \in Seq(0 .. 255), Len(sk) = n,
           NEW c \in 0 .. n, \A i \in 1 .. c : sk[i] = 0
    PROVE  LET item == SubSeq(sk, 1 + c, n)
           IN  [i \in 1 .. n - Len(item) |-> 0] \o item = sk
<1> DEFINE item == SubSeq(sk, 1 + c, n)
<1>1. /\ item \in Seq(0 .. 255) /\ Len(item) = n - c
      /\ \A i \in 1 .. n - c : item[i] = sk[c + i]
    <2>1. \A i \in 1 + c .. n : sk[i] \in 0 .. 255
        <3> HIDE DEF item
        <3> TAKE i \in 1 + c .. n
        <3>1. i \in 1 .. Len(sk) OBVIOUS
        <3> QED BY <3>1, ElementOfSeq
    <2>2. /\ item \in Seq(0 .. 255)
          /\ Len(item) = IF 1 + c <= n THEN n - (1 + c) + 1 ELSE 0
          /\ \A i \in 1 .. n - (1 + c) + 1 : item[i] = sk[(1 + c) + i - 1]
        <3>1. 1 + c \in Int /\ n \in Int OBVIOUS
        <3> HIDE DEF item
        <3> QED BY <2>1, <3>1, SubSeqProperties DEF item
    <2> HIDE DEF item
    <2>3. n - (1 + c) + 1 = n - c OBVIOUS
    <2>4. \A i \in 1 .. n - c : item[i] = sk[c + i]
        <3> TAKE i \in 1 .. n - c
        <3>1. (1 + c) + i - 1 = c + i OBVIOUS
        <3> QED BY <2>2, <2>3, <3>1
    <2> QED BY <2>2, <2>3, <2>4
<1> HIDE DEF item
<1> DEFINE z == [i \in 1 .. n - Len(item) |-> 0]
<1>2. n - Len(item) = c BY <1>1
<1>3. z \in Seq(0 .. 255) /\ Len(z) = c /\ \A i \in 1 .. c : z[i] = 0
    <2>1. z = [i \in 1 .. c |-> 0] BY <1>2
    <2> HIDE DEF z
    <2> QED BY <2>1
<1> HIDE DEF z
<1>4. /\ z \o item \in Seq(0 .. 255) /\ Len(z \o item) = c + (n - c)
      /\ \A i \in 1 .. c + (n - c) :
             (z \o item)[i] = IF i <= c THEN z[i] ELSE item[i - c]
    <2>1. /\ z \o item \in Seq(0 .. 255) /\ Len(z \o item) = Len(z) + Len(item)
          /\ \A i \in 1 .. Len(z) + Len(item) :
                (z \o item)[i] = IF i <= Len(z) THEN z[i] ELSE item[i - Len(z)]
        <3>1. z \in Seq(0 .. 255) /\ item \in Seq(0 .. 255) BY <1>1, <1>3
        <3> QED BY <3>1, ConcatProperties
    <2>2. Len(z) = c /\ Len(item) = n - c BY <1>1, <1>3
    <2> QED BY <2>1, <2>2
<1> DEFINE q == z \o item
<1> HIDE DEF q
<1>5. q \in Seq(0 .. 255) /\ Len(q) = n BY <1>4 DEF q
<1>6. ASSUME NEW i \in 1 .. n PROVE q[i] = sk[i]
    <2>1. q[i] = IF i <= c THEN z[i] ELSE item[i - c]
        <3>1. i \in 1 .. c + (n - c) OBVIOUS
        <3> QED BY <1>4, <3>1 DEF q
    <2>2. CASE i <= c
        <3>1. i \in 1 .. c BY <2>2
        <3> QED BY <1>3, <2>1, <2>2, <3>1
    <2>3. CASE i > c
        <3>1. i - c \in 1 .. n - c /\ c + (i - c) = i /\ ~ (i <= c) BY <2>3
        <3>2. item[i - c] = sk[c + (i - c)] BY <1>1, <3>1
        <3> QED BY <2>1, <3>1, <3>2
    <2> QED BY <2>2, <2>3
<1>7. q = sk BY <1>5, <1>6
<1> QED BY <1>7 DEF q, z, item

(* A key is exported as it is: the zeros NSS drops come back. *)
LEMMA ExportExact ==
    ASSUME NEW k, k.sk \in Octets(KL)
    PROVE  PrivateKey_export(k) = k.sk
<1> DEFINE sk == k.sk
           n == KL
<1>1. n \in Nat /\ sk \in Octets(n) BY KeysAssumption DEF KL
<1> HIDE DEF n, sk
<1>2. PICK c \in 0 .. n :
        /\ Cardinality({i \in DOMAIN sk : \A j \in 1 .. i : sk[j] = 0}) = c
        /\ \A i \in 1 .. c : sk[i] = 0
    BY <1>1, LeadingZeros
<1>3. sk \in Seq(0 .. 255) BY <1>1 DEF Octets
<1>4. Len(sk) = n BY <1>1 DEF Octets
<1>5. RawValue(sk) = SubSeq(sk, 1 + c, n) BY <1>2, <1>4 DEF RawValue
<1>6. LET item == SubSeq(sk, 1 + c, n)
      IN  [i \in 1 .. n - Len(item) |-> 0] \o item = sk
    BY <1>1, <1>2, <1>3, <1>4, ZerosBack
<1> QED BY <1>5, <1>6 DEF PrivateKey_export, sk, n, KL

(* The text is that of the octets, in one case or the other. *)
TextOf(text, octets) ==
    /\ text \in Seq(Int) /\ Len(text) = 2 * KL
    /\ \A i \in 1 .. 2 * KL : is_hex_digit(text[i])
    /\ \A i \in 1 .. KL : /\ hex_to_int(text[2 * i - 1]) = octets[i] \div 16
                          /\ hex_to_int(text[2 * i]) = octets[i] % 16

LEMMA HexDigit ==
    ASSUME NEW d \in 0 .. 15
    PROVE  /\ int_to_hex(d) \in Int /\ is_hex_digit(int_to_hex(d))
           /\ hex_to_int(int_to_hex(d)) = d
BY DEF int_to_hex, is_hex_digit, hex_to_int, to_upper

LEMMA LowerDigit ==
    ASSUME NEW c \in Int, is_hex_digit(c)
    PROVE  LET l == IF c \in 65 .. 70 THEN c + 32 ELSE c
           IN  l \in Int /\ is_hex_digit(l) /\ hex_to_int(l) = hex_to_int(c)
BY DEF is_hex_digit, hex_to_int, to_upper

(* An octet is made of its two digits. *)
LEMMA TwoDigits ==
    ASSUME NEW o \in 0 .. 255
    PROVE  /\ o \div 16 \in 0 .. 15 /\ o % 16 \in 0 .. 15
           /\ (16 * (o \div 16) + (o % 16)) % 256 = o
<1>1. o \div 16 \in 0 .. 15 /\ o % 16 \in 0 .. 15 /\ 16 * (o \div 16) + (o % 16) = o OBVIOUS
<1>2. o % 256 = o OBVIOUS
<1> QED BY <1>1, <1>2

LEMMA HexExport ==
    ASSUME NEW octets \in Octets(KL)
    PROVE  TextOf(Text(key_to_hex(octets)), octets)
<1> DEFINE n == KL
           D(i) == IF i % 2 = 1 THEN octets[(i + 1) \div 2] \div 16 ELSE octets[i \div 2] % 16
           h == key_to_hex(octets)
           t == Text(h)
<1>1. n \in Nat BY KeysAssumption DEF KL
<1>2. ASSUME NEW i \in 1 .. 2 * n PROVE D(i) \in 0 .. 15
    <2>1. CASE i % 2 = 1
        <3>1. (i + 1) \div 2 \in 1 .. n BY <1>1, <2>1
        <3>2. octets[(i + 1) \div 2] \in 0 .. 255 BY <3>1 DEF Octets
        <3> QED BY <2>1, <3>2, TwoDigits
    <2>2. CASE i % 2 # 1
        <3>1. i \div 2 \in 1 .. n BY <1>1, <2>2
        <3>2. octets[i \div 2] \in 0 .. 255 BY <3>1 DEF Octets
        <3> QED BY <2>2, <3>2, TwoDigits
    <2> QED BY <2>1, <2>2
<1>3. h = [i \in 1 .. 2 * n + 1 |-> IF i > 2 * n THEN 0 ELSE int_to_hex(D(i))]
    BY DEF key_to_hex, KL
<1> HIDE DEF D
<1>4. h \in Seq(Int) /\ Len(h) = 2 * n + 1
    <2>1. \A i \in 1 .. 2 * n + 1 : (IF i > 2 * n THEN 0 ELSE int_to_hex(D(i))) \in Int
        <3> SUFFICES ASSUME NEW i \in 1 .. 2 * n + 1
                     PROVE  (IF i > 2 * n THEN 0 ELSE int_to_hex(D(i))) \in Int
            OBVIOUS
        <3>1. i > 2 * n \/ i \in 1 .. 2 * n BY <1>1
        <3> QED BY <1>2, <3>1, HexDigit
    <2>2. 2 * n + 1 \in Nat BY <1>1
    <2> HIDE DEF h, n
    <2>3. h \in [1 .. 2 * n + 1 -> Int] BY <1>3, <2>1
    <2> QED BY <2>2, <2>3
<1>5. t = SubSeq(h, 1, 2 * n) BY DEF Text, KL
<1> HIDE DEF h, t
<1>6. t \in Seq(Int) /\ Len(t) = 2 * n /\ \A i \in 1 .. 2 * n : t[i] = h[i]
    BY <1>1, <1>4, <1>5
<1>7. ASSUME NEW i \in 1 .. 2 * n PROVE t[i] = int_to_hex(D(i)) BY <1>1, <1>3, <1>6, SMTT(30)
<1>8. ASSUME NEW i \in 1 .. 2 * n PROVE is_hex_digit(t[i]) /\ hex_to_int(t[i]) = D(i)
    <2>1. D(i) \in 0 .. 15 /\ t[i] = int_to_hex(D(i)) BY <1>2, <1>7
    <2> QED BY <2>1, HexDigit
<1>9. ASSUME NEW i \in 1 .. n
      PROVE  hex_to_int(t[2 * i - 1]) = octets[i] \div 16 /\ hex_to_int(t[2 * i]) = octets[i] % 16
    <2>1. 2 * i - 1 \in 1 .. 2 * n /\ 2 * i \in 1 .. 2 * n BY <1>1
    <2>2. (2 * i - 1) % 2 = 1 /\ ((2 * i - 1) + 1) \div 2 = i BY <1>1
    <2>3. (2 * i) % 2 # 1 /\ (2 * i) \div 2 = i BY <1>1
    <2>4. D(2 * i - 1) = octets[i] \div 16 /\ D(2 * i) = octets[i] % 16 BY <2>2, <2>3 DEF D
    <2> QED BY <1>8, <2>1, <2>4
<1> QED BY <1>6, <1>8, <1>9 DEF TextOf, n, t, h

LEMMA HexImport ==
    ASSUME NEW octets \in Octets(KL), NEW text, TextOf(text, octets)
    PROVE  key_from_hex(text) = octets /\ Len(text) = 2 * KL /\ Len(octets) = KL
<1> DEFINE n == KL
<1>1. n \in Nat BY KeysAssumption DEF KL
<1>2. key_from_hex(text) = [i \in 1 .. n |->
          (16 * hex_to_int(text[2 * i - 1]) + hex_to_int(text[2 * i])) % 256]
    BY DEF key_from_hex, TextOf, KL
<1>3. ASSUME NEW i \in 1 .. n
      PROVE  (16 * hex_to_int(text[2 * i - 1]) + hex_to_int(text[2 * i])) % 256 = octets[i]
    <2>1. octets[i] \in 0 .. 255 BY DEF Octets
    <2>2. hex_to_int(text[2 * i - 1]) = octets[i] \div 16 /\ hex_to_int(text[2 * i]) = octets[i] % 16
        BY DEF TextOf
    <2> QED BY <2>1, <2>2, TwoDigits
<1>4. octets = [i \in 1 .. n |-> octets[i]] /\ Len(octets) = n BY <1>1 DEF Octets
<1> QED BY <1>2, <1>3, <1>4 DEF TextOf

LEMMA KeyLenNat == KL \in Nat
BY KeysAssumption DEF KL

(* The text of a text that comes back in lower case is still the same. *)
LEMMA LowerText ==
    ASSUME NEW text, NEW octets, TextOf(text, octets)
    PROVE  TextOf([i \in DOMAIN text |-> IF text[i] \in 65 .. 70 THEN text[i] + 32 ELSE text[i]],
                  octets)
<1> DEFINE n == 2 * KL
           low == [i \in DOMAIN text |-> IF text[i] \in 65 .. 70 THEN text[i] + 32 ELSE text[i]]
<1>1. KL \in Nat BY KeyLenNat
<1>2. text \in Seq(Int) /\ Len(text) = n /\ DOMAIN text = 1 .. n BY <1>1 DEF TextOf
<1>3. ASSUME NEW i \in 1 .. n
      PROVE  /\ low[i] \in Int /\ is_hex_digit(low[i]) /\ hex_to_int(low[i]) = hex_to_int(text[i])
    <2>1. text[i] \in Int /\ is_hex_digit(text[i]) BY <1>2 DEF TextOf
    <2>2. low[i] = IF text[i] \in 65 .. 70 THEN text[i] + 32 ELSE text[i] BY <1>2
    <2> QED BY <2>1, <2>2, LowerDigit
<1>4. DOMAIN low = 1 .. n BY <1>2
<1> DEFINE L(i) == IF text[i] \in 65 .. 70 THEN text[i] + 32 ELSE text[i]
<1>5. low = [i \in 1 .. n |-> L(i)] BY <1>2
<1>6. low \in Seq(Int) /\ Len(low) = n
    <2>1. \A i \in 1 .. n : L(i) \in Int BY <1>2
    <2>2. n \in Nat BY <1>1
    <2> HIDE DEF L, n, low
    <2>3. low \in [1 .. n -> Int] BY <1>5, <2>1
    <2> QED BY <2>2, <2>3
<1> HIDE DEF low
<1>7. ASSUME NEW i \in 1 .. KL
      PROVE  /\ hex_to_int(low[2 * i - 1]) = octets[i] \div 16
             /\ hex_to_int(low[2 * i]) = octets[i] % 16
    <2>1. 2 * i - 1 \in 1 .. n /\ 2 * i \in 1 .. n BY <1>1
    <2>2. /\ hex_to_int(text[2 * i - 1]) = octets[i] \div 16
          /\ hex_to_int(text[2 * i]) = octets[i] % 16 BY DEF TextOf
    <2> QED BY <1>3, <2>1, <2>2
<1> QED BY <1>3, <1>6, <1>7 DEF TextOf, low

-----------------------------------------------------------------------------
(* The keys there are, and what was written of them. *)

KeyPair == [sk : PrivateKeys, pk : Octets(KL)]

Filed(f, pair) ==
    /\ pair \in KeyPair
    /\ \/ f = [form |-> "raw", sk |-> pair.sk, pk |-> pair.pk]
       \/ /\ f \in [form : {"hex"}, sk : Seq(Int), pk : Seq(Int)]
          /\ TextOf(f.sk, pair.sk) /\ TextOf(f.pk, pair.pk)

MadeInv ==
    /\ made \in [Servers -> KeyPair \cup {NULL}]
    /\ \A s \in Servers : made[s] # NULL => made[s].pk = PublicOf[made[s].sk]
    /\ \A s, t \in Servers :
          made[s] # NULL /\ made[t] # NULL /\ made[s].sk = made[t].sk => s = t

HeldInv ==
    /\ key \in [Servers -> KeyPair \cup {NULL}]
    /\ DOMAIN file = Servers /\ DOMAIN peer = Servers
    /\ \A s \in Servers :
          /\ key[s] # NULL => key[s] = made[s]
          /\ file[s] # NULL => Filed(file[s], made[s])
          /\ peer[s] # NULL => made[s] \in KeyPair /\ peer[s] = made[s].pk

LEMMA PairNotNull ==
    ASSUME NEW p \in KeyPair PROVE p # NULL
<1>1. "sk" \in DOMAIN p BY DEF KeyPair
<1>2. "sk" \notin DOMAIN NULL BY DEF NULL
<1> QED BY <1>1, <1>2

LEMMA PairOctets ==
    ASSUME NEW p \in KeyPair
    PROVE  /\ p.sk \in Octets(KL) /\ p.pk \in Octets(KL)
           /\ Len(p.sk) = KL /\ Len(p.pk) = KL
           /\ p = [sk |-> p.sk, pk |-> p.pk]
<1>1. p.sk \in Octets(KL) /\ p.pk \in Octets(KL) BY KeysAssumption DEF KeyPair, Octets, KL
<1>2. Len(p.sk) = KL /\ Len(p.pk) = KL BY <1>1, KeyLenNat DEF Octets
<1>3. p = [sk |-> p.sk, pk |-> p.pk] BY DEF KeyPair
<1> QED BY <1>1, <1>2, <1>3

(* Reading back what was filed gives the pair, and its public key. *)
LEMMA FiledImports ==
    ASSUME NEW f, NEW p, Filed(f, p)
    PROVE  /\ (IF f.form = "raw" THEN PrivateKey_import(f.sk, f.pk)
               ELSE PrivateKey_import_hex(f.sk, f.pk)) = p
           /\ (IF f.form = "raw" THEN PublicKey_import(f.pk)
               ELSE PublicKey_import_hex(f.pk)) = p.pk
<1>1. p \in KeyPair BY DEF Filed
<1>2. /\ p.sk \in Octets(KL) /\ p.pk \in Octets(KL)
      /\ Len(p.sk) = KL /\ Len(p.pk) = KL
      /\ p = [sk |-> p.sk, pk |-> p.pk]
    BY <1>1, PairOctets
<1>3. /\ PrivateKey_import(p.sk, p.pk) = p
      /\ PublicKey_import(p.pk) = p.pk
    BY <1>2 DEF PrivateKey_import, PublicKey_import, KL
<1>4. CASE f = [form |-> "raw", sk |-> p.sk, pk |-> p.pk] BY <1>3, <1>4
<1>5. CASE /\ f \in [form : {"hex"}, sk : Seq(Int), pk : Seq(Int)]
           /\ TextOf(f.sk, p.sk) /\ TextOf(f.pk, p.pk)
    <2>1. key_from_hex(f.sk) = p.sk /\ Len(f.sk) = 2 * KL BY <1>2, <1>5, HexImport
    <2>2. key_from_hex(f.pk) = p.pk /\ Len(f.pk) = 2 * KL BY <1>2, <1>5, HexImport
    <2>3. f.form = "hex" BY <1>5
    <2>4. PrivateKey_import_hex(f.sk, f.pk) = p
        BY <1>3, <2>1, <2>2 DEF PrivateKey_import_hex, KL
    <2>5. PublicKey_import_hex(f.pk) = p.pk
        BY <1>3, <2>2 DEF PublicKey_import_hex, KL
    <2> QED BY <2>3, <2>4, <2>5
<1> QED BY <1>4, <1>5 DEF Filed

(* What is filed of a pair says the pair. *)
LEMMA ExportFiled ==
    ASSUME NEW p \in KeyPair, NEW form \in {"raw", "hex"}
    PROVE  Filed(IF form = "raw"
                 THEN [form |-> form, sk |-> PrivateKey_export(p), pk |-> PublicKey_export(p)]
                 ELSE [form |-> form, sk |-> PrivateKey_export_hex(p),
                       pk   |-> PublicKey_export_hex(p)], p)
<1>1. p.sk \in Octets(KL) /\ p.pk \in Octets(KL) BY PairOctets
<1>2. PrivateKey_export(p) = p.sk BY <1>1, ExportExact
<1>3. PublicKey_export(p) = p.pk BY DEF PublicKey_export
<1>4. CASE form = "raw" BY <1>2, <1>3, <1>4 DEF Filed
<1>5. CASE form = "hex"
    <2> DEFINE hs == PrivateKey_export_hex(p)
               hp == PublicKey_export_hex(p)
    <2>1. hs = Text(key_to_hex(p.sk)) BY <1>2 DEF PrivateKey_export_hex
    <2>2. hp = Text(key_to_hex(p.pk)) BY <1>3 DEF PublicKey_export_hex
    <2> HIDE DEF hs, hp
    <2>3. TextOf(hs, p.sk) /\ TextOf(hp, p.pk) BY <1>1, <2>1, <2>2, HexExport
    <2>4. hs \in Seq(Int) /\ hp \in Seq(Int) BY <2>3 DEF TextOf
    <2>5. Filed([form |-> "hex", sk |-> hs, pk |-> hp], p)
        <3> DEFINE f == [form |-> "hex", sk |-> hs, pk |-> hp]
        <3>1. f \in [form : {"hex"}, sk : Seq(Int), pk : Seq(Int)] /\ f.sk = hs /\ f.pk = hp BY <2>4
        <3> HIDE DEF f
        <3>2. Filed(f, p) BY <2>3, <3>1 DEF Filed
        <3> QED BY <3>2 DEF f
    <2> QED BY <1>5, <2>5 DEF hs, hp
<1> QED BY <1>4, <1>5

LEMMA MadeStep ==
    ASSUME MadeInv, [KeysNext]_keyVars
    PROVE  MadeInv' /\ \A s \in Servers : made[s] # NULL => made'[s] = made[s]
<1>1. CASE UNCHANGED made BY <1>1 DEF MadeInv
<1>2. ASSUME NEW s \in Servers, Keypair_new(s)
      PROVE  MadeInv' /\ \A t \in Servers : made[t] # NULL => made'[t] = made[t]
    <2>1. PICK sk \in PrivateKeys :
            /\ \A t \in Servers : made[t] # NULL => made[t].sk # sk
            /\ made' = [made EXCEPT ![s] = [sk |-> sk, pk |-> PublicOf[sk]]]
        BY <1>2 DEF Keypair_new
    <2> DEFINE p == [sk |-> sk, pk |-> PublicOf[sk]]
    <2>2. p \in KeyPair /\ p.sk = sk /\ p.pk = PublicOf[sk]
        BY KeysAssumption DEF KeyPair, Octets, KL
    <2>3. made' = [made EXCEPT ![s] = p] BY <2>1
    <2> HIDE DEF p
    <2>4. made[s] = NULL BY <1>2 DEF Keypair_new
    <2>5. made' \in [Servers -> KeyPair \cup {NULL}] BY <2>2, <2>3 DEF MadeInv
    <2>6. /\ made'[s] = p
          /\ \A t \in Servers : t # s => made'[t] = made[t]
        BY <2>3 DEF MadeInv
    <2>7. ASSUME NEW t \in Servers, made'[t] # NULL PROVE made'[t].pk = PublicOf[made'[t].sk]
        BY <2>2, <2>6, <2>7 DEF MadeInv
    <2>8. ASSUME NEW t \in Servers, NEW u \in Servers,
                 made'[t] # NULL, made'[u] # NULL, made'[t].sk = made'[u].sk
          PROVE  t = u
        <3>1. CASE t = s /\ u # s BY <2>1, <2>2, <2>6, <2>8, <3>1
        <3>2. CASE t # s /\ u = s BY <2>1, <2>2, <2>6, <2>8, <3>2
        <3>3. CASE t # s /\ u # s BY <2>6, <2>8, <3>3 DEF MadeInv
        <3> QED BY <3>1, <3>2, <3>3
    <2>9. MadeInv' BY <2>5, <2>7, <2>8 DEF MadeInv
    <2> QED BY <2>4, <2>6, <2>9
<1>3. ASSUME NEW s \in Servers,
             \/ Retype(s) \/ Stop(s) \/ Restart(s) \/ Publish(s)
             \/ \E form \in {"raw", "hex"} : Export(s, form)
             \/ \E msg \in Messages, n \in BufferLens : Encrypt(s, msg, n)
             \/ \E n \in BufferLens : Decrypt(s, n)
      PROVE  UNCHANGED made
    BY <1>3, ZenonT(30) DEF Retype, Stop, Restart, Publish, Export, Encrypt, Decrypt
<1>4. Damage \/ Forget \/ UNCHANGED keyVars => UNCHANGED made BY DEF Damage, Forget, keyVars
<1> QED BY <1>1, <1>2, <1>3, <1>4 DEF KeysNext

LEMMA HeldStep ==
    ASSUME MadeInv, MadeInv', HeldInv, [KeysNext]_keyVars
    PROVE  HeldInv'
<1>1. \A s \in Servers : made[s] # NULL => made'[s] = made[s] BY MadeStep
<1>2. /\ key \in [Servers -> KeyPair \cup {NULL}]
      /\ DOMAIN file = Servers /\ DOMAIN peer = Servers
      /\ \A s \in Servers : /\ key[s] # NULL => key[s] = made[s]
                            /\ file[s] # NULL => Filed(file[s], made[s])
                            /\ peer[s] # NULL => made[s] \in KeyPair /\ peer[s] = made[s].pk
    BY DEF HeldInv
<1>3. ASSUME NEW t \in Servers
      PROVE  /\ key[t] # NULL => key[t] = made'[t]
             /\ file[t] # NULL => Filed(file[t], made'[t])
             /\ peer[t] # NULL => made'[t] \in KeyPair /\ peer[t] = made'[t].pk
    <2>1. key[t] # NULL => made[t] # NULL BY <1>2
    <2>2. file[t] # NULL => made[t] # NULL BY <1>2, PairNotNull DEF Filed
    <2>3. peer[t] # NULL => made[t] # NULL BY <1>2, PairNotNull
    <2> QED BY <1>1, <1>2, <2>1, <2>2, <2>3
<1>4. CASE UNCHANGED <<key, file, peer>> BY <1>2, <1>3, <1>4 DEF HeldInv
<1>5. ASSUME NEW s \in Servers, Keypair_new(s) PROVE HeldInv'
    <2>1. key' = [key EXCEPT ![s] = made'[s]] /\ file' = file /\ peer' = peer
        BY <1>5 DEF Keypair_new
    <2>2. made'[s] \in KeyPair \cup {NULL} BY DEF MadeInv
    <2> QED BY <1>2, <1>3, <2>1, <2>2 DEF HeldInv
<1>6. ASSUME NEW s \in Servers, NEW form \in {"raw", "hex"}, Export(s, form) PROVE HeldInv'
    <2> DEFINE f == IF form = "raw"
                    THEN [form |-> form, sk |-> PrivateKey_export(key[s]),
                          pk |-> PublicKey_export(key[s])]
                    ELSE [form |-> form, sk |-> PrivateKey_export_hex(key[s]),
                          pk   |-> PublicKey_export_hex(key[s])]
    <2>1. /\ key[s] # NULL /\ file' = [file EXCEPT ![s] = f]
          /\ key' = key /\ peer' = peer
        BY <1>6 DEF Export
    <2>2. key[s] \in KeyPair /\ key[s] = made'[s] BY <1>2, <1>3, <2>1
    <2>3. Filed(f, made'[s]) BY <2>2, ExportFiled
    <2> HIDE DEF f
    <2> QED BY <1>2, <1>3, <2>1, <2>3 DEF HeldInv
<1>7. ASSUME NEW s \in Servers, Retype(s) PROVE HeldInv'
    <2> DEFINE low(text) == [i \in DOMAIN text |->
                                IF text[i] \in 65 .. 70 THEN text[i] + 32 ELSE text[i]]
               g == [file[s] EXCEPT !.sk = low(@), !.pk = low(@)]
               p == made'[s]
    <2>1. /\ file[s] # NULL /\ file[s].form = "hex" /\ file' = [file EXCEPT ![s] = g]
          /\ key' = key /\ peer' = peer
        BY <1>2, <1>7 DEF Retype
    <2>2. /\ p \in KeyPair
          /\ file[s] \in [form : {"hex"}, sk : Seq(Int), pk : Seq(Int)]
          /\ TextOf(file[s].sk, p.sk) /\ TextOf(file[s].pk, p.pk)
        <3> DEFINE f == file[s]
        <3>1. Filed(f, p) /\ f.form = "hex" BY <1>3, <2>1
        <3> HIDE DEF f, p, g
        <3>2. f # [form |-> "raw", sk |-> p.sk, pk |-> p.pk] BY <3>1
        <3>3. /\ p \in KeyPair
              /\ f \in [form : {"hex"}, sk : Seq(Int), pk : Seq(Int)]
              /\ TextOf(f.sk, p.sk) /\ TextOf(f.pk, p.pk)
            BY <3>1, <3>2 DEF Filed
        <3> QED BY <3>3 DEF f
    <2>3. TextOf(low(file[s].sk), p.sk) /\ TextOf(low(file[s].pk), p.pk) BY <2>2, LowerText
    <2>4. low(file[s].sk) \in Seq(Int) /\ low(file[s].pk) \in Seq(Int) BY <2>3 DEF TextOf
    <2> HIDE DEF low, p
    <2>5. g.sk = low(file[s].sk) /\ g.pk = low(file[s].pk) BY <2>2
    <2>6. g \in [form : {"hex"}, sk : Seq(Int), pk : Seq(Int)] BY <2>2, <2>4
    <2> HIDE DEF g
    <2>7. Filed(g, p) BY <2>2, <2>3, <2>5, <2>6 DEF Filed
    <2> QED BY <1>2, <1>3, <2>1, <2>7 DEF HeldInv, p
<1>8. ASSUME NEW s \in Servers, Stop(s) PROVE HeldInv'
    <2>1. key' = [key EXCEPT ![s] = NULL] /\ file' = file /\ peer' = peer BY <1>8 DEF Stop
    <2> QED BY <1>2, <1>3, <2>1 DEF HeldInv
<1>9. ASSUME NEW s \in Servers, Restart(s) PROVE HeldInv'
    <2> DEFINE k == IF file[s].form = "raw" THEN PrivateKey_import(file[s].sk, file[s].pk)
                    ELSE PrivateKey_import_hex(file[s].sk, file[s].pk)
    <2>1. /\ file[s] # NULL /\ key' = [key EXCEPT ![s] = k]
          /\ file' = file /\ peer' = peer
        BY <1>9 DEF Restart
    <2>2. k = made'[s] BY <1>3, <2>1, FiledImports
    <2> HIDE DEF k
    <2>3. made'[s] \in KeyPair BY <1>3, <2>1 DEF Filed
    <2> QED BY <1>2, <1>3, <2>1, <2>2, <2>3 DEF HeldInv
<1>10. ASSUME NEW s \in Servers, Publish(s) PROVE HeldInv'
    <2> DEFINE k == IF file[s].form = "raw" THEN PublicKey_import(file[s].pk)
                    ELSE PublicKey_import_hex(file[s].pk)
    <2>1. /\ file[s] # NULL /\ peer' = [peer EXCEPT ![s] = k]
          /\ file' = file /\ key' = key
        BY <1>10 DEF Publish
    <2>2. k = made'[s].pk BY <1>3, <2>1, FiledImports
    <2> HIDE DEF k
    <2>3. made'[s] \in KeyPair BY <1>3, <2>1 DEF Filed
    <2> QED BY <1>2, <1>3, <2>1, <2>2, <2>3 DEF HeldInv
<1> QED BY <1>4, <1>5, <1>6, <1>7, <1>8, <1>9, <1>10
        DEF KeysNext, keyVars, Encrypt, Decrypt, Damage, Forget

LEMMA HeldInit == KeysInit => MadeInv /\ HeldInv
<1> SUFFICES ASSUME KeysInit PROVE MadeInv /\ HeldInv OBVIOUS
<1>1. made = [s \in Servers |-> NULL] /\ key = made /\ file = made /\ peer = made BY DEF KeysInit
<1> QED BY <1>1 DEF MadeInv, HeldInv

(* A server that restarts holds the key it made, and the client the public *)
(* key that goes with it.                                                  *)
THEOREM KeysSurviveHolds == KeysSpec => []KeysSurvive
<1>1. MadeInv /\ HeldInv => KeysSurvive BY DEF HeldInv, KeysSurvive
<1>2. MadeInv /\ HeldInv /\ [KeysNext]_keyVars => (MadeInv /\ HeldInv)' BY MadeStep, HeldStep
<1> QED BY HeldInit, <1>1, <1>2, PTL DEF KeysSpec

-----------------------------------------------------------------------------
(* Ciphertexts: an ephemeral public key, a nonce and a body. *)

Nonce == [i \in 1 .. GCM_IV_LEN_BYTES |-> 7]

Body(eph, pk, msg) ==
    PK11_Encrypt(derive_dh_secret(eph, pk), set_gcm_params(Nonce, PublicOf[eph]), msg)

Sealed(aes, param, msg) ==
    {[aes |-> aes, param |-> param, msg |-> msg, at |-> j] : j \in Nat}

Cells(eph, pk, msg) ==
    (0 .. 255) \cup Sealed(derive_dh_secret(eph, pk), set_gcm_params(Nonce, PublicOf[eph]), msg)

Parts(x, S, A, M, B) ==
    /\ A \in Seq(S) /\ Len(A) = KL
    /\ M \in Seq(S) /\ Len(M) = GCM_IV_LEN_BYTES
    /\ B \in Seq(S)
    /\ x \in Seq(S) /\ Len(x) = KL + GCM_IV_LEN_BYTES + Len(B)
    /\ \A i \in 1 .. KL : x[i] = A[i]
    /\ \A i \in 1 .. GCM_IV_LEN_BYTES : x[KL + i] = M[i]
    /\ \A i \in 1 .. Len(B) : x[KL + GCM_IV_LEN_BYTES + i] = B[i]

LEMMA Lengths ==
    /\ KL \in Nat /\ GCM_IV_LEN_BYTES \in Nat /\ GCM_TAG_LEN_BYTES \in Nat
    /\ GCM_TAG_LEN_BYTES >= 1 /\ MAX_ENCRYPT_LEN \in Nat
BY KeysAssumption DEF KL

LEMMA SubSeqIs ==
    ASSUME NEW S, NEW x \in Seq(S), NEW y \in Seq(S), NEW m \in Nat, m + Len(y) <= Len(x),
           \A i \in 1 .. Len(y) : x[m + i] = y[i]
    PROVE  SubSeq(x, m + 1, m + Len(y)) = y
<1> DEFINE l == Len(y)
           q == SubSeq(x, m + 1, m + l)
<1>1. l \in Nat OBVIOUS
<1>2. \A i \in m + 1 .. m + l : x[i] \in S
    <2> HIDE DEF q
    <2> TAKE i \in m + 1 .. m + l
    <2>1. i \in 1 .. Len(x) BY <1>1
    <2> QED BY <2>1, ElementOfSeq
<1> HIDE DEF l
<1>3. /\ q \in Seq(S)
      /\ Len(q) = IF m + 1 <= m + l THEN (m + l) - (m + 1) + 1 ELSE 0
      /\ \A i \in 1 .. (m + l) - (m + 1) + 1 : q[i] = x[(m + 1) + i - 1]
    <2>1. m + 1 \in Int /\ m + l \in Int BY <1>1
    <2> HIDE DEF q
    <2> QED BY <1>2, <2>1, SubSeqProperties DEF q
<1> HIDE DEF q
<1>4. (m + l) - (m + 1) + 1 = l BY <1>1
<1>5. Len(q) = l BY <1>1, <1>3
<1>6. ASSUME NEW i \in 1 .. l PROVE q[i] = y[i]
    <2>1. (m + 1) + i - 1 = m + i BY <1>1
    <2>2. q[i] = x[m + i] BY <1>3, <1>4, <2>1
    <2> QED BY <2>2 DEF l
<1>7. q = y
    <2>1. Len(y) = l BY DEF l
    <2> QED BY <1>3, <1>5, <1>6, <2>1, SeqEqual
<1> QED BY <1>7 DEF q, l

(* A ciphertext is opened part by part. *)
LEMMA DecryptParts ==
    ASSUME NEW S, NEW x, NEW A, NEW M, NEW B, Parts(x, S, A, M, B), MAX_ENCRYPT_LEN > 0,
           NEW k, k # NULL, NEW room \in Nat
    PROVE  PrivateKey_decrypt(k, x, room) =
               IF \/ Len(B) < GCM_TAG_LEN_BYTES \/ room < Len(B) - GCM_TAG_LEN_BYTES
                  \/ Len(B) - GCM_TAG_LEN_BYTES >= MAX_ENCRYPT_LEN
               THEN [rv |-> "failure", out |-> <<>>]
               ELSE PK11_Decrypt(derive_dh_secret(k.sk, A), set_gcm_params(M, A), B)
<1> DEFINE iv == GCM_IV_LEN_BYTES
           tag == GCM_TAG_LEN_BYTES
           b == Len(B)
           headerLen == PublicKey_encryptSize(0)
           msglen    == Len(x) - headerLen
           offset    == KL + iv
           ephPub    == PublicKey_import(SubSeq(x, 1, KL))
           nonce     == SubSeq(x, KL + 1, offset)
<1>1. KL \in Nat /\ iv \in Nat /\ tag \in Nat /\ b \in Nat /\ MAX_ENCRYPT_LEN \in Nat
    BY Lengths DEF Parts
<1>2. Len(x) = KL + iv + b BY DEF Parts
<1>3. headerLen = KL + iv + tag BY <1>1 DEF PublicKey_encryptSize, KL
<1>4. PrivateKey_decrypt(k, x, room) =
        IF \/ k = NULL \/ Len(x) < headerLen \/ room < msglen \/ msglen >= MAX_ENCRYPT_LEN
        THEN [rv |-> "failure", out |-> <<>>]
        ELSE PK11_Decrypt(derive_dh_secret(k.sk, ephPub), set_gcm_params(nonce, ephPub),
                          SubSeq(x, offset + 1, Len(x)))
    BY DEF PrivateKey_decrypt, KL
<1> HIDE DEF headerLen
<1>5. (Len(x) < headerLen) = (b < tag) /\ msglen = b - tag BY <1>1, <1>2, <1>3
<1>6. SubSeq(x, 1, KL) = A
    <2>1. \A i \in 1 .. Len(A) : x[0 + i] = A[i] BY <1>1 DEF Parts
    <2>2. /\ A \in Seq(S) /\ x \in Seq(S) /\ 0 \in Nat /\ 0 + Len(A) <= Len(x)
          /\ 0 + 1 = 1 /\ 0 + Len(A) = KL
        BY <1>1, <1>2 DEF Parts
    <2>3. SubSeq(x, 0 + 1, 0 + Len(A)) = A BY <2>1, <2>2, SubSeqIs
    <2> QED BY <2>2, <2>3
<1>7. ephPub = A BY <1>6 DEF PublicKey_import, Parts, KL
<1>8. nonce = M
    <2>1. \A i \in 1 .. Len(M) : x[KL + i] = M[i] BY DEF Parts
    <2>2. M \in Seq(S) /\ x \in Seq(S) /\ KL + Len(M) <= Len(x) /\ KL + Len(M) = offset
        BY <1>1, <1>2 DEF Parts
    <2>3. SubSeq(x, KL + 1, KL + Len(M)) = M BY <1>1, <2>1, <2>2, SubSeqIs
    <2> QED BY <2>2, <2>3
<1>9. SubSeq(x, offset + 1, Len(x)) = B
    <2>1. \A i \in 1 .. Len(B) : x[offset + i] = B[i] BY DEF Parts
    <2>2. B \in Seq(S) /\ x \in Seq(S) /\ offset \in Nat
          /\ offset + Len(B) <= Len(x) /\ offset + Len(B) = Len(x)
        BY <1>1, <1>2 DEF Parts
    <2> HIDE DEF offset
    <2>3. SubSeq(x, offset + 1, offset + Len(B)) = B BY <2>1, <2>2, SubSeqIs
    <2> QED BY <2>2, <2>3
<1> HIDE DEF ephPub, nonce, offset, msglen, b, tag
<1>10. PrivateKey_decrypt(k, x, room) =
        IF b < tag \/ room < b - tag \/ b - tag >= MAX_ENCRYPT_LEN
        THEN [rv |-> "failure", out |-> <<>>]
        ELSE PK11_Decrypt(derive_dh_secret(k.sk, A), set_gcm_params(M, A), B)
    BY <1>4, <1>5, <1>7, <1>8, <1>9
<1> QED BY <1>10 DEF b, tag

(* The octets of a ciphertext say what they were made of. *)
LEMMA EncryptCells ==
    ASSUME NEW aes, NEW param, NEW msg \in Messages
    PROVE  LET b == PK11_Encrypt(aes, param, msg)
           IN  /\ b \in Seq(Sealed(aes, param, msg))
               /\ Len(b) = Len(msg) + GCM_TAG_LEN_BYTES
               /\ \A i \in 1 .. Len(msg) + GCM_TAG_LEN_BYTES :
                     b[i] = [aes |-> aes, param |-> param, msg |-> msg, at |-> i]
<1> DEFINE n == Len(msg) + GCM_TAG_LEN_BYTES
           C(i) == [aes |-> aes, param |-> param, msg |-> msg, at |-> i]
           b == PK11_Encrypt(aes, param, msg)
<1>1. n \in Nat BY KeysAssumption, Lengths
<1>2. b = [i \in 1 .. n |-> C(i)] BY DEF PK11_Encrypt
<1>3. \A i \in 1 .. n : C(i) \in Sealed(aes, param, msg)
    <2> TAKE i \in 1 .. n
    <2>1. i \in Nat BY <1>1
    <2> QED BY <2>1 DEF Sealed
<1> HIDE DEF C, n, b
<1>4. b \in [1 .. n -> Sealed(aes, param, msg)] BY <1>2, <1>3
<1>5. b \in Seq(Sealed(aes, param, msg)) /\ Len(b) = n /\ \A i \in 1 .. n : b[i] = C(i)
    BY <1>1, <1>2, <1>4
<1> QED BY <1>5 DEF b, n, C

LEMMA EncryptInjective ==
    ASSUME NEW aes, NEW param, NEW msg \in Messages, NEW aes2, NEW param2, NEW msg2 \in Messages,
           PK11_Encrypt(aes, param, msg) = PK11_Encrypt(aes2, param2, msg2)
    PROVE  aes = aes2 /\ param = param2 /\ msg = msg2
<1> DEFINE b == PK11_Encrypt(aes, param, msg)
           b2 == PK11_Encrypt(aes2, param2, msg2)
<1>1. 1 \in 1 .. Len(msg) + GCM_TAG_LEN_BYTES /\ 1 \in 1 .. Len(msg2) + GCM_TAG_LEN_BYTES
    BY KeysAssumption, Lengths
<1>2. b[1] = [aes |-> aes, param |-> param, msg |-> msg, at |-> 1] BY <1>1, EncryptCells
<1>3. b2[1] = [aes |-> aes2, param |-> param2, msg |-> msg2, at |-> 1] BY <1>1, EncryptCells
<1> HIDE DEF b, b2
<1>4. b = b2 BY DEF b, b2
<1>5. b[1].aes = aes /\ b[1].param = param /\ b[1].msg = msg BY <1>2
<1>6. b2[1].aes = aes2 /\ b2[1].param = param2 /\ b2[1].msg = msg2 BY <1>3
<1> QED BY <1>4, <1>5, <1>6

LEMMA ConcatParts ==
    ASSUME NEW S, NEW A \in Seq(S), Len(A) = KL, NEW M \in Seq(S), Len(M) = GCM_IV_LEN_BYTES,
           NEW B \in Seq(S)
    PROVE  Parts(A \o M \o B, S, A, M, B)
<1> DEFINE iv == GCM_IV_LEN_BYTES
           b == Len(B)
           h == A \o M
           x == h \o B
<1>1. KL \in Nat /\ iv \in Nat /\ b \in Nat BY Lengths
<1>2. /\ h \in Seq(S) /\ Len(h) = KL + iv
      /\ \A i \in 1 .. KL + iv : h[i] = IF i <= KL THEN A[i] ELSE M[i - KL]
    BY ConcatProperties
<1> HIDE DEF h, b
<1>3. /\ x \in Seq(S) /\ Len(x) = KL + iv + b
      /\ \A i \in 1 .. KL + iv + b : x[i] = IF i <= KL + iv THEN h[i] ELSE B[i - (KL + iv)]
    <2>1. h \in Seq(S) /\ B \in Seq(S) BY <1>2
    <2> HIDE DEF iv
    <2>2. /\ x \in Seq(S) /\ Len(x) = Len(h) + Len(B)
          /\ \A i \in 1 .. Len(h) + Len(B) :
                x[i] = IF i <= Len(h) THEN h[i] ELSE B[i - Len(h)]
        BY <2>1, ConcatProperties
    <2> HIDE DEF x
    <2>3. Len(h) = KL + iv /\ Len(B) = b BY <1>2 DEF b
    <2> QED BY <2>2, <2>3
<1> HIDE DEF x, iv
<1>4. ASSUME NEW i \in 1 .. KL PROVE x[i] = A[i]
    <2>1. i \in 1 .. KL + iv + b /\ i <= KL + iv /\ i \in 1 .. KL + iv /\ i <= KL BY <1>1
    <2> QED BY <1>2, <1>3, <2>1
<1>5. ASSUME NEW i \in 1 .. iv PROVE x[KL + i] = M[i]
    <2>1. /\ KL + i \in 1 .. KL + iv + b /\ KL + i <= KL + iv /\ KL + i \in 1 .. KL + iv
          /\ ~ (KL + i <= KL) /\ (KL + i) - KL = i
        BY <1>1
    <2>2. x[KL + i] = h[KL + i] BY <1>3, <2>1
    <2>3. h[KL + i] = M[(KL + i) - KL] BY <1>2, <2>1
    <2> QED BY <2>1, <2>2, <2>3
<1>6. ASSUME NEW i \in 1 .. b PROVE x[KL + iv + i] = B[i]
    <2>1. /\ KL + iv + i \in 1 .. KL + iv + b /\ ~ (KL + iv + i <= KL + iv)
          /\ (KL + iv + i) - (KL + iv) = i
        BY <1>1
    <2>2. x[KL + iv + i] = B[(KL + iv + i) - (KL + iv)] BY <1>3, <2>1
    <2> QED BY <2>1, <2>2
<1> QED BY <1>3, <1>4, <1>5, <1>6 DEF Parts, x, h, iv, b

(* The damages: the last element is lost, or one of a part is another. *)
LEMMA FrontParts ==
    ASSUME NEW S, NEW x, NEW A, NEW M, NEW B, Parts(x, S, A, M, B), Len(B) >= 1
    PROVE  \E C \in Seq(S) : /\ Parts(Front(x), S, A, M, C) /\ Len(C) + 1 = Len(B)
                             /\ \A i \in 1 .. Len(C) : C[i] = B[i]
<1> DEFINE iv == GCM_IV_LEN_BYTES
           b == Len(B)
           C == SubSeq(B, 1, b - 1)
           l == Len(x)
           q == SubSeq(x, 1, l - 1)
<1>1. KL \in Nat /\ iv \in Nat /\ b \in Nat /\ b >= 1 /\ l = KL + iv + b BY Lengths DEF Parts
<1>2. x \in Seq(S) /\ B \in Seq(S) BY DEF Parts
<1>3. ASSUME NEW s \in Seq(S), Len(s) >= 1
      PROVE  /\ SubSeq(s, 1, Len(s) - 1) \in Seq(S) /\ Len(SubSeq(s, 1, Len(s) - 1)) = Len(s) - 1
             /\ \A i \in 1 .. Len(s) - 1 : SubSeq(s, 1, Len(s) - 1)[i] = s[i]
    <2> DEFINE m == Len(s) - 1
    <2>1. m \in Nat BY <1>3
    <2>2. \A i \in 1 .. m : s[i] \in S
        <3> TAKE i \in 1 .. m
        <3>1. i \in 1 .. Len(s) BY <1>3
        <3> QED BY <3>1, ElementOfSeq
    <2> HIDE DEF m
    <2>3. /\ SubSeq(s, 1, m) \in Seq(S) /\ Len(SubSeq(s, 1, m)) = IF 1 <= m THEN m - 1 + 1 ELSE 0
          /\ \A i \in 1 .. m - 1 + 1 : SubSeq(s, 1, m)[i] = s[1 + i - 1]
        <3>1. 1 \in Int /\ m \in Int BY <2>1
        <3> QED BY <2>2, <3>1, SubSeqProperties
    <2>4. m - 1 + 1 = m BY <2>1
    <2>5. \A i \in 1 .. m : 1 + i - 1 = i BY <2>1
    <2>6. Len(SubSeq(s, 1, m)) = m BY <2>1, <2>3
    <2> QED BY <2>3, <2>4, <2>5, <2>6 DEF m
<1>4. C \in Seq(S) /\ Len(C) = b - 1 /\ \A i \in 1 .. b - 1 : C[i] = B[i] BY <1>1, <1>2, <1>3
<1>5. q \in Seq(S) /\ Len(q) = l - 1 /\ \A i \in 1 .. l - 1 : q[i] = x[i]
    <2>1. Len(x) >= 1 BY <1>1
    <2> QED BY <1>2, <1>3, <2>1
<1>6. Front(x) = q BY DEF Front
<1> HIDE DEF C, q, l, b
<1>7. Len(q) = KL + iv + Len(C) /\ Len(C) + 1 = b BY <1>1, <1>4, <1>5
<1>8. ASSUME NEW i \in 1 .. KL PROVE q[i] = A[i]
    <2>1. i \in 1 .. l - 1 BY <1>1
    <2> QED BY <1>5, <2>1 DEF Parts
<1>9. ASSUME NEW i \in 1 .. iv PROVE q[KL + i] = M[i]
    <2>1. KL + i \in 1 .. l - 1 BY <1>1
    <2> QED BY <1>5, <2>1 DEF Parts
<1>10. ASSUME NEW i \in 1 .. Len(C) PROVE q[KL + iv + i] = C[i]
    <2>1. KL + iv + i \in 1 .. l - 1 /\ i \in 1 .. b /\ i \in 1 .. b - 1 BY <1>1, <1>4
    <2>2. x[KL + iv + i] = B[i] BY <2>1 DEF Parts, b
    <2> QED BY <1>4, <1>5, <2>1, <2>2
<1>11. Parts(q, S, A, M, C) BY <1>4, <1>5, <1>7, <1>8, <1>9, <1>10 DEF Parts
<1> QED BY <1>4, <1>6, <1>7, <1>11 DEF b

LEMMA ChangedParts ==
    ASSUME NEW S, NEW x, NEW A, NEW M, NEW B, Parts(x, S, A, M, B),
           NEW i \in 1 .. Len(x), NEW e \in S
    PROVE  /\ i <= KL => Parts([x EXCEPT ![i] = e], S, [A EXCEPT ![i] = e], M, B)
           /\ i > KL /\ i <= KL + GCM_IV_LEN_BYTES
              => Parts([x EXCEPT ![i] = e], S, A, [M EXCEPT ![i - KL] = e], B)
           /\ i > KL + GCM_IV_LEN_BYTES
              => Parts([x EXCEPT ![i] = e], S, A, M, [B EXCEPT ![i - (KL + GCM_IV_LEN_BYTES)] = e])
<1> DEFINE iv == GCM_IV_LEN_BYTES
           b == Len(B)
           l == Len(x)
           y == [x EXCEPT ![i] = e]
<1>1. KL \in Nat /\ iv \in Nat /\ b \in Nat /\ l = KL + iv + b BY Lengths DEF Parts
<1>2. A \in Seq(S) /\ M \in Seq(S) /\ B \in Seq(S) /\ x \in Seq(S) BY DEF Parts
<1>3. Len(A) = KL /\ Len(M) = iv BY DEF Parts
<1>4. /\ y \in Seq(S) /\ Len(y) = l
      /\ \A j \in 1 .. l : y[j] = IF j = i THEN e ELSE x[j]
    BY <1>2, ExceptSeq
<1>5. \A j \in 1 .. KL : j \in 1 .. l /\ x[j] = A[j] BY <1>1 DEF Parts
<1>6. \A j \in 1 .. iv : KL + j \in 1 .. l /\ x[KL + j] = M[j] BY <1>1 DEF Parts
<1>7. \A j \in 1 .. b : KL + iv + j \in 1 .. l /\ x[KL + iv + j] = B[j] BY <1>1 DEF Parts
<1> HIDE DEF y, l, b
<1>8. ASSUME i <= KL PROVE Parts(y, S, [A EXCEPT ![i] = e], M, B)
    <2> DEFINE A2 == [A EXCEPT ![i] = e]
    <2>1. i \in 1 .. Len(A) BY <1>1, <1>3, <1>8 DEF l
    <2>2. /\ A2 \in Seq(S) /\ Len(A2) = KL
          /\ \A j \in 1 .. KL : A2[j] = IF j = i THEN e ELSE A[j]
        BY <1>2, <1>3, <2>1, ExceptSeq
    <2> HIDE DEF A2
    <2>3. \A j \in 1 .. KL : y[j] = A2[j] BY <1>4, <1>5, <2>2
    <2>4. \A j \in 1 .. iv : y[KL + j] = M[j]
        <3> TAKE j \in 1 .. iv
        <3>1. KL + j # i BY <1>1, <1>8
        <3> QED BY <1>4, <1>6, <3>1
    <2>5. \A j \in 1 .. b : y[KL + iv + j] = B[j]
        <3> TAKE j \in 1 .. b
        <3>1. KL + iv + j # i BY <1>1, <1>8
        <3> QED BY <1>4, <1>7, <3>1
    <2>6. Len(y) = KL + iv + b BY <1>1, <1>4
    <2> QED BY <1>2, <1>3, <1>4, <2>2, <2>3, <2>4, <2>5, <2>6 DEF Parts, A2, b
<1>9. ASSUME i > KL, i <= KL + iv PROVE Parts(y, S, A, [M EXCEPT ![i - KL] = e], B)
    <2> DEFINE k == i - KL
               N2 == [M EXCEPT ![k] = e]
    <2>1. k \in 1 .. Len(M) BY <1>1, <1>3, <1>9 DEF l
    <2>2. /\ N2 \in Seq(S) /\ Len(N2) = iv
          /\ \A j \in 1 .. iv : N2[j] = IF j = k THEN e ELSE M[j]
        <3> HIDE DEF k
        <3> QED BY <1>2, <1>3, <2>1, ExceptSeq
    <2> HIDE DEF N2
    <2>3. \A j \in 1 .. KL : y[j] = A[j]
        <3> TAKE j \in 1 .. KL
        <3>1. j # i BY <1>1, <1>9
        <3> QED BY <1>4, <1>5, <3>1
    <2>4. \A j \in 1 .. iv : y[KL + j] = N2[j]
        <3> TAKE j \in 1 .. iv
        <3>1. KL + j = i <=> j = k BY <1>1, <1>9 DEF l
        <3> HIDE DEF k
        <3> QED BY <1>4, <1>6, <2>2, <3>1
    <2>5. \A j \in 1 .. b : y[KL + iv + j] = B[j]
        <3> TAKE j \in 1 .. b
        <3>1. KL + iv + j # i BY <1>1, <1>9
        <3> QED BY <1>4, <1>7, <3>1
    <2>6. Len(y) = KL + iv + b BY <1>1, <1>4
    <2> QED BY <1>2, <1>3, <1>4, <2>2, <2>3, <2>4, <2>5, <2>6 DEF Parts, N2, k, b
<1>10. ASSUME i > KL + iv PROVE Parts(y, S, A, M, [B EXCEPT ![i - (KL + iv)] = e])
    <2> DEFINE k == i - (KL + iv)
               B2 == [B EXCEPT ![k] = e]
    <2>1. k \in 1 .. b BY <1>1, <1>10 DEF l
    <2>2. /\ B2 \in Seq(S) /\ Len(B2) = b
          /\ \A j \in 1 .. b : B2[j] = IF j = k THEN e ELSE B[j]
        <3> HIDE DEF k
        <3> QED BY <1>2, <2>1, ExceptSeq DEF b
    <2> HIDE DEF B2
    <2>3. \A j \in 1 .. KL : y[j] = A[j]
        <3> TAKE j \in 1 .. KL
        <3>1. j # i BY <1>1, <1>10
        <3> QED BY <1>4, <1>5, <3>1
    <2>4. \A j \in 1 .. iv : y[KL + j] = M[j]
        <3> TAKE j \in 1 .. iv
        <3>1. KL + j # i BY <1>1, <1>10
        <3> QED BY <1>4, <1>6, <3>1
    <2>5. \A j \in 1 .. b : y[KL + iv + j] = B2[j]
        <3> TAKE j \in 1 .. b
        <3>1. KL + iv + j = i <=> j = k BY <1>1, <1>10 DEF l
        <3> HIDE DEF k
        <3> QED BY <1>4, <1>7, <2>2, <3>1
    <2>6. Len(y) = KL + iv + b BY <1>1, <1>4
    <2> QED BY <1>2, <1>3, <1>4, <2>2, <2>3, <2>4, <2>5, <2>6 DEF Parts, B2, k
<1> QED BY <1>8, <1>9, <1>10 DEF y

-----------------------------------------------------------------------------
(* What may be on the way, and what was opened. *)

(* The end is lost, or an element of one part is another: the body no      *)
(* longer is what the two other parts and some message give.               *)
Spoilt(A, M, B, eph, pk, msg) ==
    \/ /\ Len(B) + 1 = Len(msg) + GCM_TAG_LEN_BYTES
       /\ \A j \in 1 .. Len(B) : B[j] = Body(eph, pk, msg)[j]
    \/ A # PublicOf[eph] /\ B = Body(eph, pk, msg)
    \/ M # Nonce /\ B = Body(eph, pk, msg)
    \/ \E j \in 1 .. Len(B) : B[j].at = 0

Letter(m, pk) ==
    /\ m = [input |-> m.input, to |-> m.to, msg |-> m.msg, whole |-> m.whole]
    /\ m.msg \in Messages /\ Len(m.msg) < MAX_ENCRYPT_LEN
    /\ m.whole \in BOOLEAN
    /\ \E eph \in PrivateKeys : \E A, M, B :
          /\ Parts(m.input, Cells(eph, pk, m.msg), A, M, B)
          /\ IF m.whole THEN A = PublicOf[eph] /\ M = Nonce /\ B = Body(eph, pk, m.msg)
             ELSE Spoilt(A, M, B, eph, pk, m.msg)

MailInv ==
    mail = NoMail \/ /\ mail.to \in Servers /\ made[mail.to] \in KeyPair
                     /\ Letter(mail, made[mail.to].pk)

(* The last call was of the key its server made, on what is in the mail.   *)
OpenedInv ==
    opened.rv # "none" =>
        /\ mail.input # NULL
        /\ opened.by \in Servers /\ opened.max \in Nat /\ opened.held \in BOOLEAN
        /\ opened.held => made[opened.by] \in KeyPair
        /\ LET res == PrivateKey_decrypt(IF opened.held THEN made[opened.by] ELSE NULL,
                                         mail.input, opened.max)
           IN  opened.rv = res.rv /\ opened.out = res.out

LEMMA BodyCells ==
    ASSUME NEW eph \in PrivateKeys, NEW pk, NEW msg \in Messages
    PROVE  /\ Body(eph, pk, msg) \in Seq(Cells(eph, pk, msg))
           /\ Len(Body(eph, pk, msg)) = Len(msg) + GCM_TAG_LEN_BYTES
           /\ Len(Body(eph, pk, msg)) \in Nat /\ Len(Body(eph, pk, msg)) >= 1
           /\ \A i \in 1 .. Len(msg) + GCM_TAG_LEN_BYTES :
                 Body(eph, pk, msg)[i] = [aes |-> derive_dh_secret(eph, pk),
                                          param |-> set_gcm_params(Nonce, PublicOf[eph]),
                                          msg |-> msg, at |-> i]
<1> DEFINE aes == derive_dh_secret(eph, pk)
           param == set_gcm_params(Nonce, PublicOf[eph])
           b == Body(eph, pk, msg)
<1> HIDE DEF aes, param
<1>1. b = PK11_Encrypt(aes, param, msg) BY DEF Body, aes, param
<1> HIDE DEF b
<1>2. /\ b \in Seq(Sealed(aes, param, msg))
      /\ Len(b) = Len(msg) + GCM_TAG_LEN_BYTES
      /\ \A i \in 1 .. Len(msg) + GCM_TAG_LEN_BYTES :
            b[i] = [aes |-> aes, param |-> param, msg |-> msg, at |-> i]
    BY <1>1, EncryptCells
<1>3. Sealed(aes, param, msg) \subseteq Cells(eph, pk, msg) BY DEF Cells, aes, param
<1>4. b \in Seq(Cells(eph, pk, msg)) BY <1>2, <1>3, SeqMonotonic
<1>5. Len(msg) + GCM_TAG_LEN_BYTES \in Nat /\ Len(msg) + GCM_TAG_LEN_BYTES >= 1
    BY KeysAssumption, Lengths
<1> QED BY <1>2, <1>4, <1>5 DEF b, aes, param

LEMMA PublicCells ==
    ASSUME NEW eph \in PrivateKeys, NEW pk, NEW msg
    PROVE  /\ PublicOf[eph] \in Seq(0 .. 255) /\ Nonce \in Seq(0 .. 255)
           /\ PublicOf[eph] \in Seq(Cells(eph, pk, msg)) /\ Len(PublicOf[eph]) = KL
           /\ Nonce \in Seq(Cells(eph, pk, msg)) /\ Len(Nonce) = GCM_IV_LEN_BYTES
<1>1. PublicOf[eph] \in [1 .. KL -> 0 .. 255] BY KeysAssumption DEF KL
<1>2. PublicOf[eph] \in Seq(0 .. 255) /\ Len(PublicOf[eph]) = KL
    <2> DEFINE p == PublicOf[eph]
    <2>1. p \in [1 .. KL -> 0 .. 255] /\ KL \in Nat BY <1>1, Lengths
    <2> HIDE DEF p, KL
    <2>2. p \in Seq(0 .. 255) /\ Len(p) = KL BY <2>1
    <2> QED BY <2>2 DEF p
<1>3. Nonce \in Seq(0 .. 255) /\ Len(Nonce) = GCM_IV_LEN_BYTES BY Lengths DEF Nonce
<1>4. (0 .. 255) \subseteq Cells(eph, pk, msg) BY DEF Cells
<1> QED BY <1>2, <1>3, <1>4, SeqMonotonic

(* Nothing comes out of what was spoilt. *)
LEMMA SpoiltFails ==
    ASSUME NEW eph \in PrivateKeys, NEW pk, NEW msg \in Messages, NEW A, NEW M, NEW B,
           Spoilt(A, M, B, eph, pk, msg), Len(B) \in Nat, NEW aes
    PROVE  \/ Len(B) < GCM_TAG_LEN_BYTES
           \/ PK11_Decrypt(aes, set_gcm_params(M, A), B) = [rv |-> "failure", out |-> <<>>]
<1> DEFINE param == set_gcm_params(M, A)
<1> SUFFICES ASSUME Len(B) >= GCM_TAG_LEN_BYTES, NEW m \in Messages,
                    B = PK11_Encrypt(aes, param, m)
             PROVE  FALSE
    <2>1. ASSUME ~ \E m \in Messages : B = PK11_Encrypt(aes, param, m)
          PROVE  PK11_Decrypt(aes, param, B) = [rv |-> "failure", out |-> <<>>]
        BY <2>1 DEF PK11_Decrypt
    <2> HIDE DEF param
    <2> QED BY <2>1, Lengths DEF param
<1>1. /\ Len(B) = Len(m) + GCM_TAG_LEN_BYTES
      /\ \A i \in 1 .. Len(m) + GCM_TAG_LEN_BYTES :
            B[i] = [aes |-> aes, param |-> param, msg |-> m, at |-> i]
    BY EncryptCells
<1>2. CASE /\ Len(B) + 1 = Len(msg) + GCM_TAG_LEN_BYTES
           /\ \A j \in 1 .. Len(B) : B[j] = Body(eph, pk, msg)[j]
    <2>1. /\ 1 \in 1 .. Len(B) /\ 1 \in 1 .. Len(m) + GCM_TAG_LEN_BYTES
          /\ 1 \in 1 .. Len(msg) + GCM_TAG_LEN_BYTES
        BY <1>1, <1>2, Lengths, KeysAssumption
    <2>2. B[1].msg = m BY <1>1, <2>1
    <2>3. Body(eph, pk, msg)[1].msg = msg
        <3> DEFINE b == Body(eph, pk, msg)
                   c == [aes |-> derive_dh_secret(eph, pk),
                         param |-> set_gcm_params(Nonce, PublicOf[eph]), msg |-> msg, at |-> 1]
        <3>1. b[1] = c BY <2>1, BodyCells
        <3>2. c.msg = msg OBVIOUS
        <3> HIDE DEF b, c
        <3>3. b[1].msg = msg BY <3>1, <3>2
        <3> QED BY <3>3 DEF b
    <2>4. m = msg BY <1>2, <2>1, <2>2, <2>3
    <2>5. Len(m) \in Nat /\ Len(msg) \in Nat BY KeysAssumption
    <2> QED BY <1>1, <1>2, <2>4, <2>5, Lengths
<1>3. CASE (A # PublicOf[eph] \/ M # Nonce) /\ B = Body(eph, pk, msg)
    <2>1. param = set_gcm_params(Nonce, PublicOf[eph])
        <3> DEFINE p0 == set_gcm_params(Nonce, PublicOf[eph])
                   a0 == derive_dh_secret(eph, pk)
        <3>1. PK11_Encrypt(aes, param, m) = PK11_Encrypt(a0, p0, msg) BY <1>3 DEF Body
        <3> HIDE DEF p0, a0, param
        <3> QED BY <3>1, EncryptInjective DEF p0
    <2>2. param.iv = M /\ param.aad[2] = A BY DEF set_gcm_params
    <2>3. param.iv = Nonce /\ param.aad[2] = PublicOf[eph] BY <2>1 DEF set_gcm_params
    <2> QED BY <1>3, <2>2, <2>3
<1>4. CASE \E j \in 1 .. Len(B) : B[j].at = 0
    <2>1. PICK j \in 1 .. Len(B) : B[j].at = 0 BY <1>4
    <2>2. j \in 1 .. Len(m) + GCM_TAG_LEN_BYTES BY <1>1
    <2>3. B[j].at = j BY <1>1, <2>2
    <2> QED BY <2>1, <2>3
<1> QED BY <1>2, <1>3, <1>4 DEF Spoilt

LEMMA MailRecord ==
    ASSUME NEW m, m = [input |-> m.input, to |-> m.to, msg |-> m.msg, whole |-> m.whole], NEW v
    PROVE  [m EXCEPT !.input = v, !.whole = FALSE]
             = [input |-> v, to |-> m.to, msg |-> m.msg, whole |-> FALSE]
<1> DEFINE r == [m EXCEPT !.input = v, !.whole = FALSE]
           R == [input : {m.input, v}, to : {m.to}, msg : {m.msg}, whole : {m.whole, FALSE}]
<1>1. m \in R OBVIOUS
<1>2. r \in R /\ r.input = v /\ r.whole = FALSE /\ r.to = m.to /\ r.msg = m.msg
    <2> HIDE DEF R
    <2>1. m \in R BY <1>1
    <2> QED BY <2>1 DEF R
<1> HIDE DEF r
<1>3. r = [input |-> r.input, to |-> r.to, msg |-> r.msg, whole |-> r.whole] BY <1>2
<1> QED BY <1>2, <1>3 DEF r

(* What Damage leaves of a whole letter is spoilt. *)
LEMMA DamageStep ==
    ASSUME NEW pk, Letter(mail, pk), Damage
    PROVE  Letter(mail', pk) /\ mail'.to = mail.to
<1> DEFINE msg == mail.msg
           x == mail.input
           iv == GCM_IV_LEN_BYTES
           damaged(v) == [input |-> v, to |-> mail.to, msg |-> mail.msg, whole |-> FALSE]
<1>1. /\ mail = [input |-> x, to |-> mail.to, msg |-> msg, whole |-> mail.whole]
      /\ msg \in Messages /\ Len(msg) < MAX_ENCRYPT_LEN
    BY DEF Letter
<1>2. mail.whole BY DEF Damage
<1> DEFINE Whole(eph, A, M, B) ==
               /\ Parts(x, Cells(eph, pk, msg), A, M, B)
               /\ A = PublicOf[eph] /\ M = Nonce /\ B = Body(eph, pk, msg)
<1>10. PICK eph \in PrivateKeys : \E A, M, B : Whole(eph, A, M, B) BY <1>2 DEF Letter
<1>11. PICK A, M, B : Whole(eph, A, M, B) BY <1>10
<1>3. /\ Parts(x, Cells(eph, pk, msg), A, M, B)
      /\ A = PublicOf[eph] /\ M = Nonce /\ B = Body(eph, pk, msg)
    BY <1>11
<1> HIDE DEF Whole
<1> DEFINE S == Cells(eph, pk, msg)
<1>4. /\ Len(B) = Len(msg) + GCM_TAG_LEN_BYTES /\ Len(B) \in Nat /\ Len(B) >= 1
      /\ \A i \in 1 .. Len(B) :
            B[i] = [aes |-> derive_dh_secret(eph, pk),
                    param |-> set_gcm_params(Nonce, PublicOf[eph]), msg |-> msg, at |-> i]
    BY <1>1, <1>3, BodyCells
<1>5. A \in Seq(0 .. 255) /\ M \in Seq(0 .. 255) /\ Len(A) = KL /\ Len(M) = iv
    BY <1>3, PublicCells
<1>6. KL \in Nat /\ iv \in Nat BY Lengths
<1>7. ASSUME NEW v, mail' = damaged(v), NEW C, NEW D, NEW E, Parts(v, S, C, D, E),
             Spoilt(C, D, E, eph, pk, msg)
      PROVE  Letter(mail', pk) /\ mail'.to = mail.to
    <2>1. /\ mail'.input = v /\ mail'.to = mail.to /\ mail'.msg = msg /\ mail'.whole = FALSE
        BY <1>7
    <2> HIDE DEF msg
    <2>2. mail' = [input |-> mail'.input, to |-> mail'.to, msg |-> mail'.msg, whole |-> mail'.whole]
        BY <1>7, <2>1 DEF msg
    <2>3. \E e \in PrivateKeys : \E F, G, H :
              /\ Parts(mail'.input, Cells(e, pk, mail'.msg), F, G, H)
              /\ IF mail'.whole THEN F = PublicOf[e] /\ G = Nonce /\ H = Body(e, pk, mail'.msg)
                 ELSE Spoilt(F, G, H, e, pk, mail'.msg)
        BY <1>7, <2>1
    <2> QED BY <1>1, <2>1, <2>2, <2>3 DEF Letter
<1>8. CASE mail' = [mail EXCEPT !.input = Front(@), !.whole = FALSE]
    <2>1. mail' = damaged(Front(x)) BY <1>1, <1>8, MailRecord
    <2>2. PICK C \in Seq(S) : /\ Parts(Front(x), S, A, M, C) /\ Len(C) + 1 = Len(B)
                              /\ \A i \in 1 .. Len(C) : C[i] = B[i]
        BY <1>3, <1>4, FrontParts
    <2>3. Spoilt(A, M, C, eph, pk, msg) BY <1>3, <1>4, <2>2 DEF Spoilt
    <2> QED BY <1>7, <2>1, <2>2, <2>3
<1>9. ASSUME NEW i \in DOMAIN x,
             mail' = [mail EXCEPT !.input[i] = IF i <= CURVE25519_KEY_LEN + GCM_IV_LEN_BYTES
                                               THEN (@ + 1) % 256 ELSE [@ EXCEPT !.at = 0],
                                  !.whole = FALSE]
      PROVE  Letter(mail', pk) /\ mail'.to = mail.to
    <2> DEFINE e == IF i <= KL + iv THEN (x[i] + 1) % 256 ELSE [x[i] EXCEPT !.at = 0]
               v == [x EXCEPT ![i] = e]
    <2>1. mail' = damaged(v)
        <3>1. mail' = [mail EXCEPT !.input = v, !.whole = FALSE] BY <1>9 DEF KL
        <3> HIDE DEF v
        <3> QED BY <1>1, <3>1, MailRecord
    <2>2. i \in 1 .. Len(x) /\ Len(x) = KL + iv + Len(B) BY <1>3, <1>9 DEF Parts
    <2>3. CASE i <= KL
        <3>1. i \in 1 .. KL /\ x[i] = A[i] BY <1>3, <1>6, <2>2, <2>3 DEF Parts
        <3>2. A[i] \in 0 .. 255 BY <1>5, <3>1, ElementOfSeq
        <3>3. e = (A[i] + 1) % 256 BY <1>6, <2>2, <2>3, <3>1
        <3> HIDE DEF e
        <3>4. e \in 0 .. 255 /\ e # A[i] BY <3>2, <3>3
        <3>5. e \in S BY <3>4 DEF Cells
        <3> HIDE DEF S
        <3>6. Parts(v, S, [A EXCEPT ![i] = e], M, B) BY <1>3, <2>2, <2>3, <3>5, ChangedParts DEF S
        <3>7. [A EXCEPT ![i] = e][i] = e BY <1>5, <3>1
        <3>8. Spoilt([A EXCEPT ![i] = e], M, B, eph, pk, msg)
            BY <1>3, <3>4, <3>7 DEF Spoilt
        <3> HIDE DEF v
        <3> QED BY <1>7, <2>1, <3>6, <3>8 DEF S
    <2>4. CASE i > KL /\ i <= KL + iv
        <3> DEFINE k == i - KL
        <3>1. k \in 1 .. iv /\ x[i] = M[k]
            <4>1. k \in 1 .. iv /\ KL + k = i BY <1>6, <2>2, <2>4
            <4> HIDE DEF k
            <4> QED BY <1>3, <4>1 DEF Parts
        <3>2. M[k] \in 0 .. 255
            <4> HIDE DEF k
            <4> QED BY <1>5, <3>1, ElementOfSeq
        <3>3. e = (M[k] + 1) % 256 BY <2>4, <3>1
        <3> HIDE DEF e
        <3>4. e \in 0 .. 255 /\ e # M[k] BY <3>2, <3>3
        <3>5. e \in S BY <3>4 DEF Cells
        <3> HIDE DEF S
        <3>6. Parts(v, S, A, [M EXCEPT ![k] = e], B) BY <1>3, <2>2, <2>4, <3>5, ChangedParts DEF S
        <3> HIDE DEF k
        <3>7. [M EXCEPT ![k] = e][k] = e BY <1>5, <3>1
        <3>8. Spoilt(A, [M EXCEPT ![k] = e], B, eph, pk, msg)
            BY <1>3, <3>4, <3>7 DEF Spoilt
        <3> HIDE DEF v
        <3> QED BY <1>7, <2>1, <3>6, <3>8 DEF S
    <2>5. CASE i > KL + iv
        <3> DEFINE k == i - (KL + iv)
                   c == [aes |-> derive_dh_secret(eph, pk),
                         param |-> set_gcm_params(Nonce, PublicOf[eph]), msg |-> msg, at |-> k]
                   B2 == [B EXCEPT ![k] = e]
        <3>1. k \in 1 .. Len(B) /\ x[i] = B[k]
            <4>1. k \in 1 .. Len(B) /\ KL + iv + k = i BY <1>4, <1>6, <2>2, <2>5
            <4> HIDE DEF k
            <4> QED BY <1>3, <4>1 DEF Parts
        <3>2. x[i] = c BY <1>4, <3>1
        <3>3. e = [c EXCEPT !.at = 0] BY <1>6, <2>2, <2>5, <3>2
        <3>4. e = [aes |-> derive_dh_secret(eph, pk),
                   param |-> set_gcm_params(Nonce, PublicOf[eph]), msg |-> msg, at |-> 0]
            BY <3>3
        <3>5. e \in S /\ e.at = 0
            <4> DEFINE aes == derive_dh_secret(eph, pk)
                       param == set_gcm_params(Nonce, PublicOf[eph])
                       d == [aes |-> aes, param |-> param, msg |-> msg, at |-> 0]
            <4>1. d \in Sealed(aes, param, msg) /\ d.at = 0 BY DEF Sealed
            <4>2. Sealed(aes, param, msg) \subseteq S BY DEF Cells
            <4>3. e = d BY <3>4
            <4> HIDE DEF e, d, S, aes, param
            <4> QED BY <4>1, <4>2, <4>3
        <3> HIDE DEF e, c
        <3> HIDE DEF S
        <3>6. Parts(v, S, A, M, B2) BY <1>3, <2>2, <2>5, <3>5, ChangedParts DEF S
        <3> HIDE DEF k
        <3>7. B2[k] = e /\ Len(B2) = Len(B) BY <1>3, <3>1, <3>5, ExceptSeq DEF Parts, S
        <3> HIDE DEF B2
        <3>8. Spoilt(A, M, B2, eph, pk, msg) BY <3>1, <3>5, <3>7 DEF Spoilt
        <3> HIDE DEF v
        <3> QED BY <1>7, <2>1, <3>6, <3>8 DEF S
    <2> QED BY <1>6, <2>2, <2>3, <2>4, <2>5
<1> QED BY <1>8, <1>9 DEF Damage

LEMMA EncryptStep ==
    ASSUME HeldInv, NEW s \in Servers, NEW msg \in Messages, NEW n, Encrypt(s, msg, n)
    PROVE  \/ mail' = NoMail
           \/ /\ mail'.to = s /\ made[s] \in KeyPair
              /\ Letter(mail', made[s].pk)
<1>1. PICK eph \in PrivateKeys :
        LET ct == PublicKey_encrypt(peer[s], eph, [i \in 1 .. GCM_IV_LEN_BYTES |-> 7], msg, n)
        IN  mail' = IF ct = NULL THEN NoMail
                    ELSE [input |-> ct, to |-> s, msg |-> msg, whole |-> TRUE]
    BY DEF Encrypt
<1> DEFINE ct == PublicKey_encrypt(peer[s], eph, Nonce, msg, n)
           pk == made[s].pk
<1>2. mail' = IF ct = NULL THEN NoMail ELSE [input |-> ct, to |-> s, msg |-> msg, whole |-> TRUE]
    BY <1>1 DEF Nonce
<1> SUFFICES ASSUME ct # NULL
             PROVE  mail'.to = s /\ made[s] \in KeyPair /\ Letter(mail', pk)
    <2> HIDE DEF ct
    <2> QED BY <1>2
<1>3. /\ peer[s] # NULL /\ Len(msg) < MAX_ENCRYPT_LEN
      /\ ct = PublicOf[eph] \o Nonce
                \o PK11_Encrypt(derive_dh_secret(eph, peer[s]), set_gcm_params(Nonce, PublicOf[eph]),
                                msg)
    <2>1. peer[s] # NULL /\ ~ (Len(msg) >= MAX_ENCRYPT_LEN) BY DEF PublicKey_encrypt
    <2>2. Len(msg) < MAX_ENCRYPT_LEN BY <2>1, KeysAssumption
    <2> QED BY <2>1, <2>2 DEF PublicKey_encrypt
<1>4. made[s] \in KeyPair /\ peer[s] = pk BY <1>3 DEF HeldInv
<1>5. ct = PublicOf[eph] \o Nonce \o Body(eph, pk, msg) BY <1>3, <1>4 DEF Body
<1> HIDE DEF ct, pk
<1>6. Parts(ct, Cells(eph, pk, msg), PublicOf[eph], Nonce, Body(eph, pk, msg))
    BY <1>5, PublicCells, BodyCells, ConcatParts
<1>7. mail' = [input |-> ct, to |-> s, msg |-> msg, whole |-> TRUE] BY <1>2
<1>8. mail'.input = ct /\ mail'.to = s /\ mail'.msg = msg /\ mail'.whole = TRUE BY <1>7
<1>9. mail' = [input |-> mail'.input, to |-> mail'.to, msg |-> mail'.msg, whole |-> mail'.whole]
    BY <1>7, <1>8
<1>10. Letter(mail', pk) BY <1>3, <1>6, <1>8, <1>9 DEF Letter
<1> QED BY <1>4, <1>8, <1>10

LEMMA MailStep ==
    ASSUME MadeInv, HeldInv, MailInv, [KeysNext]_keyVars
    PROVE  MailInv'
<1>1. \A s \in Servers : made[s] # NULL => made'[s] = made[s] BY MadeStep
<1>2. ASSUME mail' = mail PROVE MailInv' BY <1>1, <1>2, PairNotNull DEF MailInv, Letter
<1>3. ASSUME NEW s \in Servers, NEW msg \in Messages, NEW n, Encrypt(s, msg, n) PROVE MailInv'
    <2>1. made' = made BY <1>3 DEF Encrypt
    <2> QED BY <1>3, <2>1, EncryptStep DEF MailInv, Letter
<1>4. CASE Damage
    <2>1. made' = made /\ mail # NoMail
        <3>1. made' = made /\ mail.input # NULL BY <1>4 DEF Damage
        <3>2. NoMail.input = NULL BY DEF NoMail
        <3> QED BY <3>1, <3>2
    <2>2. mail.to \in Servers /\ made[mail.to] \in KeyPair /\ Letter(mail, made[mail.to].pk)
        BY <2>1 DEF MailInv
    <2>3. Letter(mail', made[mail.to].pk) /\ mail'.to = mail.to BY <1>4, <2>2, DamageStep
    <2> QED BY <2>1, <2>2, <2>3 DEF MailInv, Letter
<1>5. CASE Forget BY <1>5 DEF Forget, MailInv
<1>6. ASSUME NEW s \in Servers,
             \/ Keypair_new(s) \/ Retype(s) \/ Stop(s) \/ Restart(s) \/ Publish(s)
             \/ \E form \in {"raw", "hex"} : Export(s, form)
             \/ \E n \in BufferLens : Decrypt(s, n)
      PROVE  mail' = mail
    BY <1>6, ZenonT(30) DEF Keypair_new, Retype, Stop, Restart, Publish, Export, Decrypt
<1>7. UNCHANGED keyVars => mail' = mail BY DEF keyVars
<1> QED BY <1>2, <1>3, <1>4, <1>5, <1>6, <1>7 DEF KeysNext

LEMMA OpenedStep ==
    ASSUME MadeInv, HeldInv, OpenedInv, [KeysNext]_keyVars
    PROVE  OpenedInv'
<1>1. \A s \in Servers : made[s] # NULL => made'[s] = made[s] BY MadeStep
<1>2. ASSUME mail' = mail, opened' = opened PROVE OpenedInv' BY <1>1, <1>2, PairNotNull DEF OpenedInv
<1>3. ASSUME opened' = NotOpened PROVE OpenedInv' BY <1>3 DEF OpenedInv, NotOpened
<1>4. ASSUME mail.input = NULL, opened' = opened PROVE OpenedInv' BY <1>4 DEF OpenedInv
<1>5. ASSUME NEW s \in Servers, NEW n \in BufferLens, Decrypt(s, n) PROVE OpenedInv'
    <2> DEFINE res == PrivateKey_decrypt(key[s], mail.input, n)
    <2>1. /\ mail.input # NULL /\ mail' = mail /\ made' = made
          /\ opened' = [by |-> s, held |-> key[s] # NULL, max |-> n, rv |-> res.rv, out |-> res.out]
        BY <1>5 DEF Decrypt
    <2> HIDE DEF res
    <2>2. /\ opened'.by = s /\ opened'.held = (key[s] # NULL) /\ opened'.max = n
          /\ opened'.rv = res.rv /\ opened'.out = res.out
        BY <2>1
    <2>3. n \in Nat BY KeysAssumption
    <2>4. key[s] # NULL => made[s] \in KeyPair /\ key[s] = made[s] BY DEF HeldInv
    <2>5. (IF opened'.held THEN made[s] ELSE NULL) = key[s] BY <2>2, <2>4
    <2>6. res = PrivateKey_decrypt(IF opened'.held THEN made'[opened'.by] ELSE NULL,
                                   mail'.input, opened'.max)
        BY <2>1, <2>2, <2>5 DEF res
    <2> QED BY <2>1, <2>2, <2>3, <2>4, <2>6 DEF OpenedInv
<1>6. ASSUME NEW s \in Servers,
             \/ Keypair_new(s) \/ Retype(s) \/ Stop(s) \/ Restart(s) \/ Publish(s)
             \/ \E form \in {"raw", "hex"} : Export(s, form)
      PROVE  mail' = mail /\ opened' = opened
    BY <1>6, ZenonT(30) DEF Keypair_new, Retype, Stop, Restart, Publish, Export
<1>7. ASSUME NEW s \in Servers, NEW msg, NEW n, Encrypt(s, msg, n)
      PROVE  mail.input = NULL /\ opened' = opened
    BY <1>7 DEF Encrypt
<1>8. Damage \/ Forget => opened' = NotOpened BY DEF Damage, Forget
<1>9. UNCHANGED keyVars => mail' = mail /\ opened' = opened BY DEF keyVars
<1> QED BY <1>2, <1>3, <1>4, <1>5, <1>6, <1>7, <1>8, <1>9 DEF KeysNext

(* What comes out of a letter with a key, or without one. *)
LEMMA LetterOpened ==
    ASSUME MadeInv, NEW to \in Servers, made[to] \in KeyPair, NEW m, Letter(m, made[to].pk),
           NEW by \in Servers, NEW room \in Nat, NEW k, k # NULL => k = made[by] /\ k \in KeyPair
    PROVE  PrivateKey_decrypt(k, m.input, room) =
               IF k # NULL /\ m.whole /\ by = to /\ room >= Len(m.msg)
               THEN [rv |-> "success", out |-> m.msg]
               ELSE [rv |-> "failure", out |-> <<>>]
<1> DEFINE msg == m.msg
           pk == made[to].pk
           tag == GCM_TAG_LEN_BYTES
           fail == [rv |-> "failure", out |-> <<>>]
<1>1. CASE k = NULL BY <1>1 DEF PrivateKey_decrypt
<1>2. CASE k # NULL
    <2>1. /\ msg \in Messages /\ Len(msg) < MAX_ENCRYPT_LEN /\ m.whole \in BOOLEAN BY DEF Letter
    <2> DEFINE Sent(eph, A, M, B) ==
                   /\ Parts(m.input, Cells(eph, pk, msg), A, M, B)
                   /\ IF m.whole THEN A = PublicOf[eph] /\ M = Nonce /\ B = Body(eph, pk, msg)
                      ELSE Spoilt(A, M, B, eph, pk, msg)
    <2>8. PICK eph \in PrivateKeys : \E A, M, B : Sent(eph, A, M, B) BY DEF Letter
    <2>9. PICK A, M, B : Sent(eph, A, M, B) BY <2>8
    <2>2. /\ Parts(m.input, Cells(eph, pk, msg), A, M, B)
          /\ IF m.whole THEN A = PublicOf[eph] /\ M = Nonce /\ B = Body(eph, pk, msg)
             ELSE Spoilt(A, M, B, eph, pk, msg)
        BY <2>9
    <2> HIDE DEF Sent
    <2> DEFINE aes == derive_dh_secret(k.sk, A)
               param == set_gcm_params(M, A)
    <2>3. Len(msg) \in Nat /\ Len(B) \in Nat /\ tag \in Nat /\ MAX_ENCRYPT_LEN \in Nat
        BY <2>1, <2>2, KeysAssumption, Lengths DEF Parts
    <2>4. MAX_ENCRYPT_LEN > 0 BY <2>1, <2>3
    <2>5. PrivateKey_decrypt(k, m.input, room) =
            IF Len(B) < tag \/ room < Len(B) - tag \/ Len(B) - tag >= MAX_ENCRYPT_LEN
            THEN fail ELSE PK11_Decrypt(aes, param, B)
        <3> DEFINE S == Cells(eph, pk, msg)
                   x == m.input
        <3>1. Parts(x, S, A, M, B) BY <2>2
        <3> HIDE DEF S, x
        <3>2. PrivateKey_decrypt(k, x, room) =
                IF \/ Len(B) < GCM_TAG_LEN_BYTES \/ room < Len(B) - GCM_TAG_LEN_BYTES
                   \/ Len(B) - GCM_TAG_LEN_BYTES >= MAX_ENCRYPT_LEN
                THEN [rv |-> "failure", out |-> <<>>]
                ELSE PK11_Decrypt(derive_dh_secret(k.sk, A), set_gcm_params(M, A), B)
            BY <1>2, <2>4, <3>1, DecryptParts
        <3> QED BY <3>2 DEF x
    <2>6. CASE ~ m.whole
        <3>1. Len(B) < tag \/ PK11_Decrypt(aes, param, B) = fail
            BY <2>1, <2>2, <2>3, <2>6, SpoiltFails
        <3> HIDE DEF aes, param, tag
        <3> QED BY <2>5, <2>6, <3>1
    <2>7. CASE m.whole
        <3>1. A = PublicOf[eph] /\ M = Nonce /\ B = Body(eph, pk, msg) BY <2>2, <2>7
        <3>2. Len(B) = Len(msg) + tag BY <2>1, <3>1, BodyCells
        <3>3. PrivateKey_decrypt(k, m.input, room) =
                IF room < Len(msg) THEN fail ELSE PK11_Decrypt(aes, param, B)
            <4> HIDE DEF aes, param, tag, msg, fail
            <4>1. /\ Len(B) - tag = Len(msg) /\ ~ (Len(B) < tag)
                  /\ ~ (Len(B) - tag >= MAX_ENCRYPT_LEN)
                BY <2>1, <2>3, <3>2
            <4> QED BY <2>5, <4>1
        <3> DEFINE aes0 == derive_dh_secret(eph, pk)
        <3>4. B = PK11_Encrypt(aes0, param, msg) BY <3>1 DEF Body
        <3>5. ASSUME NEW msg2 \in Messages, B = PK11_Encrypt(aes, param, msg2)
              PROVE  aes = aes0 /\ msg2 = msg
            <4> HIDE DEF aes, aes0, param, msg
            <4>1. PK11_Encrypt(aes0, param, msg) = PK11_Encrypt(aes, param, msg2)
                BY <3>4, <3>5
            <4> QED BY <2>1, <4>1, EncryptInjective
        <3>6. aes = {PublicOf[k.sk], PublicOf[eph]} /\ aes0 = {PublicOf[eph], pk}
            BY <3>1 DEF derive_dh_secret
        <3>7. /\ k = made[by] /\ k \in KeyPair /\ k.sk \in PrivateKeys
              /\ made[to].sk \in PrivateKeys /\ pk = PublicOf[made[to].sk]
            BY <1>2, PairNotNull DEF MadeInv, KeyPair
        <3>8. CASE by = to
            <4>1. aes = aes0 BY <3>6, <3>7, <3>8
            <4>2. PK11_Decrypt(aes, param, B) = [rv |-> "success", out |-> msg]
                <5> HIDE DEF aes, aes0, param, msg
                <5>1. \E msg2 \in Messages : B = PK11_Encrypt(aes, param, msg2) BY <2>1, <3>4, <4>1
                <5>2. (CHOOSE msg2 \in Messages : B = PK11_Encrypt(aes, param, msg2)) = msg
                    BY <3>5, <5>1
                <5> QED BY <5>1, <5>2 DEF PK11_Decrypt
            <4> HIDE DEF aes, param
            <4> QED BY <1>2, <2>3, <2>7, <3>3, <3>8, <4>2
        <3>9. CASE by # to
            <4>1. aes # aes0
                <5>1. ASSUME aes = aes0 PROVE PublicOf[k.sk] = pk BY <3>6, <5>1
                <5>2. ASSUME PublicOf[k.sk] = pk PROVE FALSE
                    <6>1. k.sk = made[to].sk BY <3>7, <5>2, KeysAssumption
                    <6> QED BY <3>7, <3>9, <6>1, PairNotNull DEF MadeInv
                <5> QED BY <5>1, <5>2
            <4>2. PK11_Decrypt(aes, param, B) = fail
                <5> HIDE DEF aes, aes0, param, msg
                <5>1. ~ \E msg2 \in Messages : B = PK11_Encrypt(aes, param, msg2) BY <3>5, <4>1
                <5> QED BY <5>1 DEF PK11_Decrypt
            <4> HIDE DEF aes, param
            <4> QED BY <3>3, <3>9, <4>2
        <3> QED BY <3>8, <3>9
    <2> QED BY <2>1, <2>6, <2>7
<1> QED BY <1>1, <1>2

LEMMA OpenedExact == MadeInv /\ MailInv /\ OpenedInv => DecryptExact
<1> SUFFICES ASSUME MadeInv, MailInv, OpenedInv, opened.rv # "none"
             PROVE  IF /\ opened.held /\ mail.whole /\ opened.by = mail.to
                       /\ opened.max >= Len(mail.msg)
                    THEN opened.rv = "success" /\ opened.out = mail.msg
                    ELSE opened.rv = "failure" /\ opened.out = <<>>
    BY DEF DecryptExact
<1> DEFINE k == IF opened.held THEN made[opened.by] ELSE NULL
           res == PrivateKey_decrypt(k, mail.input, opened.max)
<1>1. /\ mail.input # NULL
      /\ opened.by \in Servers /\ opened.max \in Nat /\ opened.held \in BOOLEAN
      /\ opened.held => made[opened.by] \in KeyPair
      /\ opened.rv = res.rv /\ opened.out = res.out
    BY DEF OpenedInv
<1>2. mail # NoMail BY <1>1 DEF NoMail
<1>3. mail.to \in Servers /\ made[mail.to] \in KeyPair /\ Letter(mail, made[mail.to].pk)
    BY <1>2 DEF MailInv
<1>4. (k # NULL) = opened.held /\ (k # NULL => k = made[opened.by] /\ k \in KeyPair)
    BY <1>1, PairNotNull
<1> HIDE DEF k
<1>5. res = IF k # NULL /\ mail.whole /\ opened.by = mail.to /\ opened.max >= Len(mail.msg)
            THEN [rv |-> "success", out |-> mail.msg] ELSE [rv |-> "failure", out |-> <<>>]
    BY <1>1, <1>3, <1>4, LetterOpened
<1> HIDE DEF res
<1> QED BY <1>1, <1>4, <1>5

(* PrivateKey_decrypt gives the message exactly if the ciphertext is whole, *)
(* was made for this server, and there is room.                            *)
THEOREM DecryptExactHolds == KeysSpec => []DecryptExact
<1> DEFINE IInv == MadeInv /\ HeldInv /\ MailInv /\ OpenedInv
<1>1. KeysInit => IInv
    <2>1. KeysInit => MailInv /\ OpenedInv
        BY DEF KeysInit, MailInv, OpenedInv, NotOpened
    <2> QED BY <2>1, HeldInit
<1>2. IInv /\ [KeysNext]_keyVars => IInv' BY MadeStep, HeldStep, MailStep, OpenedStep
<1>3. IInv => DecryptExact BY OpenedExact
<1> HIDE DEF IInv
<1> QED BY <1>1, <1>2, <1>3, PTL DEF KeysSpec

-----------------------------------------------------------------------------
(* Random integers (PrioRand) *)

(* The first octet of a buffer is its most significant one. *)
LEMMA LeadingOctet ==
    ASSUME NEW n \in Nat, NEW s \in [1 .. n + 1 -> OctetOf]
    PROVE  LET x == mp_read_unsigned_octets(s)
               P == 2 ^ (OctetBits * n)
           IN  /\ P \in Nat /\ P > 0
               /\ x \in Nat /\ s[1] * P <= x /\ x < (s[1] + 1) * P
<1>0. /\ OctetBits \in Nat /\ Radix \in Nat /\ Radix = 2 ^ OctetBits /\ Radix > 0
      /\ \A k \in 1 .. n + 1 : s[k] \in Nat /\ s[k] < Radix
    BY RandAssumption, RadixAssumption DEF OctetOf
<1>1. s \in Seq(OctetOf) /\ Len(s) = n + 1 OBVIOUS
<1>2. PICK v \in [0 .. n + 1 -> Nat] :
          /\ v[0] = 0 /\ \A k \in 1 .. n + 1 : v[k] = v[k - 1] * Radix + s[k]
          /\ mp_read_unsigned_octets(s) = v[n + 1]
    BY <1>1, ReadOctets
<1> DEFINE Within(k) == /\ 2 ^ (OctetBits * k) \in Nat /\ 2 ^ (OctetBits * k) > 0
                        /\ s[1] * 2 ^ (OctetBits * k) <= v[k + 1]
                        /\ v[k + 1] < (s[1] + 1) * 2 ^ (OctetBits * k)
           T == {k \in Nat : k <= n => Within(k)}
<1>3. 1 \in 1 .. n + 1 /\ s[1] \in Nat BY <1>0
<1>4. 0 \in T
    <2>1. 2 ^ 0 = 1 OBVIOUS
    <2>2. v[1] = v[0] * Radix + s[1] BY <1>2, <1>3
    <2>3. v[1] = s[1] BY <1>0, <1>2, <1>3, <2>2
    <2> DEFINE e == OctetBits * 0
               p == 2 ^ e
    <2>6. e = 0 /\ 0 + 1 = 1 BY <1>0
    <2> HIDE DEF e
    <2>4. p = 1 BY <2>1, <2>6
    <2> HIDE DEF p
    <2>5. p \in Nat /\ p > 0 /\ s[1] * p <= v[0 + 1] /\ v[0 + 1] < (s[1] + 1) * p
        BY <1>3, <2>3, <2>4, <2>6
    <2> QED BY <2>5 DEF p, e
<1>5. ASSUME NEW k \in Nat, k \in T PROVE k + 1 \in T
    <2> SUFFICES ASSUME k + 1 <= n PROVE Within(k + 1) OBVIOUS
    <2> DEFINE p == 2 ^ (OctetBits * k)
               a == s[1]
               y == v[k + 1]
               d == s[k + 2]
    <2>1. p \in Nat /\ p > 0 /\ a * p <= y /\ y < (a + 1) * p BY <1>5
    <2>2. k + 2 \in 1 .. n + 1 /\ (k + 2) - 1 = k + 1 /\ k + 1 \in 0 .. n + 1 OBVIOUS
    <2>3. v[k + 2] = y * Radix + d /\ y \in Nat /\ d \in Nat /\ d < Radix BY <1>0, <1>2, <2>2
    <2>4. OctetBits * (k + 1) = OctetBits * k + OctetBits /\ OctetBits * k \in Nat BY <1>0
    <2>5. 2 ^ (OctetBits * (k + 1)) = p * Radix BY <1>0, <2>4, PowerSum
    <2> HIDE DEF p, a, y, d
    <2>6. a \in Nat BY <1>3 DEF a
    <2>7. p * Radix \in Nat /\ p * Radix > 0 BY <1>0, <2>1
    <2>8. a * (p * Radix) <= y * Radix + d
        <3>1. (a * p) * Radix <= y * Radix BY <1>0, <2>1, <2>3, <2>6
        <3>2. a * (p * Radix) = (a * p) * Radix BY <1>0, <2>1, <2>6
        <3>3. y * Radix \in Nat /\ a * (p * Radix) \in Nat BY <1>0, <2>1, <2>3, <2>6
        <3> QED BY <2>3, <3>1, <3>2, <3>3
    <2>9. y * Radix + d < (a + 1) * (p * Radix)
        <3>1. y + 1 <= (a + 1) * p BY <2>1, <2>3, <2>6
        <3>2. (y + 1) * Radix <= ((a + 1) * p) * Radix BY <1>0, <2>1, <2>3, <2>6, <3>1
        <3>3. (y + 1) * Radix = y * Radix + Radix /\ ((a + 1) * p) * Radix = (a + 1) * (p * Radix)
            BY <1>0, <2>1, <2>3, <2>6
        <3>4. y * Radix \in Nat /\ (a + 1) * (p * Radix) \in Nat BY <1>0, <2>1, <2>3, <2>6
        <3> DEFINE u == y * Radix
                   z == (a + 1) * (p * Radix)
        <3>5. u + Radix <= z /\ u \in Nat /\ z \in Nat BY <3>2, <3>3, <3>4
        <3> HIDE DEF u, z
        <3>6. u + d < z BY <1>0, <2>3, <3>5
        <3> QED BY <3>6 DEF u, z
    <2>10. (k + 1) + 1 = k + 2 OBVIOUS
    <2> QED BY <2>3, <2>5, <2>7, <2>8, <2>9, <2>10 DEF a
<1> HIDE DEF T
<1>6. n \in T BY <1>4, <1>5, NatInduct
<1>7. Within(n) BY <1>6 DEF T
<1>8. v[n + 1] \in Nat BY <1>2
<1> QED BY <1>2, <1>7, <1>8

(* Two buffers that differ in the first octet only. *)
LEMMA OtherLead ==
    ASSUME NEW n \in Nat, NEW s \in [1 .. n + 1 -> OctetOf], NEW t \in [1 .. n + 1 -> OctetOf],
           \A k \in 2 .. n + 1 : s[k] = t[k]
    PROVE  mp_read_unsigned_octets(s)
             = mp_read_unsigned_octets(t) + (s[1] - t[1]) * 2 ^ (OctetBits * n)
<1>0. /\ OctetBits \in Nat /\ Radix \in Nat /\ Radix = 2 ^ OctetBits
      /\ \A k \in 1 .. n + 1 : s[k] \in Nat /\ t[k] \in Nat
    BY RandAssumption, RadixAssumption DEF OctetOf
<1>1. s \in Seq(OctetOf) /\ Len(s) = n + 1 /\ t \in Seq(OctetOf) /\ Len(t) = n + 1 OBVIOUS
<1>2. PICK v \in [0 .. n + 1 -> Nat] :
          /\ v[0] = 0 /\ \A k \in 1 .. n + 1 : v[k] = v[k - 1] * Radix + s[k]
          /\ mp_read_unsigned_octets(s) = v[n + 1]
    BY <1>1, ReadOctets
<1>3. PICK w \in [0 .. n + 1 -> Nat] :
          /\ w[0] = 0 /\ \A k \in 1 .. n + 1 : w[k] = w[k - 1] * Radix + t[k]
          /\ mp_read_unsigned_octets(t) = w[n + 1]
    BY <1>1, ReadOctets
<1> DEFINE T == {k \in Nat : k <= n => v[k + 1] = w[k + 1] + (s[1] - t[1]) * 2 ^ (OctetBits * k)}
<1>4. 1 \in 1 .. n + 1 /\ s[1] \in Nat /\ t[1] \in Nat BY <1>0
<1>5. 0 \in T
    <2>1. 2 ^ 0 = 1 OBVIOUS
    <2>2. v[1] = v[0] * Radix + s[1] /\ w[1] = w[0] * Radix + t[1] BY <1>2, <1>3, <1>4
    <2>3. v[1] = s[1] /\ w[1] = t[1] BY <1>0, <1>2, <1>3, <1>4, <2>2
    <2> DEFINE e == OctetBits * 0
               p == 2 ^ e
    <2>6. e = 0 /\ 0 + 1 = 1 BY <1>0
    <2> HIDE DEF e
    <2>4. p = 1 BY <2>1, <2>6
    <2> HIDE DEF p
    <2>5. v[0 + 1] = w[0 + 1] + (s[1] - t[1]) * p BY <1>4, <2>3, <2>4, <2>6
    <2> QED BY <2>5 DEF p, e
<1>6. ASSUME NEW k \in Nat, k \in T PROVE k + 1 \in T
    <2> SUFFICES ASSUME k + 1 <= n
                 PROVE  v[(k + 1) + 1] = w[(k + 1) + 1] + (s[1] - t[1]) * 2 ^ (OctetBits * (k + 1))
        OBVIOUS
    <2> DEFINE p == 2 ^ (OctetBits * k)
               a == s[1] - t[1]
               y == v[k + 1]
               z == w[k + 1]
               d == s[k + 2]
    <2>1. y = z + a * p BY <1>6
    <2>2. /\ k + 2 \in 1 .. n + 1 /\ k + 2 \in 2 .. n + 1
          /\ (k + 2) - 1 = k + 1 /\ k + 1 \in 0 .. n + 1 /\ (k + 1) + 1 = k + 2
        OBVIOUS
    <2>3. v[k + 2] = y * Radix + d /\ y \in Nat /\ d \in Nat BY <1>0, <1>2, <2>2
    <2>4. w[k + 2] = z * Radix + d /\ z \in Nat BY <1>3, <2>2
    <2>5. OctetBits * (k + 1) = OctetBits * k + OctetBits /\ OctetBits * k \in Nat BY <1>0
    <2>9. 2 ^ (OctetBits * (k + 1)) = p * Radix BY <1>0, <2>5, PowerSum
    <2>10. p \in Nat BY <2>5, PowerStep
    <2>6. 2 ^ (OctetBits * (k + 1)) = p * Radix /\ p \in Nat BY <2>9, <2>10
    <2>7. a \in Int BY <1>4
    <2> HIDE DEF p, a, y, z, d
    <2>8. y * Radix + d = (z * Radix + d) + a * (p * Radix)
        <3>1. (z + a * p) * Radix = z * Radix + (a * p) * Radix BY <1>0, <2>4, <2>6, <2>7
        <3>2. (a * p) * Radix = a * (p * Radix) BY <1>0, <2>6, <2>7
        <3>3. z * Radix \in Int /\ a * (p * Radix) \in Int BY <1>0, <2>4, <2>6, <2>7
        <3> QED BY <2>1, <2>3, <3>1, <3>2, <3>3
    <2> QED BY <2>2, <2>3, <2>4, <2>6, <2>8 DEF a
<1> HIDE DEF T
<1>7. n \in T BY <1>5, <1>6, NatInduct
<1>8. v[n + 1] = w[n + 1] + (s[1] - t[1]) * 2 ^ (OctetBits * n) BY <1>7 DEF T
<1> QED BY <1>2, <1>3, <1>8

(* BitLength is the number of bits. *)
LEMMA BitLengthIs ==
    ASSUME NEW n \in Nat
    PROVE  LET b == BitLength(n)
           IN  /\ b \in Nat /\ n < 2 ^ b /\ 2 ^ b \in Nat
               /\ n = 0 => b = 0
               /\ n > 0 => b > 0 /\ b - 1 \in Nat /\ 2 ^ (b - 1) \in Nat /\ 2 ^ (b - 1) <= n
                           /\ 2 ^ b = 2 * 2 ^ (b - 1)
<1> DEFINE OK(b) == n < 2 ^ b /\ (b = 0 \/ n >= 2 ^ (b - 1))
           l == BitLength(n)
<1>1. \E b \in 0 .. n : OK(b)
    <2>1. CASE n = 0
        <3>1. 2 ^ 0 = 1 /\ 0 \in 0 .. n BY <2>1
        <3>2. OK(0) BY <2>1, <3>1
        <3> QED BY <3>1, <3>2
    <2>2. CASE n > 0
        <3>1. PICK b \in Nat \ {0} : 2 ^ (b - 1) <= n /\ n < 2 ^ b BY <2>2, BitsCounted
        <3>2. b - 1 \in Nat /\ b \in Nat OBVIOUS
        <3>3. 2 ^ (b - 1) > b - 1 /\ 2 ^ (b - 1) \in Nat BY <3>2, PowerPositive
        <3>4. b \in 0 .. n BY <3>1, <3>2, <3>3
        <3>5. OK(b) BY <3>1, <3>3
        <3> QED BY <3>4, <3>5
    <2> QED BY <2>1, <2>2
<1>2. l \in 0 .. n /\ OK(l)
    <2>1. l = CHOOSE b \in 0 .. n : OK(b) BY DEF BitLength
    <2> HIDE DEF l, OK
    <2> QED BY <1>1, <2>1
<1> HIDE DEF l
<1>3. l \in Nat BY <1>2
<1>4. 2 ^ l \in Nat BY <1>3, PowerStep
<1>5. ASSUME n > 0
      PROVE  /\ l > 0 /\ l - 1 \in Nat /\ 2 ^ (l - 1) \in Nat /\ 2 ^ (l - 1) <= n
             /\ 2 ^ l = 2 * 2 ^ (l - 1)
    <2>1. l # 0
        <3>1. ASSUME l = 0 PROVE n < 2 ^ 0 BY <1>2, <3>1
        <3>2. 2 ^ 0 = 1 OBVIOUS
        <3> QED BY <1>5, <3>1, <3>2
    <2>2. l > 0 /\ l - 1 \in Nat /\ (l - 1) + 1 = l BY <1>3, <2>1
    <2>3. 2 ^ (l - 1) \in Nat /\ 2 ^ ((l - 1) + 1) = 2 * 2 ^ (l - 1) BY <2>2, PowerStep
    <2>4. n >= 2 ^ (l - 1) BY <1>2, <2>1
    <2> QED BY <2>2, <2>3, <2>4
<1>6. n = 0 => l = 0 BY <1>2
<1> QED BY <1>2, <1>3, <1>4, <1>5, <1>6 DEF l

(* What rand_int_rng makes of max: with w octets, the mask leaves 2^b      *)
(* values of the first one, of which the upper half is needed.             *)
LEMMA MaskFits ==
    ASSUME NEW m \in Nat, m > 0
    PROVE  LET w == mp_unsigned_octet_size(m)
               b == BitLength(TopOctet(m))
               P == 2 ^ (OctetBits * (w - 1))
           IN  /\ w \in Nat /\ w > 0 /\ b \in Nat /\ b > 0 /\ b <= OctetBits
               /\ P \in Nat /\ P > 0 /\ 2 ^ b \in Nat /\ 2 ^ b > 1
               /\ m < 2 ^ b * P /\ 2 ^ b * P <= 2 * m
<1> DEFINE l == BitLength(m)
           o == OctetBits
           w == mp_unsigned_octet_size(m)
           c == o * (w - 1)
           P == 2 ^ c
           t == TopOctet(m)
           b == BitLength(t)
<1>0. o \in Nat /\ o > 0 BY RandAssumption
<1>1. /\ l \in Nat /\ l > 0 /\ m < 2 ^ l /\ l - 1 \in Nat
      /\ 2 ^ (l - 1) \in Nat /\ 2 ^ l \in Nat /\ 2 ^ (l - 1) <= m
    BY BitLengthIs
<1>2. w = (l + o - 1) \div o BY DEF mp_unsigned_octet_size
<1>3. t = m \div P BY DEF TopOctet
<1> HIDE DEF l, o, w, t, b
<1>4. w \in Nat /\ w > 0 /\ c \in Nat /\ c <= l - 1 /\ l <= c + o
    <2> DEFINE x == l + o - 1
               r == x % o
    <2>1. x \in Nat /\ x >= o /\ w = x \div o BY <1>0, <1>1, <1>2
    <2> HIDE DEF x
    <2>2. w \in Int /\ r \in 0 .. o - 1 /\ x = o * w + r BY <1>0, <2>1
    <2> HIDE DEF r
    <2>3. w >= 1
        <3>1. ASSUME w <= 0 PROVE FALSE
            <4>1. o * w <= 0 BY <1>0, <2>2, <3>1
            <4>2. o * w \in Int BY <1>0, <2>2
            <4> QED BY <1>0, <2>1, <2>2, <4>1, <4>2
        <3> QED BY <2>2, <3>1
    <2>4. o * w = o * (w - 1) + o /\ o * (w - 1) \in Int BY <1>0, <2>2
    <2>5. w - 1 \in Nat BY <2>2, <2>3
    <2>6. c \in Nat BY <1>0, <2>5
    <2>7. x = c + o + r BY <2>2, <2>4
    <2> HIDE DEF c
    <2> QED BY <1>0, <1>1, <2>2, <2>3, <2>6, <2>7 DEF x
<1> HIDE DEF c
<1>5. P \in Nat /\ P > 0 BY <1>4, PowerPositive
<1>6. 2 ^ (c + o) = P * 2 ^ o /\ 2 ^ o \in Nat BY <1>0, <1>4, PowerSum, PowerStep
<1>7. 2 ^ l <= 2 ^ (c + o) /\ c + o \in Nat BY <1>0, <1>1, <1>4, PowerMono
<1>8. P <= 2 ^ (l - 1) BY <1>1, <1>4, PowerMono
<1> HIDE DEF P
<1>9. t \in Nat /\ t > 0 /\ t * P <= m /\ m < (t + 1) * P /\ t < 2 ^ o
    <2> DEFINE r == m % P
               B == 2 ^ o
    <2>1. t \in Int /\ r \in 0 .. P - 1 /\ m = P * t + r BY <1>3, <1>5
    <2> HIDE DEF r
    <2>2. P <= m /\ m < P * B /\ B \in Nat
        <3>1. m < P * 2 ^ o
            <4> DEFINE x == 2 ^ l
                       y == P * 2 ^ o
            <4>1. x <= y /\ m < x /\ x \in Nat /\ y \in Nat BY <1>1, <1>5, <1>6, <1>7
            <4> HIDE DEF x, y
            <4>2. m < y BY <4>1
            <4> QED BY <4>2 DEF y
        <3>2. P <= m BY <1>1, <1>5, <1>8
        <3> QED BY <1>6, <3>1, <3>2
    <2> HIDE DEF B
    <2>3. P * t \in Int BY <1>5, <2>1
    <2>4. t > 0
        <3>1. ASSUME t <= 0 PROVE FALSE
            <4>1. P * t <= 0 BY <1>5, <2>1, <3>1
            <4> QED BY <1>5, <2>1, <2>2, <2>3, <4>1
        <3> QED BY <2>1, <3>1
    <2>5. t < B
        <3>1. ASSUME t >= B PROVE FALSE
            <4>1. P * t >= P * B BY <1>5, <2>1, <2>2, <3>1
            <4>2. P * B \in Int BY <1>5, <2>2
            <4> QED BY <1>5, <2>1, <2>2, <2>3, <4>1, <4>2
        <3> QED BY <2>1, <2>2, <3>1
    <2>6. t * P = P * t /\ (t + 1) * P = P * t + P BY <1>5, <2>1
    <2>7. m < P * t + P /\ P * t <= m BY <1>5, <2>1, <2>3
    <2> QED BY <2>1, <2>4, <2>5, <2>6, <2>7 DEF B
<1>10. /\ b \in Nat /\ b > 0 /\ b - 1 \in Nat /\ t < 2 ^ b /\ 2 ^ b \in Nat
       /\ 2 ^ (b - 1) \in Nat /\ 2 ^ (b - 1) <= t /\ 2 ^ b = 2 * 2 ^ (b - 1)
    BY <1>9, BitLengthIs DEF b
<1>11. b <= o
    <2>1. ASSUME b - 1 >= o PROVE FALSE
        <3>1. 2 ^ o <= 2 ^ (b - 1) BY <1>0, <1>10, <2>1, PowerMono
        <3> QED BY <1>6, <1>9, <1>10, <3>1
    <2> QED BY <1>0, <1>10, <2>1
<1> DEFINE H == 2 ^ (b - 1)
           Q == 2 ^ b
<1>12. H \in Nat /\ H <= t /\ Q = 2 * H /\ Q \in Nat /\ t + 1 <= Q /\ Q > 1 BY <1>9, <1>10
<1> HIDE DEF H, Q
<1>13. m < Q * P
    <2>1. (t + 1) * P <= Q * P BY <1>5, <1>9, <1>12
    <2>2. (t + 1) * P \in Nat /\ Q * P \in Nat BY <1>5, <1>9, <1>12
    <2> QED BY <1>9, <2>1, <2>2
<1>14. Q * P <= 2 * m
    <2>1. H * P <= t * P BY <1>5, <1>9, <1>12
    <2>2. Q * P = 2 * (H * P) /\ H * P \in Nat /\ t * P \in Nat BY <1>5, <1>9, <1>12
    <2> QED BY <1>9, <2>1, <2>2
<1> QED BY <1>4, <1>5, <1>10, <1>11, <1>12, <1>13, <1>14 DEF Q, P, c, o, w, b, t

(* Division by a positive number. *)
LEMMA DivideNat ==
    ASSUME NEW y \in Nat, NEW B \in Nat, B > 0
    PROVE  /\ y \div B \in Nat /\ y % B \in Nat /\ y % B < B
           /\ y = (y \div B) * B + (y % B)
<1> DEFINE u == y \div B
           r == y % B
<1>1. u \in Int /\ r \in 0 .. B - 1 /\ y = B * u + r OBVIOUS
<1> HIDE DEF u, r
<1>2. B * u = u * B /\ B * u \in Int BY <1>1
<1>3. u >= 0
    <2>1. ASSUME u <= -1 PROVE FALSE
        <3>1. B * u <= -B BY <1>1, <2>1
        <3> QED BY <1>1, <1>2, <3>1
    <2> QED BY <1>1, <2>1
<1> QED BY <1>1, <1>2, <1>3 DEF u, r

(* The remainder is the only number below the divisor that leaves a        *)
(* multiple of it.                                                         *)
LEMMA RemainderIs ==
    ASSUME NEW M \in Nat, M > 0, NEW q \in Int, NEW r \in Nat, r < M
    PROVE  (q * M + r) % M = r
<1> DEFINE x == q * M + r
           y == x % M
           p == x \div M
           z == p - q
<1>1. x \in Int OBVIOUS
<1>2. p \in Int /\ y \in 0 .. M - 1 /\ x = M * p + y
    <2> HIDE DEF x
    <2> QED BY <1>1
<1>3. q * M + r = M * p + y BY <1>2
<1> HIDE DEF x, y, p
<1>4. z \in Int /\ r - y = M * z BY <1>2, <1>3
<1> HIDE DEF z
<1>5. z = 0
    <2>1. ASSUME z >= 1 PROVE FALSE
        <3>1. M * z >= M BY <1>4, <2>1
        <3> QED BY <1>2, <1>4, <3>1
    <2>2. ASSUME z <= -1 PROVE FALSE
        <3>1. M * z <= -M BY <1>4, <2>2
        <3> QED BY <1>2, <1>4, <3>1
    <2> QED BY <1>4, <2>1, <2>2
<1>6. r = y BY <1>2, <1>4, <1>5
<1> QED BY <1>6 DEF x, y

(* n octets stand for the numbers below 2^(OctetBits * n), each once.      *)
LEMMA ReadingIsOneToOne ==
    ASSUME NEW n \in Nat
    PROVE  /\ 2 ^ (OctetBits * n) \in Nat /\ 2 ^ (OctetBits * n) > 0
           /\ \A s \in [1 .. n -> OctetOf] :
                  mp_read_unsigned_octets(s) \in 0 .. 2 ^ (OctetBits * n) - 1
           /\ \A s, t \in [1 .. n -> OctetOf] :
                  mp_read_unsigned_octets(s) = mp_read_unsigned_octets(t) => s = t
           /\ \A x \in 0 .. 2 ^ (OctetBits * n) - 1 :
                  \E s \in [1 .. n -> OctetOf] : mp_read_unsigned_octets(s) = x
<1> DEFINE Q(k) == 2 ^ (OctetBits * k)
           R(s) == mp_read_unsigned_octets(s)
           S(k) == [1 .. k -> OctetOf]
           Exact(k) == /\ Q(k) \in Nat /\ Q(k) > 0
                       /\ \A s \in S(k) : R(s) \in 0 .. Q(k) - 1
                       /\ \A s, t \in S(k) : R(s) = R(t) => s = t
                       /\ \A x \in 0 .. Q(k) - 1 : \E s \in S(k) : R(s) = x
           T == {k \in Nat : Exact(k)}
<1>0. OctetBits \in Nat /\ Radix \in Nat /\ Radix > 0 /\ Radix = 2 ^ OctetBits
    BY RandAssumption, RadixAssumption
<1>1. 0 \in T
    <2> DEFINE e == OctetBits * 0
    <2>1. e = 0 BY <1>0
    <2>2. 2 ^ 0 = 1 OBVIOUS
    <2> HIDE DEF e
    <2>3. 2 ^ e = 1 BY <2>1, <2>2
    <2>4. Q(0) = 1 BY <2>3 DEF e
    <2>5. \A s \in S(0) : s = <<>> /\ s \in Seq(OctetOf) OBVIOUS
    <2>6. <<>> \in S(0) OBVIOUS
    <2>7. R(<<>>) = 0
        <3>1. <<>> \in Seq(OctetOf) /\ Len(<<>>) = 0 OBVIOUS
        <3> QED BY <3>1, ReadOctets
    <2> HIDE DEF Q, R, S
    <2>8. \A s \in S(0) : R(s) = 0 BY <2>5, <2>7
    <2>9. 0 .. Q(0) - 1 = {0} BY <2>4
    <2>10. Exact(0) BY <2>4, <2>5, <2>6, <2>7, <2>8, <2>9
    <2> QED BY <2>10
<1>2. ASSUME NEW k \in Nat, k \in T PROVE k + 1 \in T
    <2>0. Exact(k) BY <1>2
    <2>1. Q(k + 1) = Q(k) * Radix
        <3>1. OctetBits * (k + 1) = OctetBits * k + OctetBits /\ OctetBits * k \in Nat BY <1>0
        <3> QED BY <1>0, <3>1, PowerSum
    <2>2. ASSUME NEW s \in S(k + 1)
          PROVE  \E f \in S(k), d \in OctetOf : s = Append(f, d)
        <3> DEFINE f == [i \in 1 .. k |-> s[i]]
        <3>1. f \in S(k) /\ s[k + 1] \in OctetOf /\ f \in Seq(OctetOf) /\ Len(f) = k OBVIOUS
        <3>2. s = Append(f, s[k + 1])
            <4>1. s \in Seq(OctetOf) /\ Len(s) = k + 1 OBVIOUS
            <4>2. \A i \in 1 .. k : s[i] = f[i] OBVIOUS
            <4> HIDE DEF f
            <4>3. /\ Append(f, s[k + 1]) \in Seq(OctetOf) /\ Len(Append(f, s[k + 1])) = k + 1
                  /\ \A i \in 1 .. k : Append(f, s[k + 1])[i] = f[i]
                  /\ Append(f, s[k + 1])[k + 1] = s[k + 1]
                BY <3>1
            <4>4. \A i \in 1 .. k + 1 : s[i] = Append(f, s[k + 1])[i]
                <5> SUFFICES ASSUME NEW i \in 1 .. k + 1 PROVE s[i] = Append(f, s[k + 1])[i]
                    OBVIOUS
                <5>1. i \in 1 .. k \/ i = k + 1 OBVIOUS
                <5> QED BY <4>2, <4>3, <5>1
            <4> QED BY <4>1, <4>3, <4>4, SeqEqual
        <3> QED BY <3>1, <3>2
    <2>3. ASSUME NEW f \in S(k), NEW d \in OctetOf
          PROVE  Append(f, d) \in S(k + 1) /\ R(Append(f, d)) = R(f) * Radix + d
        <3>1. f \in Seq(OctetOf) /\ Len(f) = k OBVIOUS
        <3> DEFINE t == Append(f, d)
        <3>2. t \in Seq(OctetOf) /\ Len(t) = k + 1 BY <3>1
        <3>3. R(t) = R(f) * Radix + d BY <3>1, ReadAppend
        <3> HIDE DEF t, R
        <3>4. t \in [1 .. Len(t) -> OctetOf] BY <3>2
        <3>5. t \in S(k + 1) BY <3>2, <3>4
        <3> QED BY <3>3, <3>5 DEF t
    <2> HIDE DEF Q, R, S
    <2> DEFINE q == Q(k)
    <2>4. \A d \in OctetOf : d \in Nat /\ d < Radix BY <1>0 DEF OctetOf
    <2>5. q \in Nat /\ q > 0 /\ \A f \in S(k) : R(f) \in Nat /\ R(f) < q BY <2>0
    <2> HIDE DEF q
    <2>6. q * Radix \in Nat /\ q * Radix > 0 BY <1>0, <2>5
    <2>7. ASSUME NEW s \in S(k + 1) PROVE R(s) \in 0 .. q * Radix - 1
        <3>1. PICK f \in S(k), d \in OctetOf : s = Append(f, d) BY <2>2
        <3>2. R(s) = R(f) * Radix + d BY <2>3, <3>1
        <3> DEFINE y == R(f)
        <3>3. y \in Nat /\ y + 1 <= q /\ d \in Nat /\ d < Radix BY <2>4, <2>5
        <3> HIDE DEF y
        <3>4. (y + 1) * Radix <= q * Radix /\ (y + 1) * Radix = y * Radix + Radix /\ y * Radix \in Nat
            BY <1>0, <2>5, <3>3
        <3>5. y * Radix + d < q * Radix /\ y * Radix + d \in Nat BY <1>0, <2>6, <3>3, <3>4
        <3> QED BY <2>6, <3>2, <3>5 DEF y
    <2>8. ASSUME NEW s \in S(k + 1), NEW t \in S(k + 1), R(s) = R(t) PROVE s = t
        <3>1. PICK f \in S(k), d \in OctetOf : s = Append(f, d) BY <2>2
        <3>2. PICK g \in S(k), e \in OctetOf : t = Append(g, e) BY <2>2
        <3>3. R(s) = R(f) * Radix + d /\ R(t) = R(g) * Radix + e BY <2>3, <3>1, <3>2
        <3> DEFINE y == R(f)
                   z == R(g)
        <3>8. d \in Nat /\ d < Radix /\ e \in Nat /\ e < Radix BY <2>4
        <3>9. y * Radix + d = z * Radix + e BY <2>8, <3>3
        <3>10. y \in Int /\ z \in Int
            <4>1. R(f) \in Nat /\ R(g) \in Nat BY <2>5
            <4> QED BY <4>1
        <3> HIDE DEF y, z
        <3>4. y \in Int /\ z \in Int /\ d \in Nat /\ d < Radix /\ e \in Nat /\ e < Radix
              /\ y * Radix + d = z * Radix + e
            BY <3>8, <3>9, <3>10
        <3>5. d = e BY <1>0, <3>4, RemainderIs
        <3>6. y = z
            <4>1. y * Radix = z * Radix
                <5>1. y * Radix \in Int /\ z * Radix \in Int BY <1>0, <3>4
                <5> DEFINE a == y * Radix
                           b == z * Radix
                <5>2. a + d = b + e /\ a \in Int /\ b \in Int BY <3>4, <5>1
                <5> HIDE DEF a, b
                <5>3. a = b BY <3>4, <3>5, <5>2
                <5> QED BY <5>3 DEF a, b
            <4>2. (y - z) * Radix = 0 BY <1>0, <3>4, <4>1
            <4>3. y - z \in Int BY <3>4
            <4>4. y - z = 0
                <5> DEFINE a == y - z
                <5> HIDE DEF a
                <5>1. ASSUME a \in Int, a * Radix = 0 PROVE a = 0 BY <1>0, <5>1
                <5> QED BY <4>2, <4>3, <5>1 DEF a
            <4> QED BY <3>4, <4>4
        <3>7. f = g BY <2>0, <3>6 DEF y, z
        <3> QED BY <3>1, <3>2, <3>5, <3>7
    <2>9. ASSUME NEW x \in 0 .. q * Radix - 1 PROVE \E s \in S(k + 1) : R(s) = x
        <3> DEFINE y == x \div Radix
                   d == x % Radix
        <3>1. x \in Nat /\ x < q * Radix BY <2>6
        <3>2. y \in Int /\ d \in 0 .. Radix - 1 /\ x = Radix * y + d BY <1>0, <3>1
        <3> HIDE DEF y, d
        <3>3. y >= 0
            <4>1. ASSUME y <= -1 PROVE FALSE
                <5>1. Radix * y <= -Radix BY <1>0, <3>2, <4>1
                <5>2. Radix * y \in Int BY <1>0, <3>2
                <5> QED BY <1>0, <3>1, <3>2, <5>1, <5>2
            <4> QED BY <3>2, <4>1
        <3>4. y < q
            <4>1. ASSUME y >= q PROVE FALSE
                <5>1. y * Radix >= q * Radix /\ Radix * y = y * Radix /\ y * Radix \in Int
                    BY <1>0, <2>5, <3>2, <4>1
                <5> QED BY <1>0, <2>6, <3>1, <3>2, <5>1
            <4> QED BY <2>5, <3>2, <4>1
        <3>5. y \in 0 .. q - 1 /\ d \in OctetOf BY <2>5, <3>2, <3>3, <3>4 DEF OctetOf
        <3>6. PICK f \in S(k) : R(f) = y BY <2>0, <3>5 DEF q
        <3>7. Append(f, d) \in S(k + 1) /\ R(Append(f, d)) = R(f) * Radix + d BY <2>3, <3>5
        <3>8. y * Radix + d = x BY <1>0, <3>2
        <3> QED BY <3>6, <3>7, <3>8
    <2>10. Exact(k + 1) BY <2>1, <2>6, <2>7, <2>8, <2>9 DEF q
    <2> QED BY <2>10
<1> HIDE DEF T
<1>3. n \in T BY <1>1, <1>2, NatInduct
<1>4. Exact(n) BY <1>3 DEF T
<1> QED BY <1>4

(* A chunk at a time, every octet is drawn. *)
LEMMA BuffersAre ==
    ASSUME NEW g, NEW n \in Nat
    PROVE  Buffers(g, n) = [1 .. n -> OctetOf]
<1>1. Drawn(g, n) = 1 .. n
    <2>1. CASE g = "prg" BY <2>1 DEF Drawn
    <2>2. CASE g # "prg"
        <3> DEFINE C == CHUNK_SIZE
        <3>1. C \in Nat /\ C > 0 BY RandAssumption
        <3> HIDE DEF C
        <3>2. ASSUME NEW i \in 1 .. n
              PROVE  \E k \in 0 .. n : i \in k * C + 1 .. k * C + Smaller(C, n - k * C)
            <4> DEFINE k == (i - 1) \div C
                       r == (i - 1) % C
            <4>1. k \in Int /\ r \in 0 .. C - 1 /\ i - 1 = C * k + r BY <3>1
            <4> HIDE DEF k, r
            <4>2. k >= 0
                <5>1. ASSUME k <= -1 PROVE FALSE
                    <6>1. C * k <= -C /\ C * k \in Int BY <3>1, <4>1, <5>1
                    <6> QED BY <3>1, <4>1, <6>1
                <5> QED BY <4>1, <5>1
            <4>3. C * k >= k /\ C * k \in Int /\ C * k = k * C BY <3>1, <4>1, <4>2
            <4> DEFINE x == k * C
            <4>4. x \in Int /\ x >= k /\ i - 1 = x + r BY <4>1, <4>3
            <4> HIDE DEF x
            <4>5. k \in 0 .. n BY <4>1, <4>2, <4>4
            <4>6. i \in x + 1 .. x + Smaller(C, n - x) BY <3>1, <4>1, <4>4 DEF Smaller
            <4> QED BY <4>5, <4>6 DEF x
        <3> QED BY <2>2, <3>2 DEF Drawn, C
    <2> QED BY <2>1, <2>2
<1> DEFINE W == Drawn(g, n) \cup Drawn(g, 1)
           F(b) == [i \in 1 .. n |-> IF i \in W THEN b[i] ELSE 0]
<1>2. \A i \in 1 .. n : i \in W BY <1>1
<1> HIDE DEF W
<1>3. ASSUME NEW b \in [1 .. n -> OctetOf] PROVE F(b) = b BY <1>2
<1>4. Octet = OctetOf BY DEF Octet, OctetOf
<1>5. Buffers(g, n) = {F(b) : b \in [1 .. n -> OctetOf]} BY <1>4, Zenon DEF Buffers, W
<1> HIDE DEF F
<1> QED BY <1>3, <1>5

(* What the loop compares with max is the number read, reduced by a power *)
(* of two that divides the number of readings and is less than twice max.  *)
LEMMA CandidateIs ==
    ASSUME NEW hi \in Nat, hi > 0
    PROVE  LET w == nbytes(hi)
               T == 2 ^ (OctetBits * w)
           IN  /\ w \in Nat /\ T \in Nat
               /\ \E M, K \in Nat :
                      /\ M > 0 /\ K > 0 /\ T = K * M /\ hi <= M /\ (hi > 1 => M <= 2 * hi)
                      /\ \A s \in [1 .. w -> OctetOf] :
                             Candidate(s, hi) = mp_read_unsigned_octets(s) % M
<1> DEFINE w == nbytes(hi)
           o == OctetBits
           T == 2 ^ (o * w)
           m == hi - 1
           R(s) == mp_read_unsigned_octets(s)
<1>0. o \in Nat /\ o > 0 /\ m \in Nat BY RandAssumption
<1>1. CASE hi = 1
    <2>1. m = 0 /\ w = 1 BY <1>1 DEF nbytes, mp_unsigned_octet_size
    <2>2. TopOctet(0) = 0
        <3> DEFINE e == OctetBits * (mp_unsigned_octet_size(0) - 1)
        <3>1. mp_unsigned_octet_size(0) = 1 BY DEF mp_unsigned_octet_size
        <3>2. e = 0 BY <1>0, <3>1
        <3>3. TopOctet(0) = 0 \div 2 ^ e BY DEF TopOctet
        <3> HIDE DEF e
        <3>4. 2 ^ 0 = 1 /\ 0 \div 1 = 0 OBVIOUS
        <3> QED BY <3>2, <3>3, <3>4
    <2>3. msb_mask(0) = 0
        <3>1. BitLength(0) = 0 BY BitLengthIs
        <3>2. 2 ^ 0 = 1 OBVIOUS
        <3>3. 2 ^ BitLength(0) = 1 BY <3>1, <3>2
        <3> QED BY <3>3 DEF msb_mask
    <2>4. T \in Nat /\ T > 0 /\ \A s \in [1 .. w -> OctetOf] : R(s) \in 0 .. T - 1
        BY <2>1, ReadingIsOneToOne
    <2>5. ASSUME NEW s \in [1 .. w -> OctetOf] PROVE Candidate(s, hi) = R(s) % T
        <3>1. Candidate(s, hi) = R(s) BY <2>1, <2>2, <2>3 DEF Candidate, Masked
        <3> HIDE DEF R, T, w
        <3>2. R(s) \in Nat /\ R(s) < T BY <2>4
        <3>3. (0 * T + R(s)) % T = R(s) BY <2>4, <3>2, RemainderIs
        <3>4. 0 * T + R(s) = R(s) BY <2>4, <3>2
        <3> QED BY <3>1, <3>3, <3>4
    <2> HIDE DEF T, R, w
    <2>6. w \in Nat /\ T = 1 * T /\ hi <= T BY <1>1, <2>1, <2>4
    <2>7. T > 0 /\ 1 \in Nat /\ 1 > 0 /\ ~(hi > 1) BY <1>1, <2>4
    <2>8. \E M, K \in Nat :
              /\ M > 0 /\ K > 0 /\ T = K * M /\ hi <= M /\ (hi > 1 => M <= 2 * hi)
              /\ \A s \in [1 .. w -> OctetOf] : Candidate(s, hi) = R(s) % M
        BY <2>4, <2>5, <2>6, <2>7
    <2> QED BY <2>4, <2>6, <2>8 DEF T, R, w
<1>2. CASE hi > 1
    <2> DEFINE b == BitLength(TopOctet(m))
               n == w - 1
               P == 2 ^ (o * n)
               B == 2 ^ b
               M == B * P
               K == 2 ^ (o - b)
    <2>0. w = mp_unsigned_octet_size(m) BY DEF nbytes
    <2>1. /\ w \in Nat /\ w > 0 /\ b \in Nat /\ b > 0 /\ b <= o
          /\ P \in Nat /\ P > 0 /\ B \in Nat /\ B > 1
          /\ m < M /\ M <= 2 * m
        <3>1. m > 0 BY <1>0, <1>2
        <3> QED BY <1>0, <2>0, <3>1, MaskFits
    <2>2. T = K * M /\ K \in Nat /\ K > 0
        <3>1. o - b \in Nat /\ K \in Nat /\ K > 0 BY <1>0, <2>1, PowerPositive
        <3>2. 2 ^ o = B * K BY <1>0, <2>1, PowerMono
        <3>3. o * w = o * n + o /\ o * n \in Nat BY <1>0, <2>1
        <3>4. T = P * 2 ^ o BY <1>0, <3>3, PowerSum
        <3> HIDE DEF B, P, K, T
        <3>5. P * (B * K) = K * (B * P) BY <2>1, <3>1
        <3> QED BY <3>1, <3>2, <3>4, <3>5
    <2>3. M \in Nat /\ M > 0 BY <2>1
    <2>4. hi <= M /\ M <= 2 * hi
        <3> HIDE DEF M
        <3> QED BY <1>0, <1>2, <2>1, <2>3
    <2>5. T \in Nat BY <2>2, <2>3
    <2>6. ASSUME NEW s \in [1 .. w -> OctetOf] PROVE Candidate(s, hi) = R(s) % M
        <3> DEFINE t == [s EXCEPT ![1] = @ % B]
                   q == s[1] \div B
                   r == s[1] % B
        <3>1. n \in Nat /\ n + 1 = w /\ 1 \in 1 .. w BY <2>1
        <3>2. Candidate(s, hi) = R(t)
            <4>1. msb_mask(TopOctet(hi - 1)) = B - 1 BY DEF msb_mask
            <4> HIDE DEF B, R
            <4>2. B - 1 # 0 /\ (B - 1) + 1 = B BY <2>1
            <4>3. Masked(s, B - 1) = t BY <4>2 DEF Masked
            <4> QED BY <4>1, <4>3 DEF Candidate, R
        <3>3. s[1] \in Nat /\ s[1] < Radix /\ Radix \in Nat BY <3>1, RadixAssumption DEF OctetOf
        <3>4. q \in Nat /\ r \in Nat /\ r < B /\ s[1] = q * B + r
            <4> DEFINE y == s[1]
            <4>1. y \in Nat BY <3>3
            <4> HIDE DEF y, B
            <4>2. /\ y \div B \in Nat /\ y % B \in Nat /\ y % B < B
                  /\ y = (y \div B) * B + (y % B)
                BY <2>1, <4>1, DivideNat
            <4> QED BY <4>2 DEF y
        <3>5. r <= s[1]
            <4> DEFINE y == s[1]
            <4> HIDE DEF q, r, B, y
            <4>1. q * B \in Nat BY <2>1, <3>4
            <4>2. y = q * B + r BY <3>4 DEF y
            <4>3. r <= y BY <3>4, <4>1, <4>2
            <4> QED BY <4>3 DEF y
        <3>6. t \in [1 .. w -> OctetOf] /\ t[1] = r /\ \A k \in 2 .. w : s[k] = t[k]
            <4>1. r \in OctetOf
                <5> HIDE DEF r
                <5> QED BY <3>3, <3>4, <3>5 DEF OctetOf
            <4> HIDE DEF B
            <4>2. t = [k \in 1 .. w |-> IF k = 1 THEN r ELSE s[k]] BY <3>1
            <4> HIDE DEF t, r, w
            <4> QED BY <3>1, <4>1, <4>2
        <3> HIDE DEF t, r, q, w, n
        <3>7. R(s) = R(t) + (s[1] - r) * P
            <4>1. s \in [1 .. n + 1 -> OctetOf] /\ t \in [1 .. n + 1 -> OctetOf]
                  /\ \A k \in 2 .. n + 1 : s[k] = t[k]
                BY <3>1, <3>6
            <4>2. R(s) = R(t) + (s[1] - t[1]) * 2 ^ (OctetBits * n) BY <3>1, <4>1, OtherLead
            <4> QED BY <3>6, <4>2
        <3>8. R(t) \in Nat /\ R(t) < (r + 1) * P
            <4>1. t \in [1 .. n + 1 -> OctetOf] BY <3>1, <3>6
            <4> QED BY <3>1, <3>6, <4>1, LeadingOctet
        <3> DEFINE x == R(t)
        <3>9. x \in Nat /\ x < (r + 1) * P BY <3>8
        <3> HIDE DEF x, B, P
        <3>10. x < B * P
            <4>1. (r + 1) * P <= B * P /\ (r + 1) * P \in Nat /\ B * P \in Nat BY <2>1, <3>4
            <4> QED BY <3>9, <4>1
        <3>11. (s[1] - r) * P = q * (B * P)
            <4>1. s[1] - r = q * B
                <5>1. q * B \in Int BY <2>1, <3>4
                <5> QED BY <3>3, <3>4, <5>1
            <4>2. (q * B) * P = q * (B * P) BY <2>1, <3>4
            <4> QED BY <4>1, <4>2
        <3>12. R(s) = q * (B * P) + x
            <4>1. q * (B * P) \in Int BY <2>1, <3>4
            <4>2. R(s) = x + q * (B * P) BY <3>7, <3>11 DEF x
            <4> QED BY <3>9, <4>1, <4>2
        <3>13. (q * M + x) % M = x
            <4>1. x < M BY <3>10
            <4> HIDE DEF M
            <4> QED BY <2>3, <3>4, <3>9, <4>1, RemainderIs
        <3> QED BY <3>2, <3>12, <3>13 DEF x
    <2> HIDE DEF T, R, w, M, K
    <2>7. \E u, v \in Nat :
              /\ u > 0 /\ v > 0 /\ T = v * u /\ hi <= u /\ (hi > 1 => u <= 2 * hi)
              /\ \A s \in [1 .. w -> OctetOf] : Candidate(s, hi) = R(s) % u
        BY <2>2, <2>3, <2>4, <2>6
    <2> QED BY <2>1, <2>5, <2>7 DEF T, R, w
<1>3. hi = 1 \/ hi > 1 OBVIOUS
<1> HIDE DEF w, T, R, m, o
<1> QED BY <1>1, <1>2, <1>3 DEF w, T, R, o

MultipleOf(T, M) == \E K \in Nat : T = K * M

(* A block of M numbers holds each remainder. *)
LEMMA SameBlock ==
    ASSUME NEW M \in Nat, M > 0, NEW T \in Nat, MultipleOf(T, M)
    PROVE  \A x, c \in Nat : x < T /\ c < M =>
               /\ x % M \in Nat /\ x % M < M
               /\ (x - (x % M)) + c \in Nat /\ (x - (x % M)) + c < T
               /\ ((x - (x % M)) + c) % M = c
<1> SUFFICES ASSUME NEW x \in Nat, NEW c \in Nat, x < T, c < M
             PROVE  /\ x % M \in Nat /\ x % M < M
                    /\ (x - (x % M)) + c \in Nat /\ (x - (x % M)) + c < T
                    /\ ((x - (x % M)) + c) % M = c
    OBVIOUS
<1>0. PICK K \in Nat : T = K * M BY DEF MultipleOf
<1> DEFINE q == x \div M
           r == x % M
<1>1. q \in Nat /\ r \in Nat /\ r < M /\ x = q * M + r BY DivideNat
<1> HIDE DEF q, r
<1>2. q * M \in Nat /\ K * M \in Nat BY <1>1
<1>3. (x - r) + c = q * M + c
    <2> DEFINE z == q * M
    <2>1. x = z + r /\ z \in Nat BY <1>1, <1>2
    <2> HIDE DEF z
    <2>2. (x - r) + c = z + c BY <1>1, <2>1
    <2> QED BY <2>2 DEF z
<1>4. (q * M + c) % M = c BY <1>1, RemainderIs
<1>5. q * M + c < K * M
    <2>0. x < K * M BY <1>0
    <2>1. q < K
        <3>1. ASSUME q >= K PROVE FALSE
            <4>1. q * M >= K * M BY <1>1, <3>1
            <4> DEFINE z == q * M
                       y == K * M
            <4>2. x = z + r /\ z \in Nat /\ y \in Nat /\ z >= y /\ x < y BY <1>1, <1>2, <2>0, <4>1
            <4> HIDE DEF z, y
            <4> QED BY <1>1, <4>2
        <3> QED BY <1>1, <3>1
    <2>2. (q + 1) * M <= K * M /\ (q + 1) * M = q * M + M BY <1>1, <2>1
    <2> DEFINE z == q * M
               y == K * M
    <2>3. z + M <= y /\ z \in Nat /\ y \in Nat BY <1>2, <2>2
    <2> HIDE DEF z, y
    <2>4. z + c < y BY <2>3
    <2> QED BY <2>4 DEF z, y
<1>6. q * M + c \in Nat BY <1>2
<1> QED BY <1>0, <1>1, <1>3, <1>4, <1>5, <1>6 DEF r

(* Of things numbered below a multiple of M, as many have one remainder as *)
(* another; and at least half have a remainder below hi, if 2 * hi >= M.   *)
LEMMA RemaindersUniform ==
    ASSUME NEW M \in Nat, M > 0, NEW T \in Nat, T > 0, MultipleOf(T, M),
           NEW hi \in Nat, hi > 0, hi <= M,
           NEW S, NEW R \in [S -> 0 .. T - 1],
           \A s, t \in S : R[s] = R[t] => s = t,
           \A x \in 0 .. T - 1 : \E s \in S : R[s] = x
    PROVE  LET ways(v) == {s \in S : R[s] % M = v}
               below == {s \in S : R[s] % M < hi}
           IN  /\ \A v \in 0 .. hi - 1 : /\ Cardinality(ways(v)) = Cardinality(ways(0))
                                         /\ Cardinality(ways(v)) > 0
               /\ M <= 2 * hi => 2 * Cardinality(below) >= Cardinality(S)
<1> DEFINE D == 0 .. T - 1
           U == [x \in D |-> CHOOSE s \in S : R[s] = x]
           ways(v) == {s \in S : R[s] % M = v}
           below == {s \in S : R[s] % M < hi}
           InBlock(s, c) == (R[s] - (R[s] % M)) + c
<1>0. \A x, c \in Nat : x < T /\ c < M =>
          /\ x % M \in Nat /\ x % M < M
          /\ (x - (x % M)) + c \in Nat /\ (x - (x % M)) + c < T
          /\ ((x - (x % M)) + c) % M = c
    BY SameBlock
<1>1. T \in Nat /\ T >= M
    <2>1. PICK K \in Nat : T = K * M BY DEF MultipleOf
    <2>2. K > 0
        <3>1. CASE K = 0
            <4>1. 0 * M = 0 OBVIOUS
            <4> QED BY <2>1, <3>1, <4>1
        <3> QED BY <3>1
    <2>3. K * M >= M BY <2>2
    <2> QED BY <2>1, <2>3
<1>2. \A x \in D : U[x] \in S /\ R[U[x]] = x OBVIOUS
<1>3. \A s \in S : R[s] \in D /\ R[s] \in Nat /\ R[s] < T
    <2>1. \A s \in S : R[s] \in D OBVIOUS
    <2> QED BY <1>1, <2>1
<1>4. \A s, t \in S : R[s] = R[t] => s = t OBVIOUS
<1>5. ASSUME NEW s \in S, NEW c \in Nat, c < M
      PROVE  /\ R[s] % M \in Nat /\ R[s] % M < M
             /\ InBlock(s, c) \in D /\ InBlock(s, c) % M = c
    <2>1. R[s] \in Nat /\ R[s] < T BY <1>3
    <2>2. /\ R[s] % M \in Nat /\ R[s] % M < M
          /\ InBlock(s, c) \in Nat /\ InBlock(s, c) < T /\ InBlock(s, c) % M = c
        <3> DEFINE x == R[s]
        <3>1. x \in Nat /\ x < T BY <2>1
        <3> HIDE DEF x
        <3>2. /\ x % M \in Nat /\ x % M < M
              /\ (x - (x % M)) + c \in Nat /\ (x - (x % M)) + c < T
              /\ ((x - (x % M)) + c) % M = c
            BY <1>0, <1>5, <3>1
        <3> QED BY <3>2 DEF x
    <2> HIDE DEF InBlock
    <2>3. InBlock(s, c) \in D BY <1>1, <2>2
    <2> QED BY <2>2, <2>3
<1>6. IsFiniteSet(S)
    <2>1. U \in [D -> S] BY <1>2
    <2>2. \A x, y \in D : U[x] = U[y] => x = y BY <1>2
    <2>3. \A s \in S : \E x \in D : U[x] = s BY <1>2, <1>3, <1>4
    <2> HIDE DEF U
    <2>4. U \in Bijection(D, S)
        BY <2>1, <2>2, <2>3 DEF Bijection, Injection, Surjection, IsInjective
    <2>5. IsFiniteSet(D) BY <1>1, FS_Interval
    <2>6. ExistsBijection(D, S) BY <2>4 DEF ExistsBijection
    <2> QED BY <2>5, <2>6, FS_Bijection
<1>7. ASSUME NEW v \in 0 .. hi - 1
      PROVE  Cardinality(ways(v)) = Cardinality(ways(0)) /\ Cardinality(ways(v)) > 0
    <2>0. v \in Nat /\ v < M /\ 0 \in Nat /\ 0 < M OBVIOUS
    <2> DEFINE f == [s \in ways(v) |-> U[InBlock(s, 0)]]
    <2>1. f \in [ways(v) -> ways(0)]
        <3> SUFFICES ASSUME NEW s \in ways(v) PROVE U[InBlock(s, 0)] \in ways(0) OBVIOUS
        <3>1. s \in S OBVIOUS
        <3>2. InBlock(s, 0) \in D /\ InBlock(s, 0) % M = 0 BY <1>5, <2>0, <3>1
        <3> HIDE DEF InBlock, U, D
        <3> QED BY <1>2, <3>2
    <2>2. ASSUME NEW s \in ways(v), NEW t \in ways(v), f[s] = f[t] PROVE s = t
        <3>1. s \in S /\ t \in S /\ R[s] % M = v /\ R[t] % M = v OBVIOUS
        <3>2. InBlock(s, 0) \in D /\ InBlock(t, 0) \in D BY <1>5, <2>0, <3>1
        <3>3. U[InBlock(s, 0)] = U[InBlock(t, 0)] BY <2>2
        <3>4. InBlock(s, 0) = InBlock(t, 0)
            <4> HIDE DEF InBlock, U, D
            <4> QED BY <1>2, <3>2, <3>3
        <3>5. R[s] \in Nat /\ R[t] \in Nat BY <1>3, <3>1
        <3>6. (R[s] - v) + 0 = (R[t] - v) + 0 BY <3>1, <3>4
        <3>7. R[s] = R[t] BY <2>0, <3>5, <3>6
        <3> QED BY <1>4, <3>1, <3>7
    <2>3. ASSUME NEW t \in ways(0) PROVE \E s \in ways(v) : f[s] = t
        <3> DEFINE s == U[InBlock(t, v)]
        <3>1. t \in S /\ R[t] % M = 0 OBVIOUS
        <3>2. InBlock(t, v) \in D /\ InBlock(t, v) % M = v BY <1>5, <2>0, <3>1
        <3>3. s \in S /\ R[s] = InBlock(t, v)
            <4> HIDE DEF InBlock, U, D
            <4> QED BY <1>2, <3>2
        <3>4. s \in ways(v)
            <4> HIDE DEF s, InBlock
            <4> QED BY <3>2, <3>3
        <3>5. InBlock(s, 0) = R[t]
            <4>1. R[t] \in Nat BY <1>3, <3>1
            <4>2. R[s] = (R[t] - 0) + v BY <3>1, <3>3
            <4>3. R[s] % M = v BY <3>2, <3>3
            <4> HIDE DEF s
            <4>4. (R[s] - v) + 0 = R[t] BY <2>0, <4>1, <4>2
            <4> QED BY <4>3, <4>4
        <3>6. U[R[t]] = t
            <4>1. R[t] \in D BY <1>3, <3>1
            <4> HIDE DEF U, D
            <4> QED BY <1>2, <1>4, <3>1, <4>1
        <3>7. f[s] = t
            <4> HIDE DEF s, InBlock, U, ways
            <4> QED BY <3>4, <3>5, <3>6
        <3> HIDE DEF s, f, ways
        <3> QED BY <3>4, <3>7
    <2> HIDE DEF f
    <2>4. ways(v) \in SUBSET S /\ ways(0) \in SUBSET S OBVIOUS
    <2>5. v \in D /\ v % M = v
        <3>1. (0 * M + v) % M = v /\ 0 * M + v = v BY <2>0, RemainderIs
        <3>2. v \in D
            <4> QED BY <1>1, <2>0
        <3> QED BY <3>1, <3>2
    <2>6. U[v] \in ways(v)
        <3> HIDE DEF U, D
        <3>1. U[v] \in S /\ R[U[v]] = v BY <1>2, <2>5
        <3> QED BY <2>5, <3>1
    <2> HIDE DEF ways
    <2>7. IsFiniteSet(ways(v)) /\ IsFiniteSet(ways(0)) BY <1>6, <2>4, FS_Subset
    <2>8. f \in Bijection(ways(v), ways(0))
        BY <2>1, <2>2, <2>3 DEF Bijection, Injection, Surjection, IsInjective
    <2>9. ExistsBijection(ways(v), ways(0)) BY <2>8 DEF ExistsBijection
    <2>10. Cardinality(ways(v)) = Cardinality(ways(0)) BY <2>7, <2>9, FS_Bijection
    <2>11. Cardinality(ways(v)) # 0 BY <2>6, <2>7, FS_EmptySet
    <2>12. Cardinality(ways(v)) \in Nat BY <2>7, FS_CardinalityType
    <2> QED BY <2>10, <2>11, <2>12
<1>8. ASSUME M <= 2 * hi PROVE 2 * Cardinality(below) >= Cardinality(S)
    <2> DEFINE Z == S \ below
               c(s) == (R[s] % M) - hi
               f == [s \in Z |-> U[InBlock(s, c(s))]]
    <2>1. ASSUME NEW s \in Z
          PROVE  /\ s \in S /\ c(s) \in Nat /\ c(s) < hi /\ c(s) < M
                 /\ InBlock(s, c(s)) = R[s] - hi
        <3>1. s \in S /\ ~ (R[s] % M < hi) OBVIOUS
        <3> DEFINE b == R[s] % M
        <3>2. b \in Nat /\ b < M /\ R[s] \in Nat
            <4>1. 0 \in Nat /\ 0 < M OBVIOUS
            <4> QED BY <1>3, <1>5, <3>1, <4>1
        <3>3. ~ (b < hi) BY <3>1
        <3> HIDE DEF b
        <3>4. b - hi \in Nat /\ b - hi < hi /\ b - hi < M /\ (R[s] - b) + (b - hi) = R[s] - hi
            BY <1>8, <3>2, <3>3
        <3> QED BY <3>1, <3>4 DEF b
    <2>2. ASSUME NEW s \in Z
          PROVE  /\ InBlock(s, c(s)) \in D /\ InBlock(s, c(s)) % M < hi
        <3>1. s \in S /\ c(s) \in Nat /\ c(s) < hi /\ c(s) < M BY <2>1
        <3> HIDE DEF c, InBlock, Z, D
        <3>2. InBlock(s, c(s)) \in D /\ InBlock(s, c(s)) % M = c(s) BY <1>5, <3>1
        <3> QED BY <3>1, <3>2
    <2>3. f \in [Z -> below]
        <3> SUFFICES ASSUME NEW s \in Z PROVE U[InBlock(s, c(s))] \in below OBVIOUS
        <3>1. InBlock(s, c(s)) \in D /\ InBlock(s, c(s)) % M < hi BY <2>2
        <3> HIDE DEF InBlock, U, D, c, Z
        <3> QED BY <1>2, <3>1
    <2>4. ASSUME NEW s \in Z, NEW t \in Z, f[s] = f[t] PROVE s = t
        <3>1. /\ InBlock(s, c(s)) \in D /\ InBlock(t, c(t)) \in D
              /\ InBlock(s, c(s)) = R[s] - hi /\ InBlock(t, c(t)) = R[t] - hi
              /\ s \in S /\ t \in S
            BY <2>1, <2>2
        <3>2. U[InBlock(s, c(s))] = U[InBlock(t, c(t))] BY <2>4
        <3> HIDE DEF InBlock, U, D, c, f, Z
        <3>3. InBlock(s, c(s)) = InBlock(t, c(t)) BY <1>2, <3>1, <3>2
        <3>4. R[s] \in Nat /\ R[t] \in Nat BY <1>3, <3>1
        <3>5. R[s] = R[t] BY <3>1, <3>3, <3>4
        <3> QED BY <1>4, <3>1, <3>5
    <2>5. Z \in SUBSET S /\ below \in SUBSET S /\ S = below \cup Z /\ below \cap Z = {} OBVIOUS
    <2> HIDE DEF f, Z, below
    <2>6. IsFiniteSet(Z) /\ IsFiniteSet(below) BY <1>6, <2>5, FS_Subset
    <2>7. f \in Injection(Z, below) BY <2>3, <2>4 DEF Injection, IsInjective
    <2>8. Cardinality(Z) <= Cardinality(below) BY <2>6, <2>7, FS_Injection
    <2>9. Cardinality(S) = Cardinality(below) + Cardinality(Z) - Cardinality(below \cap Z)
        BY <2>5, <2>6, FS_Union
    <2>10. Cardinality(below \cap Z) = 0 BY <2>5, FS_EmptySet
    <2>11. Cardinality(Z) \in Nat /\ Cardinality(below) \in Nat BY <2>6, FS_CardinalityType
    <2> QED BY <2>8, <2>9, <2>10, <2>11
<1> HIDE DEF ways, below, D, U
<1> QED BY <1>7, <1>8 DEF ways, below

(* What is known of a call of rand_int, PRG_get_int or PRG_get_int_range. *)
RandInv ==
    /\ lower \in Nat /\ upper \in Nat /\ max = upper - lower
    /\ result.rv = "success" => result.out \in lower .. upper - 1

LEMMA RandInvAlways == RandSpec => []RandInv
<1>1. RandInit => RandInv BY DEF RandInit, RandInv, NoResult
<1>2. RandInv /\ [RandNext]_randVars => RandInv'
    <2> SUFFICES ASSUME RandInv, [RandNext]_randVars PROVE RandInv' OBVIOUS
    <2>1. ASSUME NEW g, NEW lo \in 0 .. MaxBound, NEW hi \in 0 .. MaxBound, Call(g, lo, hi)
          PROVE  RandInv'
        <3>1. lo \in Nat /\ hi \in Nat BY RandAssumption
        <3> QED BY <2>1, <3>1 DEF Call, RandInv, NoResult
    <2>2. CASE Fail BY <2>2 DEF Fail, Leave, RandInv
    <2>3. CASE Try
        <3>1. PICK buf \in Buffers(rng, nbytes(max)) : Turn(buf) BY <2>3 DEF Try
        <3>2. max \in Nat /\ max > 0
            <4>1. max > 0 /\ max \in Int BY <2>3 DEF Try, RandInv
            <4> QED BY <4>1
        <3>3. Candidate(buf, max) \in Nat
            <4>1. nbytes(max) \in Nat BY <3>2, CandidateIs
            <4>2. buf \in [1 .. nbytes(max) -> OctetOf] BY <3>1, <4>1, BuffersAre
            <4>3. PICK M \in Nat : M > 0 /\ Candidate(buf, max) = mp_read_unsigned_octets(buf) % M
                BY <3>2, <4>2, CandidateIs
            <4>4. mp_read_unsigned_octets(buf) \in Nat
                <5>1. buf \in Seq(OctetOf) BY <4>1, <4>2
                <5> QED BY <5>1, ReadsNat
            <4>5. mp_read_unsigned_octets(buf) % M \in Nat BY <4>3, <4>4, DivideNat
            <4> QED BY <4>3, <4>5
        <3>4. UNCHANGED <<lower, upper, max>> BY <3>1 DEF Turn
        <3>5. CASE Accepts(buf, max)
            <4>1. result' = [rv |-> "success", out |-> lower + Candidate(buf, max)]
                BY <3>1, <3>5 DEF Turn, Leave
            <4>2. Candidate(buf, max) < max BY <3>5 DEF Accepts
            <4>3. lower + Candidate(buf, max) \in lower .. upper - 1 BY <3>2, <3>3, <4>2 DEF RandInv
            <4> QED BY <3>4, <4>1, <4>3 DEF RandInv
        <3>6. CASE ~ Accepts(buf, max)
            <4>1. result' = result BY <3>1, <3>6 DEF Turn
            <4> QED BY <3>4, <4>1 DEF RandInv
        <3> QED BY <3>5, <3>6
    <2>4. CASE rand_init \/ rand_clear BY <2>4 DEF rand_init, rand_clear, RandInv
    <2>5. CASE UNCHANGED randVars BY <2>5 DEF randVars, RandInv
    <2>6. 0 \in 0 .. MaxBound BY RandAssumption
    <2> QED BY <2>1, <2>2, <2>3, <2>4, <2>5, <2>6 DEF RandNext
<1> QED BY <1>1, <1>2, PTL DEF RandSpec

(* Rejection sampling: every draw is in range, and the masks, the chunks   *)
(* and the rejection leave every value the same number of octet strings,   *)
(* for every bound, every size of an octet and every chunk size.           *)
THEOREM DrawsExactHolds == RandSpec => []DrawsExact
<1>1. RandInv => InRange BY DEF RandInv, InRange
<1>2. RandInv => Uniform
    <2> DEFINE w == nbytes(max)
               S == [1 .. w -> OctetOf]
               R == [s \in S |-> mp_read_unsigned_octets(s)]
               accepted == {b \in S : Accepts(b, max)}
               ways(v) == Cardinality({b \in accepted : Candidate(b, max) = v})
    <2> SUFFICES ASSUME RandInv, max > 0
                 PROVE  LET bufs == Buffers(rng, nbytes(max))
                            acc == {b \in bufs : Accepts(b, max)}
                            way(v) == Cardinality({b \in acc : Candidate(b, max) = v})
                        IN  /\ \A v \in 0 .. max - 1 : way(v) = way(0) /\ way(v) > 0
                            /\ max > 1 => 2 * Cardinality(acc) >= Cardinality(bufs)
        BY DEF Uniform
    <2>1. max \in Nat BY DEF RandInv
    <2>2. PICK M, K \in Nat :
              /\ M > 0 /\ K > 0 /\ 2 ^ (OctetBits * w) = K * M
              /\ max <= M /\ (max > 1 => M <= 2 * max)
              /\ \A s \in S : Candidate(s, max) = mp_read_unsigned_octets(s) % M
        BY <2>1, CandidateIs
    <2>3. w \in Nat BY <2>1, CandidateIs
    <2>4. Buffers(rng, w) = S BY <2>3, BuffersAre
    <2> DEFINE T == 2 ^ (OctetBits * w)
    <2>5. /\ R \in [S -> 0 .. T - 1] /\ T \in Nat /\ T > 0 /\ MultipleOf(T, M)
          /\ \A s, t \in S : R[s] = R[t] => s = t
          /\ \A x \in 0 .. T - 1 : \E s \in S : R[s] = x
        <3>1. /\ T \in Nat /\ T > 0
              /\ \A s \in S : mp_read_unsigned_octets(s) \in 0 .. T - 1
              /\ \A s, t \in S : mp_read_unsigned_octets(s) = mp_read_unsigned_octets(t) => s = t
              /\ \A x \in 0 .. T - 1 : \E s \in S : mp_read_unsigned_octets(s) = x
            BY <2>3, ReadingIsOneToOne
        <3>2. MultipleOf(T, M) BY <2>2 DEF MultipleOf
        <3> HIDE DEF T, S
        <3> QED BY <3>1, <3>2
    <2>6. \A s \in S : Candidate(s, max) = R[s] % M /\ (Accepts(s, max) <=> R[s] % M < max)
        BY <2>2 DEF Accepts
    <2> HIDE DEF R, S, T, w
    <2> DEFINE Ways(v) == {s \in S : R[s] % M = v}
               below == {s \in S : R[s] % M < max}
    <2>7. /\ \A v \in 0 .. max - 1 : /\ Cardinality(Ways(v)) = Cardinality(Ways(0))
                                     /\ Cardinality(Ways(v)) > 0
          /\ M <= 2 * max => 2 * Cardinality(below) >= Cardinality(S)
        BY <2>1, <2>2, <2>5, RemaindersUniform
    <2>8. accepted = below BY <2>6
    <2>9. ASSUME NEW v \in 0 .. max - 1 PROVE ways(v) = Cardinality(Ways(v))
        <3>1. v < max BY <2>1
        <3>2. {b \in accepted : Candidate(b, max) = v} = Ways(v)
            <4> SUFFICES ASSUME NEW b
                         PROVE  b \in {s \in accepted : Candidate(s, max) = v} <=> b \in Ways(v)
                OBVIOUS
            <4>1. CASE b \in S
                <5>1. Candidate(b, max) = R[b] % M BY <2>6, <4>1
                <5>2. b \in accepted <=> R[b] % M < max BY <2>6, <4>1
                <5> HIDE DEF accepted
                <5> QED BY <3>1, <4>1, <5>1, <5>2
            <4>2. CASE b \notin S BY <4>2
            <4> QED BY <4>1, <4>2
        <3> QED BY <3>2
    <2>10. 0 \in 0 .. max - 1 BY <2>1
    <2> HIDE DEF Ways, below
    <2>11. \A v \in 0 .. max - 1 : ways(v) = ways(0) /\ ways(v) > 0
        <3> HIDE DEF ways
        <3> QED BY <2>7, <2>9, <2>10
    <2>12. max > 1 => 2 * Cardinality(accepted) >= Cardinality(S)
        <3> HIDE DEF accepted
        <3> QED BY <2>2, <2>7, <2>8
    <2> QED BY <2>4, <2>11, <2>12 DEF w
<1>3. RandInv => DrawsExact BY <1>1, <1>2 DEF DrawsExact
<1> QED BY <1>3, RandInvAlways, PTL
=============================================================================
