------------------------------- MODULE MpiText -------------------------------
(***************************************************************************)
(* How src/mpi/mpi.c writes numbers as text and as octets, and reads them  *)
(* back: src/prio/config.c reads the modulus with mp_read_radix and        *)
(* src/prio/serial.c sends field elements as fixed-length octets.  A       *)
(* number is counted up and down, negated, and replaced by what reading    *)
(* gives.  An octet is half a digit here (CHAR_BIT = HalfBits).            *)
(***************************************************************************)
EXTENDS MpiArith, SequencesExt

CONSTANT Radices   \* the radices numbers are written and read in

ASSUME RadicesAssumption == Radices \subseteq {2, 8, 10, 16, 36, 64}

Octet == 0..(MP_HALF_RADIX - 1)

(***************************************************************************)
(* Characters: the position in s_dmap_1 ("0".."9", "A".."Z", "a".."z", "+",*)
(* "/"), then "-", any other character, and the zero that ends a string.   *)
(***************************************************************************)
CHAR_X == 33
CHAR_x == 59
CHAR_PLUS == 62
CHAR_MINUS == 64
CHAR_OTHER == 65
NUL == 66
CharAt(str, i) == IF i <= Len(str) THEN str[i] ELSE NUL

\* Up to radix 36 a small letter is read as the capital one.
s_mp_tovalue(ch, r) ==
  LET val == IF r <= 36 /\ ch \in 36..61 THEN ch - 26 ELSE ch
  IN  IF val < r THEN val ELSE -1
mp_tovalue(ch, r) == s_mp_tovalue(ch, r)

s_mp_todigit(val, r) == IF val >= r THEN NUL ELSE val

-----------------------------------------------------------------------------
(* Text in a radix *)

\* The digits of the magnitude by repeated division, the sign, reversed.
RECURSIVE RadixDigits(_, _)
RadixDigits(a, r) ==
  IF mp_cmp_z(a) = MP_EQ THEN << >>
  ELSE LET d == mp_div_d(a, r)
       IN  <<s_mp_todigit(d.r, r)>> \o RadixDigits(d.q, r)

mp_toradix(a, r) ==
  IF mp_cmp_z(a) = MP_EQ THEN <<0>>
  ELSE Reverse(RadixDigits(mp_abs(a), r)
                 \o IF a.sign = NEG THEN <<CHAR_MINUS>> ELSE << >>)

\* The first character that is a digit of the radix, a sign, or the end.
Start(str, r) ==
  Min({i \in 1..Len(str) + 1 : \/ i > Len(str)
                               \/ s_mp_tovalue(CharAt(str, i), r) >= 0
                               \/ str[i] \in {CHAR_MINUS, CHAR_PLUS}})

\* Digits are multiplied in until a character is none.
RECURSIVE ReadDigits(_, _, _, _)
ReadDigits(dp, str, i, r) ==
  LET val == s_mp_tovalue(CharAt(str, i), r)
  IN  IF val < 0 THEN dp
      ELSE ReadDigits(s_mp_add_d(s_mp_mul_d(dp, r), val), str, i + 1, r)

mp_read_radix(str, r) ==
  LET i == Start(str, r)
      signed == CharAt(str, i) \in {CHAR_MINUS, CHAR_PLUS}
      dp == ReadDigits(<<0>>, str, i + Bit(signed), r)
  IN  PositiveZero([sign |-> IF CharAt(str, i) = CHAR_MINUS THEN NEG ELSE ZPOS,
                    dp |-> dp])

\* After a sign, 0x announces radix 16 and any other leading 0 radix 8.
mp_read_variable_radix(str, default_radix) ==
  LET i == Start(str, default_radix)
      signed == CharAt(str, i) \in {CHAR_MINUS, CHAR_PLUS}
      rest == SubSeq(str, i + Bit(signed), Len(str))
      hex == CharAt(rest, 2) \in {CHAR_X, CHAR_x}
      a == CASE CharAt(rest, 1) # 0 -> mp_read_radix(rest, default_radix)
             [] CharAt(rest, 1) = 0 /\ hex ->
                  mp_read_radix(SubSeq(rest, 3, Len(rest)), 16)
             [] OTHER -> mp_read_radix(SubSeq(rest, 2, Len(rest)), 8)
  IN  PositiveZero([a EXCEPT !.sign = IF CharAt(str, i) = CHAR_MINUS
                                      THEN NEG ELSE ZPOS])

\* s_logv_2, in millionths.
LOG_V_2(r) == CASE r = 2 -> 1000000 [] r = 8 -> 333333 [] r = 10 -> 301030
                [] r = 16 -> 250000 [] r = 36 -> 193426 [] r = 64 -> 166667

s_mp_outlen(bits, r) == (bits * LOG_V_2(r) + 1500000) \div 1000000 + 1

mp_radix_size(a, r) == s_mp_outlen(Len(a.dp) * MP_DIGIT_BIT - 1, r)

\* The sign and every digit at its full width in radix 16.
mp_print(a) ==
  LET width == MP_DIGIT_BIT \div 4
      digit(i) == a.dp[Len(a.dp) - (i - 1) \div width]
      hex(i) == (digit(i) \div 16^(width - 1 - ((i - 1) % width))) % 16
  IN  <<IF a.sign = NEG THEN CHAR_MINUS ELSE CHAR_PLUS>>
        \o [i \in 1..(width * Len(a.dp)) |-> hex(i)]

-----------------------------------------------------------------------------
(* Octets, most significant first *)

Octets(dp) ==
  [i \in 1..(2 * Len(dp)) |->
     LET d == dp[Len(dp) - (i - 1) \div 2] IN IF i % 2 = 1 THEN Hi(d) ELSE Lo(d)]

\* Leading zero octets are left out; zero keeps one.
Significant(s) ==
  LET nonzero == {i \in 1..Len(s) : s[i] # 0}
  IN  IF nonzero = {} THEN <<0>> ELSE SubSeq(s, Min(nonzero), Len(s))

mp_unsigned_octet_size(a) == Len(Significant(Octets(a.dp)))

mp_to_unsigned_octets(a, maxlen) ==
  IF a.sign = NEG \/ mp_unsigned_octet_size(a) > maxlen THEN << >>
  ELSE Significant(Octets(a.dp))

\* A zero is put before a first octet whose high bit is set.
mp_to_signed_octets(a, maxlen) ==
  LET s == Significant(Octets(a.dp))
      out == IF s[1] >= MP_HALF_RADIX \div 2 THEN <<0>> \o s ELSE s
  IN  IF a.sign = NEG \/ Len(out) > maxlen THEN << >> ELSE out

mp_to_fixlen_octets_Aligned(a, length) ==
  LET s == Significant(Octets(a.dp))
  IN  IF a.sign = NEG \/ Len(s) > length THEN << >>
      ELSE s \o Zeros(length - Len(s))

mp_to_fixlen_octets(a, length) ==
  LET s == Significant(Octets(a.dp))
  IN  IF a.sign = NEG \/ Len(s) > length THEN << >>
      ELSE Zeros(length - Len(s)) \o s

\* A first digit of what is left over, then whole digits; a zero number is
\* not shifted.
mp_read_unsigned_octets(str) ==
  LET first == Len(str) % 2
      digit(i) == str[i] * MP_HALF_RADIX + str[i + 1]
      f[n \in 0..(Len(str) \div 2)] ==
        IF n = 0 THEN mp_set(IF first = 1 THEN str[1] ELSE 0)
        ELSE LET a == f[n - 1]
                 d == digit(first + 2 * n - 1)
             IN  IF mp_cmp_z(a) = MP_EQ THEN mp_set(d)
                 ELSE [a EXCEPT !.dp = [s_mp_lshd(a.dp, 1) EXCEPT ![1] = d]]
  IN  f[Len(str) \div 2]

mp_raw_size(a) == 2 * Len(a.dp) + 1

mp_toraw(a) == <<a.sign>> \o Octets(a.dp)

mp_read_raw(str) ==
  LET f[ix \in 1..Len(str)] ==
        IF ix = 1 THEN [sign |-> IF str[1] # 0 THEN NEG ELSE ZPOS, dp |-> <<0>>]
        ELSE mp_add_d(mp_mul_d(f[ix - 1], MP_HALF_RADIX), str[ix])
  IN  f[Len(str)]

-----------------------------------------------------------------------------
TextNext ==
  \/ Store(mp_add_d(x, 1))
  \/ Store(mp_neg(x))
  \/ Store(mp_read_raw(mp_toraw(x)))
  \/ Store(mp_read_radix(mp_print(x), 16))
  \/ \E r1, r2 \in Radices : Store(mp_read_radix(mp_toradix(x, r1), r2))
  \/ \E r \in Radices : Store(mp_read_variable_radix(mp_toradix(x, r), r))
  \/ mp_cmp_z(x) # MP_LT
       /\ Store(mp_read_unsigned_octets(mp_to_signed_octets(x, mp_raw_size(x))))

TextSpec == Init /\ [][TextNext]_vars

(***************************************************************************)
(* A number written in a radix, or printed, and read back in that radix is *)
(* the same number, sign included, whatever stands before it; a 0x or 0    *)
(* before it is read as radix 16 or 8 after the sign.                      *)
(***************************************************************************)
RadixRoundTrip ==
  /\ \A r \in Radices :
       mp_read_radix(<<CHAR_OTHER>> \o mp_toradix(x, r), r) = x
  /\ mp_read_radix(mp_print(x), 16) = x
  /\ mp_read_variable_radix(<<CHAR_PLUS, 0, CHAR_x>> \o mp_toradix(mp_abs(x), 16),
                            10) = mp_abs(x)
  /\ mp_read_variable_radix(<<CHAR_MINUS, 0>> \o mp_toradix(mp_abs(x), 8), 10)
       = mp_neg(mp_abs(x))

(***************************************************************************)
(* The buffer that mp_radix_size estimates holds the text of a number that *)
(* is not negative and the zero that ends it.                              *)
(***************************************************************************)
RadixFits ==
  mp_cmp_z(x) # MP_LT =>
    \A r \in Radices : Len(mp_toradix(x, r)) + 1 <= mp_radix_size(x, r)

(***************************************************************************)
(* Octets of any allowed length read back as the number, a buffer that is  *)
(* too short is refused, and the signed form starts with a clear high bit: *)
(* the digits' boundaries inside the octets never show.                    *)
(***************************************************************************)
OctetsRoundTrip ==
  mp_cmp_z(x) # MP_LT =>
    LET size == mp_unsigned_octet_size(x)
    IN  /\ mp_read_raw(mp_toraw(x)) = x
        /\ \A n \in 1..mp_raw_size(x) :
             LET fixed == mp_to_fixlen_octets(x, n)
                 plain == mp_to_unsigned_octets(x, n)
                 signed == mp_to_signed_octets(x, n)
             IN  /\ (fixed = << >>) <=> (n < size)
                 /\ (plain = << >>) <=> (n < size)
                 /\ n >= size => /\ mp_read_unsigned_octets(fixed) = x
                                 /\ mp_read_unsigned_octets(plain) = x
                                 /\ Len(fixed) = n
                 /\ signed # << >> =>
                      /\ mp_read_unsigned_octets(signed) = x
                      /\ signed[1] < MP_HALF_RADIX \div 2
=============================================================================
