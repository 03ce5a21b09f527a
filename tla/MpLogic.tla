------------------------------- MODULE MpLogic -------------------------------
(***************************************************************************)
(* src/mpi/mplogic.c: bitwise operations on numbers.  Here a number is the *)
(* whole of its memory, the Alloc digits with the ones in use counted by   *)
(* `used', because mpl_or and mpl_xor read the digits of the shorter       *)
(* number above those in use.  The numbers get there through the calls of  *)
(* mpi.c that change a number in place.  All numbers are positive.         *)
(***************************************************************************)
EXTENDS MpiDigits, Bitwise, FiniteSetsExt, Functions

CONSTANT Alloc     \* bound: the digits of a number's memory

ASSUME MpLogicAssumption == Alloc \in Nat \ {0}

VARIABLES a, b
logicVars == <<a, b>>

InUse(n) == SubSeq(n.dp, 1, n.used)
Magnitude(n) == MagnitudeOf(InUse(n))

Clamped(n) == [n EXCEPT !.used = Len(s_mp_clamp(InUse(n)))]

\* mp_init, mp_set_ulong and mp_copy leave zeros above the digits in use.
Fresh(dp) == [used |-> Len(dp), dp |-> dp \o Zeros(Alloc - Len(dp))]
mp_copy(n) == Fresh(InUse(n))

\* s_mp_pad: the digits between the old and the new length are cleared.
s_mp_pad(n, min) ==
  [used |-> IF min > n.used THEN min ELSE n.used,
   dp |-> [i \in 1..Alloc |-> IF i \in (n.used + 1)..min THEN 0 ELSE n.dp[i]]]

\* mp_add of m and n into c: the digits of c above the sum stay in memory.
StoreSum(m, n, c) ==
  LET positive(k) == [sign |-> ZPOS, dp |-> InUse(k)]
      sum == s_mp_add_3arg(positive(m), positive(n)).dp
      room == s_mp_pad(c, Len(sum))
  IN  [used |-> Len(sum),
       dp |-> [i \in 1..Alloc |-> IF i <= Len(sum) THEN sum[i] ELSE room.dp[i]]]

-----------------------------------------------------------------------------
(* mplogic.c *)

mpl_not(n) ==
  Clamped([mp_copy(n) EXCEPT !.dp = [i \in 1..Alloc |->
             IF i <= n.used THEN MP_DIGIT_MAX - n.dp[i] ELSE 0]])

\* A copy of one number, each digit joined with the same digit of the other.
Join(which, other, op(_, _)) ==
  [mp_copy(which) EXCEPT !.dp = [i \in 1..Alloc |->
     IF i <= which.used THEN op(which.dp[i], other.dp[i]) ELSE 0]]

Longer(m, n) == IF m.used >= n.used THEN m ELSE n
Shorter(m, n) == IF m.used >= n.used THEN n ELSE m

AndDigit(d, e) == d & e
OrDigit(d, e) == d | e
XorDigit(d, e) == d ^^ e

\* The longer number is copied, and meets stale digits of the shorter.
mpl_and_Longer(m, n) == Clamped(Join(Longer(n, m), Shorter(n, m), AndDigit))

\* The shorter number is the one copied.
mpl_and(m, n) == Clamped(Join(Shorter(n, m), Longer(n, m), AndDigit))

mpl_or(m, n) == Join(Longer(m, n), Shorter(m, n), OrDigit)

mpl_xor(m, n) == Clamped(Join(Longer(m, n), Shorter(m, n), XorDigit))

mpl_rsh(n, d) == Fresh(s_mp_div_2d([sign |-> ZPOS, dp |-> InUse(n)], d).dp)
mpl_lsh(n, d) == Fresh(s_mp_mul_2d(InUse(n), d))

\* bitc and the loops over the bytes of every digit.
bitc(d) == Cardinality({k \in 0..(MP_DIGIT_BIT - 1) : (d \div 2^k) % 2 = 1})
mpl_num_set(n) == FoldFunction(+, 0, [i \in 1..n.used |-> bitc(n.dp[i])])
mpl_num_clear(n) ==
  FoldFunction(+, 0, [i \in 1..n.used |-> bitc(MP_DIGIT_MAX - n.dp[i])])

\* Each digit is folded onto its low half until one bit is left.
RECURSIVE FoldBits(_, _)
FoldBits(cur, shft) ==
  IF shft = 0 THEN cur % 2 ELSE FoldBits(cur ^^ (cur \div 2^shft), shft \div 2)
mpl_parity(n) ==
  FoldFunction(XorDigit, 0, [i \in 1..n.used |-> FoldBits(n.dp[i], MP_DIGIT_BIT \div 2)])

mpl_set_bit(n, bitNum, value) ==
  LET ix == bitNum \div MP_DIGIT_BIT + 1
      mask == 2^(bitNum % MP_DIGIT_BIT)
      room == s_mp_pad(n, ix)
      cleared == room.dp[ix] & (MP_DIGIT_MAX - mask)
  IN  Clamped([room EXCEPT !.dp = [i \in 1..Alloc |->
                 IF i = ix THEN cleared + mask * value ELSE room.dp[i]]])

\* Guarded by ARGCHK: the bit is in one of the digits in use.
mpl_get_bit(n, bitNum) ==
  (n.dp[bitNum \div MP_DIGIT_BIT + 1] \div 2^(bitNum % MP_DIGIT_BIT)) % 2

mpl_get_bits(n, lsbNum, numBits) ==
  LET rshift == lsbNum % MP_DIGIT_BIT
      lsWndx == lsbNum \div MP_DIGIT_BIT + 1
      low == n.dp[lsWndx] \div 2^rshift
      high == (n.dp[lsWndx + 1] * 2^(MP_DIGIT_BIT - rshift)) % MP_RADIX
  IN  IF numBits + rshift <= MP_DIGIT_BIT \/ lsWndx >= n.used
      THEN low % 2^numBits
      ELSE (low | high) % 2^numBits

\* The bits of the highest digit that is not zero and of those below it.
mpl_significant_bits(n) ==
  LET used == {i \in 1..n.used : n.dp[i] # 0}
      top == Max(used)
      width == CHOOSE k \in 1..MP_DIGIT_BIT : n.dp[top] \in 2^(k - 1)..(2^k - 1)
  IN  IF used = {} THEN 1 ELSE width + (top - 1) * MP_DIGIT_BIT

-----------------------------------------------------------------------------
(* Two numbers and the calls on them.                                      *)

BitNums == 0..(Alloc * MP_DIGIT_BIT - 1)
Numbers == {Fresh(DigitsOf(v)) : v \in 0..(2^(Alloc * MP_DIGIT_BIT) - 1)}

LogicInit == a \in Numbers /\ b \in Numbers

\* mp_add into a number just made, and over a number that may be longer.
Add == /\ Magnitude(a) + Magnitude(b) < 2^(Alloc * MP_DIGIT_BIT)
       /\ a' = StoreSum(a, b, Fresh(<<0>>))
       /\ UNCHANGED b
AddOver == /\ 2 * Magnitude(b) < 2^(Alloc * MP_DIGIT_BIT)
           /\ a' = StoreSum(b, b, a)
           /\ UNCHANGED b
Combine == a' \in {mpl_and(a, b), mpl_or(a, b), mpl_xor(a, b)} /\ UNCHANGED b
Complement == a' = mpl_not(a) /\ UNCHANGED b
Shift == /\ \E d \in BitNums :
              \/ a' = mpl_rsh(a, d)
              \/ Magnitude(a) * 2^d < 2^(Alloc * MP_DIGIT_BIT) /\ a' = mpl_lsh(a, d)
         /\ UNCHANGED b
SetBit == (\E k \in BitNums, v \in {0, 1} : a' = mpl_set_bit(a, k, v)) /\ UNCHANGED b
Swap == a' = b /\ b' = a
LogicNext == Add \/ AddOver \/ Combine \/ Complement \/ Shift \/ SetBit \/ Swap
LogicSpec == LogicInit /\ [][LogicNext]_logicVars

-----------------------------------------------------------------------------
(* Properties *)

\* A number has a digit and no more than its memory holds, and its highest
\* digit in use is not zero unless it is the only one: mpl_or alone does not
\* call s_mp_clamp, and every length comparison of the library relies on it.
ClampedOK ==
  \A n \in {a, b} : /\ n.used \in 1..Alloc
                     /\ n.dp \in [1..Alloc -> Digit]
                     /\ n.used > 1 => n.dp[n.used] # 0

ClearAbove(n) == \A i \in (n.used + 1)..Alloc : n.dp[i] = 0

\* mpl_and, mpl_rsh and mpl_lsh compute the operation on the values of the
\* numbers, whichever is longer and whatever the memory above the digits in
\* use holds, and mpl_not complements every digit in use.  mpl_or and mpl_xor
\* do so when that memory is clear; a sum stored over a longer number leaves
\* it as it was, and they then read old digits.
LogicExact ==
  /\ Magnitude(mpl_and(a, b)) = Magnitude(a) & Magnitude(b)
  /\ ClearAbove(a) /\ ClearAbove(b) =>
       /\ Magnitude(mpl_or(a, b)) = Magnitude(a) | Magnitude(b)
       /\ Magnitude(mpl_xor(a, b)) = Magnitude(a) ^^ Magnitude(b)
  /\ Magnitude(mpl_not(a)) = 2^(a.used * MP_DIGIT_BIT) - 1 - Magnitude(a)
  /\ \A d \in BitNums :
       /\ Magnitude(mpl_rsh(a, d)) = Magnitude(a) \div 2^d
       /\ Magnitude(a) * 2^d < 2^(Alloc * MP_DIGIT_BIT) =>
            Magnitude(mpl_lsh(a, d)) = Magnitude(a) * 2^d

\* The bit calls agree with each other and with the value: the bits set, the
\* parity and the length count the same bits that mpl_get_bit returns, a bit
\* set by mpl_set_bit (growing the number when it has to) is the bit that
\* mpl_get_bit then returns and no other changes.
BitsExact ==
  LET bits == 0..(a.used * MP_DIGIT_BIT - 1)
      set == {k \in bits : mpl_get_bit(a, k) = 1}
  IN  /\ Magnitude(a) = FoldSet(LAMBDA k, t : 2^k + t, 0, set)
      /\ mpl_num_set(a) = Cardinality(set)
      /\ mpl_num_clear(a) = Cardinality(bits \ set)
      /\ mpl_parity(a) = Cardinality(set) % 2
      /\ mpl_significant_bits(a) = IF set = {} THEN 1 ELSE Max(set) + 1
      /\ \A k \in BitNums, v \in {0, 1} :
           Magnitude(mpl_set_bit(a, k, v)) =
             Magnitude(a) + 2^k * (v - (IF k \in set THEN 1 ELSE 0))

\* mpl_get_bits returns the window of the value that starts at any bit in use
\* and is shorter than a digit: across a digit boundary, and past the top
\* without the stale digit above it.  The first needs digits of three bits.
WindowsExact(n) ==
  \A k \in 0..(n.used * MP_DIGIT_BIT - 1), numBits \in 0..(MP_DIGIT_BIT - 1) :
    mpl_get_bits(n, k, numBits) = (Magnitude(n) \div 2^k) % 2^numBits

\* The calls of mplogic.c leave canonical lengths and compute what they
\* document on the values, whatever stale digits lie above those in use.
BitwiseExact == ClampedOK /\ LogicExact /\ BitsExact

=============================================================================
