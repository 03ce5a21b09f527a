------------------------------ MODULE MontMulf ------------------------------
(***************************************************************************)
(* src/mpi/montmulf.c: the Montgomery product in floating point, for       *)
(* builds with MP_USING_MONT_MULF.  One factor is split into half digits,  *)
(* and the sums of products of a digit and a half digit are kept in        *)
(* doubles dt[0], dt[1], ... of weight 2^HalfBits apart.  A double is      *)
(* exact up to 2^53, which is 2^(3 * HalfBits + 5) for the code's 16 bits: *)
(* `cleanup' moves the upper parts on before the sums grow past it, and    *)
(* the form for 16 digits is unrolled without it.  One step is one turn of *)
(* the outer loop.                                                         *)
(***************************************************************************)
EXTENDS MpMontg

CONSTANTS
  MulfLens,     \* lengths of the modulus in digits
  MulfPatterns  \* functions from an index to a digit that factors are made of

ASSUME MontMulfAssumption ==
  /\ MulfLens \subseteq Nat \ {0}
  /\ \A p \in MulfPatterns : \A k \in 1..Max(MulfLens) : p[k] \in Digit

VARIABLES
  m1, m2, nint,    \* the factors and the modulus, digits
  dt, digit, j, jj
productVars == <<m1, m2, nint, dt, digit, j, jj>>
mulfVars == <<productVars, montVars>>

Mantissa == 3 * HalfBits + 5
nlen == Len(nint)

upper32(v) == v \div MP_RADIX
lower32(v) == v % MP_RADIX

\* conv_i32_to_d16: the half digits, indexed from 0, with a zero above them.
conv_i32_to_d16(dp) ==
  [k \in 0..(2 * Len(dp)) |->
     IF k = 2 * Len(dp) THEN 0
     ELSE IF k % 2 = 0 THEN Lo(dp[k \div 2 + 1]) ELSE Hi(dp[k \div 2 + 1])]

\* From index 2 * from, the upper part of a sum goes to the sum of the same
\* weight, two places on.
cleanup(s, from, tlen) ==
  LET up(k) == IF k - 2 >= 2 * from THEN upper32(s[k - 2]) ELSE 0
  IN  [k \in DOMAIN s |->
         IF k \in (2 * from)..(2 * tlen - 1) THEN lower32(s[k]) + up(k) ELSE s[k]]

\* Sums of half digit weight become digits; t1 carries from digit to digit.
conv_d16_to_i32(s, base, ilen) ==
  LET t1[k \in 0..(ilen - 1)] ==
        (IF k = 0 THEN 0
         ELSE upper32(s[base + 2 * k - 2]) + s[base + 2 * k - 1] \div MP_HALF_RADIX
                + upper32(t1[k - 1]))
          + lower32(s[base + 2 * k])
          + (s[base + 2 * k + 1] % MP_HALF_RADIX) * MP_HALF_RADIX
  IN  [k \in 1..ilen |-> lower32(t1[k - 1])]

adjust_montf_result(i32, n, len) ==
  LET low == SubSeq(i32, 1, len)
  IN  IF i32[len + 1] > 0 \/ s_mp_cmp(low, n) # MP_LT
      THEN SubDigits(low, n).dp ELSE low

\* The half digit that clears the lowest half digit of a sum.
n0prime == Wrap(-s_mp_invmod_radix(nint[1]))
Clearing(v, dn0) == (lower32(v) * dn0) % MP_HALF_RADIX

-----------------------------------------------------------------------------

\* Factors below the modulus, which is odd.
MulfInit ==
  /\ MontInit
  /\ \E len \in MulfLens, p, q, n \in MulfPatterns :
       /\ n[1] % 2 = 1 /\ n[len] # 0
       /\ nint = SubSeq(n, 1, len) /\ m1 = SubSeq(p, 1, len) /\ m2 = SubSeq(q, 1, len)
       /\ s_mp_cmp(m1, nint) = MP_LT /\ s_mp_cmp(m2, nint) = MP_LT
  /\ dt = [k \in 0..(4 * nlen + 1) |->
             IF k = 0 THEN m1[1] * Lo(m2[1]) ELSE 0]
  /\ digit = Clearing(m1[1] * Lo(m2[1]), Lo(n0prime))
  /\ j = 0 /\ jj = 0

cleanupDue_Never == FALSE
cleanupDue == nlen # 16 /\ jj = 30

\* One half digit of m2 and the half digit of the reduction that clears the
\* lowest sum.  The next sum is settled at once, the others grow.
mont_mulf_noconv ==
  LET dm2 == conv_i32_to_d16(m2)
      a == dt[j] + nint[1] * digit
      b == dt[j + 1] + m1[1] * dm2[j + 1] + a \div MP_HALF_RADIX
      grown == [k \in DOMAIN dt |->
                  LET i == (k - j) \div 2
                  IN  CASE k = j + 1 -> b
                        [] k > j + 1 /\ (k - j) % 2 = 0 /\ i < nlen ->
                             dt[k] + m1[i + 1] * dm2[j] + nint[i + 1] * digit
                        [] OTHER -> dt[k]]
  IN  /\ j < 2 * nlen
      /\ dt' = IF cleanupDue THEN cleanup(grown, j \div 2 + 1, 2 * nlen + 1)
               ELSE grown
      /\ jj' = IF cleanupDue THEN 1 ELSE jj + 1
      /\ digit' = Clearing(b, Lo(n0prime))
      /\ j' = j + 1
      /\ UNCHANGED <<m1, m2, nint, montVars>>

Result == adjust_montf_result(conv_d16_to_i32(dt, 2 * nlen, nlen + 1), nint, nlen)

MulfSpec == MulfInit /\ [][mont_mulf_noconv]_mulfVars

-----------------------------------------------------------------------------
(* Properties *)

(***************************************************************************)
(* No double is ever rounded: every sum, and the one with the clearing     *)
(* multiple of the modulus on top, stays below 2^53 in the code's widths.  *)
(* "no need for cleenup, cannot overflow" says so of 16 digits, where the  *)
(* worst case is just below the bound.  What is cleared is really zero, so *)
(* dividing by 2^HalfBits loses nothing.                                   *)
(***************************************************************************)
NothingRounded ==
  /\ \A k \in DOMAIN dt : dt[k] < 2^Mantissa
  /\ j < 2 * nlen => LET a == dt[j] + nint[1] * digit
                     IN  a < 2^Mantissa /\ a % MP_HALF_RADIX = 0

(***************************************************************************)
(* At the end of the loop the product is the one that s_mp_mul_mont        *)
(* computes in whole digits.                                               *)
(***************************************************************************)
MulfExact ==
  j = 2 * nlen =>
    LET mmm == [N |-> [sign |-> ZPOS, dp |-> nint], n0prime |-> n0prime]
        whole(dp) == [sign |-> ZPOS, dp |-> s_mp_clamp(dp)]
    IN  s_mp_clamp(Result) = s_mp_mul_mont(whole(m1), whole(m2), ZPOS, mmm).dp

=============================================================================
