------------------------------- MODULE MpiLong -------------------------------
(***************************************************************************)
(* The arithmetic of MpiArith on wider digits.  A carry out of the middle  *)
(* of a product, and a quotient digit that is taken back more than once,   *)
(* need half digits of at least two bits: here the two numbers are read    *)
(* from their octets a digit at a time, top digit first, the lower digits  *)
(* from a sample at the ends and the middle of the range.                  *)
(***************************************************************************)
EXTENDS MpiArith

CONSTANTS
  MaxUsed,    \* bound: the digits of a number
  MaxTotal,   \* bound: the digits of both numbers together
  Sample      \* the lower digits

ASSUME MpiLongAssumption ==
  MaxUsed \in Nat /\ MaxTotal \in Nat /\ Sample \subseteq Digit

\* A digit read into a number that is still zero replaces it; any other
\* shifts it up by a digit.
ReadDigit(a, d) ==
  IF mp_cmp_z(a) = MP_EQ THEN mp_set(d)
  ELSE [a EXCEPT !.dp = [s_mp_lshd(a.dp, 1) EXCEPT ![1] = d]]

ReadX == /\ Len(x.dp) < MaxUsed
         /\ Len(x.dp) + Len(y.dp) < MaxTotal
         /\ \E d \in IF mp_cmp_z(x) = MP_EQ THEN Digit ELSE Sample :
              x' = ReadDigit(x, d)
         /\ UNCHANGED y

ReadY == /\ Len(y.dp) < MaxUsed
         /\ Len(x.dp) + Len(y.dp) < MaxTotal
         /\ \E d \in IF mp_cmp_z(y) = MP_EQ THEN Digit ELSE Sample :
              y' = ReadDigit(y, d)
         /\ UNCHANGED x

LongSpec == Init /\ [][ReadX \/ ReadY]_vars

(***************************************************************************)
(* The digit primitives on the lowest digits of the two numbers: two       *)
(* digits out of half-digit products, the square with its doubled middle   *)
(* term, and the division of two digits by a normalised one.               *)
(***************************************************************************)
PrimitivesExact ==
  LET a == x.dp[1]
      b == y.dp[1]
      p == MP_MUL_DxD(a, b)
      s == MP_SQR_D(a)
  IN  /\ p.hi * MP_RADIX + p.lo = a * b
      /\ s.hi * MP_RADIX + s.lo = a * a
      /\ b >= MP_RADIX \div 2 /\ a < b =>
           \A low \in Digit :
             LET qr == s_mpv_div_2dx1d(a, low, b)
             IN  qr.q * b + qr.r = a * MP_RADIX + low /\ qr.r < b
=============================================================================
