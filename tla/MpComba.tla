------------------------------ MODULE MpComba ------------------------------
(***************************************************************************)
(* src/mpi/mp_comba.c: products and squares of numbers of 4, 8, 16 or 32   *)
(* digits, unrolled by columns, for builds with NSS_USE_COMBA.  A column   *)
(* is summed in three digits c0, c1, c2 of which the lowest is stored and  *)
(* the others go on to the next column.  The columns of a square add each  *)
(* product of two different digits twice, and those of three and more such *)
(* products sum them once in sc0, sc1, sc2 and double the sum.  One step   *)
(* is one column; x and y are the operands.                                *)
(***************************************************************************)
EXTENDS MpiArith, SequencesExt

CONSTANTS
  CombaLens,     \* lengths of the operands in digits
  CombaPatterns  \* functions from an index to a digit that operands are made of

ASSUME MpCombaAssumption ==
  /\ CombaLens \subseteq Nat \ {0}
  /\ \A p \in CombaPatterns : \A k \in 1..Max(CombaLens) : p[k] \in Digit

VARIABLES
  pc,       \* "call", "mul", "sqr", "product", "square"
  result,   \* the number written
  c, k      \* c0, c1, c2 and the column
combaVars == <<x, y, pc, result, c, k>>

-----------------------------------------------------------------------------
(* Macros on three digits of a sum *)

\* A digit and the carry that `addq' or `adcq' leaves.
Adc(d, e, carry) == [sum |-> Wrap(d + e + carry),
                     carry |-> (d + e + carry) \div MP_RADIX]

\* Adds the three digits s to c.  A carry out of the third is lost.
AddThree(s, t) ==
  LET d0 == Adc(s[1], t[1], 0)
      d1 == Adc(s[2], t[2], d0.carry)
  IN  <<d0.sum, d1.sum, Adc(s[3], t[3], d1.carry).sum>>

\* `mulq': the product of two digits.
Product(i, j) == <<Wrap(i * j), (i * j) \div MP_RADIX, 0>>

MULADD(s, i, j) == AddThree(s, Product(i, j))
SQRADD(s, i) == AddThree(s, Product(i, i))
SQRADD2(s, i, j) == AddThree(AddThree(s, Product(i, j)), Product(i, j))
SQRADDSC(i, j) == Product(i, j)
SQRADDAC(s, i, j) == AddThree(s, Product(i, j))
SQRADDDB_Once(s, sc) == AddThree(s, sc)
SQRADDDB(s, sc) == AddThree(AddThree(s, sc), sc)
COMBA_CLEAR == <<0, 0, 0>>
COMBA_FORWARD(s) == <<s[2], s[3], 0>>

\* mp_clamp of this file leaves a zero with no digit.
RECURSIVE mp_clamp(_)
mp_clamp(dp) == IF dp # << >> /\ Top(dp) = 0 THEN mp_clamp(Front(dp)) ELSE dp

-----------------------------------------------------------------------------
(* Columns of numbers of n digits *)

Rows(col, n) == SelectSeq([i \in 1..n |-> i], LAMBDA i : col + 1 - i \in 0..(n - 1))

MulColumn(s, a, b, col) ==
  FoldLeft(LAMBDA t, i : MULADD(t, a[i], b[col + 2 - i]), s, Rows(col, Len(a)))

SqrColumn(s, a, col) ==
  LET cross == SelectSeq(Rows(col, Len(a)), LAMBDA i : 2 * i < col + 2)
      other(i) == a[col + 2 - i]
      sc == FoldLeft(LAMBDA t, i : SQRADDAC(t, a[i], other(i)),
                     SQRADDSC(a[cross[1]], other(cross[1])), Tail(cross))
      crossed == IF Len(cross) >= 3 THEN SQRADDDB(s, sc)
                 ELSE FoldLeft(LAMBDA t, i : SQRADD2(t, a[i], other(i)), s, cross)
  IN  IF col % 2 = 0 THEN SQRADD(crossed, a[col \div 2 + 1]) ELSE crossed

-----------------------------------------------------------------------------
(* mp_mul and mp_sqr with NSS_USE_COMBA.                                   *)

CombaInit ==
  /\ \E n, m \in CombaLens, p, q \in CombaPatterns, s \in {ZPOS, NEG} :
       /\ p[n] # 0 /\ q[m] # 0
       /\ x = [sign |-> s, dp |-> SubSeq(p, 1, n)]
       /\ y = [sign |-> ZPOS, dp |-> SubSeq(q, 1, m)]
  /\ pc = "call" /\ result = mp_zero /\ c = COMBA_CLEAR /\ k = 0

Unrolled == {4, 8, 16, 32}

CallMul ==
  /\ pc = "call"
  /\ IF Len(x.dp) = Len(y.dp) /\ Len(y.dp) \in Unrolled
     THEN pc' = "mul" /\ UNCHANGED result
     ELSE pc' = "product" /\ result' = mp_mul(x, y)
  /\ UNCHANGED <<x, y, c, k>>

CallSqr ==
  /\ pc = "call"
  /\ IF Len(x.dp) \in Unrolled
     THEN pc' = "sqr" /\ UNCHANGED result
     ELSE pc' = "square" /\ result' = mp_sqr(x)
  /\ UNCHANGED <<x, y, c, k>>

\* The lowest digit is stored and the column done.  After the last column the
\* next digit is stored as well and the number gets its length and sign.
ColumnDone(s, sign, end) ==
  LET stored == SubSeq(result.dp, 1, k) \o <<s[1]>>
      digits == mp_clamp(Append(stored, s[2]))
  IN  IF k < 2 * Len(x.dp) - 2
      THEN /\ result' = [result EXCEPT !.dp = stored]
           /\ c' = COMBA_FORWARD(s) /\ k' = k + 1
           /\ UNCHANGED <<x, y, pc>>
      ELSE /\ result' = [sign |-> IF digits = << >> THEN ZPOS ELSE sign, dp |-> digits]
           /\ pc' = end
           /\ UNCHANGED <<x, y, c, k>>

Mul(n) == /\ pc = "mul" /\ Len(x.dp) = n
          /\ ColumnDone(MulColumn(c, x.dp, y.dp, k), IF x.sign = y.sign THEN ZPOS ELSE NEG,
                   "product")
Sqr(n) == /\ pc = "sqr" /\ Len(x.dp) = n
          /\ ColumnDone(SqrColumn(c, x.dp, k), ZPOS, "square")

s_mp_mul_comba_4 == Mul(4)
s_mp_mul_comba_8 == Mul(8)
s_mp_mul_comba_16 == Mul(16)
s_mp_mul_comba_32 == Mul(32)
s_mp_sqr_comba_4 == Sqr(4)
s_mp_sqr_comba_8 == Sqr(8)
s_mp_sqr_comba_16 == Sqr(16)
s_mp_sqr_comba_32 == Sqr(32)

CombaNext ==
  \/ CallMul \/ CallSqr
  \/ s_mp_mul_comba_4 \/ s_mp_mul_comba_8 \/ s_mp_mul_comba_16 \/ s_mp_mul_comba_32
  \/ s_mp_sqr_comba_4 \/ s_mp_sqr_comba_8 \/ s_mp_sqr_comba_16 \/ s_mp_sqr_comba_32

CombaSpec == CombaInit /\ [][CombaNext]_combaVars

-----------------------------------------------------------------------------
(* Properties *)

(***************************************************************************)
(* A product by columns is the number, length and sign included, that the  *)
(* loop over rows of mp_mul leaves in builds without mp_comba.c: every     *)
(* pair of digits is in one column, and no column's sum outgrows the three *)
(* digits, the longest column of digits of all ones included.              *)
(***************************************************************************)
CombaProductExact == pc = "product" => result = mp_mul(x, y)

(***************************************************************************)
(* The same for squares: every pair of different digits counts twice,      *)
(* whether its column doubles the products or their sum, and every digit's *)
(* own square once.                                                        *)
(***************************************************************************)
CombaSquareExact == pc = "square" => result = mp_sqr(x)

(***************************************************************************)
(* Unrolled products and squares are the ones of the loops.                *)
(***************************************************************************)
CombaExact == CombaProductExact /\ CombaSquareExact

=============================================================================
