------------------------------ MODULE MpMontg ------------------------------
(***************************************************************************)
(* src/mpi/mpmontg.c: modular exponentiation by Montgomery's method.  The  *)
(* way a power is computed depends on two variables that outlive the call, *)
(* the mp_using_cache_safe_exp that callers may set and the widest window  *)
(* of exponent bits, fixed by the first call from the processor's cache.   *)
(* A number that a call writes to keeps its sign unless the call sets it,  *)
(* so the two accumulators are modelled with their signs.                  *)
(***************************************************************************)
EXTENDS MpiNumber, TLC

CONSTANTS
  Bases, Exponents, Moduli,   \* the numbers that callers use
  SafeSteps,    \* exponent bits past which windows of 4, 5, 6 are used: in the
  FastSteps,    \* code 20, 256, 780 when cache safe and 20, 160, 480 when not
  LineSizes,    \* what s_mpi_getProcessorLineSize may return
  MP_USING_MONT_MULF   \* whether the build multiplies in floating point

ASSUME MpMontgAssumption ==
  /\ Bases \subseteq Int /\ Exponents \subseteq Nat /\ Moduli \subseteq Nat \ {0}
  /\ SafeSteps \in [1..3 -> Nat] /\ FastSteps \in [1..3 -> Nat]
  /\ LineSizes \subseteq Nat
  /\ MP_USING_MONT_MULF \in BOOLEAN

VARIABLES
  mp_using_cache_safe_exp,
  max_window_bits,           \* 0 until the first call with an odd modulus
  call                       \* the last call's exponent and result
montVars == <<x, y, mp_using_cache_safe_exp, max_window_bits, call>>

MP_BADARG == [sign |-> -4, dp |-> << >>]
NoCall == [exponent |-> 0, result |-> mp_zero, made |-> FALSE]

-----------------------------------------------------------------------------
(* Montgomery products: mmm is the modulus N and n0prime *)

PadTo(dp, n) == [i \in 1..Max({n, Len(dp)}) |-> At(dp, i)]

s_mp_mul_d_add_offset(dp, b, c, off) ==
  SubSeq(c, 1, off) \o s_mpv_mul_d_add_prop(dp, b, SubSeq(c, off + 1, Len(c)))

\* Clears digit i of c by adding a multiple of N.
ClearDigit(c, i, mmm) ==
  s_mp_mul_d_add_offset(mmm.N.dp, Wrap(c[i] * mmm.n0prime), c, i - 1)

\* T / R for a T whose low digits are clear, brought below N.
DivideByR(T, mmm) ==
  LET r == s_mp_rshd([T EXCEPT !.dp = s_mp_clamp(T.dp)], Len(mmm.N.dp))
  IN  IF s_mp_cmp(r.dp, mmm.N.dp) # MP_LT THEN s_mp_sub(r, mmm.N) ELSE r

s_mp_redc(T, mmm) ==
  LET n == Len(mmm.N.dp)
      t[i \in 0..n] == IF i = 0 THEN PadTo(T.dp, 2 * n + 1)
                       ELSE ClearDigit(t[i - 1], i, mmm)
  IN  DivideByR([T EXCEPT !.dp = t[n]], mmm)

\* The product and its reduction a digit at a time.  The longer number is the
\* inner one; a number of fewer digits than N still has all digits cleared.
\* The sign is the one that the number written to had before.
s_mp_mul_mont(a, b, sign, mmm) ==
  LET n == Len(mmm.N.dp)
      inner == IF Len(a.dp) < Len(b.dp) THEN b.dp ELSE a.dp
      outer == IF Len(a.dp) < Len(b.dp) THEN a.dp ELSE b.dp
      c[i \in 1..n] ==
        ClearDigit(CASE i = 1 -> PadTo(s_mpv_mul_d(inner, outer[1]), 2 * n + 1)
                     [] i > 1 /\ At(outer, i) # 0 ->
                          s_mp_mul_d_add_offset(inner, outer[i], c[i - 1], i - 1)
                     [] OTHER -> c[i - 1],
                   i, mmm)
  IN  DivideByR([sign |-> sign, dp |-> c[n]], mmm)

s_mp_to_mont(a, mmm) ==
  mp_div([a EXCEPT !.dp = s_mp_lshd(a.dp, Len(mmm.N.dp))], mmm.N).r

-----------------------------------------------------------------------------
(* Two accumulators take turns: the first of acc is the current one *)

SQR(acc, mmm) == <<s_mp_redc(mp_sqr(acc[1]), mmm), acc[1]>>
MUL(acc, p, mmm) == <<s_mp_mul_mont(acc[1], p, acc[2].sign, mmm), acc[1]>>

\* MP_CHECKOK: a failed step ends the loops.
RECURSIVE SQRs(_, _, _)
SQRs(acc, n, mmm) == IF Failed(acc[1]) \/ n = 0 THEN acc ELSE SQRs(SQR(acc, mmm), n - 1, mmm)

\* mpl_get_bits: a window of the exponent.
Window(e, off, w) == (e \div 2^off) % 2^w

TrailingZeros(v, w) == CHOOSE t \in 0..w : v % 2^t = 0 /\ (v \div 2^t) % 2 = 1

\* One window with odd powers only: the factors of two of the window's value
\* are squarings after the multiplication.
OddWindow(acc, v, w, odd, mmm) ==
  LET t == TrailingZeros(v, w)
  IN  IF v = 0 THEN SQRs(acc, w, mmm)
      ELSE SQRs(MUL(SQRs(acc, w - t, mmm), odd[(v \div 2^t) \div 2 + 1], mmm), t, mmm)

RECURSIVE OddLoop(_, _, _, _, _, _)
OddLoop(acc, off, e, w, odd, mmm) ==
  IF Failed(acc[1]) \/ off < 0 THEN acc
  ELSE OddLoop(OddWindow(acc, Window(e, off, w), w, odd, mmm),
               off - w, e, w, odd, mmm)

RECURSIVE OddPowers(_, _, _, _)
OddPowers(odd, n, power2, mmm) ==
  IF Len(odd) = n THEN odd
  ELSE OddPowers(Append(odd, s_mp_redc(mp_mul(odd[Len(odd)], power2), mmm)),
                 n, power2, mmm)

mp_exptmod_i(montBase, e, mmm, bits, w) ==
  LET odd == OddPowers(<<montBase>>, 2^(w - 1), s_mp_redc(mp_sqr(montBase), mmm), mmm)
      start == <<s_mp_to_mont(mp_set(1), mmm), mp_zero>>
  IN  s_mp_redc(OddLoop(start, bits - w, e, w, odd, mmm)[1], mmm)

\* The same windows with mont_mulf_noconv for every product, which MontMulf
\* shows to be the Montgomery product.  The arrays of doubles have no signs.
mp_exptmod_f(montBase, e, mmm, bits, w) ==
  mp_exptmod_i(mp_abs(montBase), e, mmm, bits, w)

-----------------------------------------------------------------------------
(* The cache safe form: all powers, woven into one array *)

WEAVE_WORD_SIZE == 4

\* Four numbers become the columns col to col + 3 of the woven array.
mpi_to_weave(accum, powers, col, nDigits, nBignums) ==
  LET columns == 0..(WEAVE_WORD_SIZE - 1)
      written == {row * nBignums + col + c : row \in 0..(nDigits - 1), c \in columns}
  IN  [k \in written |-> At(accum[(k % nBignums) - col].dp, k \div nBignums + 1)]
        @@ powers

weave_to_mpi(powers, index, nDigits, nBignums) ==
  [sign |-> ZPOS,
   dp |-> s_mp_clamp([i \in 1..nDigits |-> powers[(i - 1) * nBignums + index]])]

\* Every even power is the square of a number still in accum.
NextPower_NotFetched(s, i, montBase, num, mmm) ==
  LET ix == i % WEAVE_WORD_SIZE
      half == s.accum[(i \div 2) % WEAVE_WORD_SIZE]
  IN  [s.accum EXCEPT ![ix] =
         IF i % 2 = 1
         THEN s_mp_mul_mont(s.accum[ix - 1], montBase, s.accum[ix].sign, mmm)
         ELSE s_mp_redc(mp_sqr(half), mmm)]

\* An odd power is the one before it times the base; an even one the square
\* of its half, which is still in accum up to the eighth and is then fetched
\* from the woven array.
NextPower(s, i, montBase, num, mmm) ==
  LET ix == i % WEAVE_WORD_SIZE
      half == IF i > 2 * WEAVE_WORD_SIZE
              THEN weave_to_mpi(s.powers, i \div 2, Len(mmm.N.dp), num)
              ELSE s.accum[(i \div 2) % WEAVE_WORD_SIZE]
  IN  [s.accum EXCEPT ![ix] =
         IF i % 2 = 1
         THEN s_mp_mul_mont(s.accum[ix - 1], montBase, s.accum[ix].sign, mmm)
         ELSE s_mp_redc(mp_sqr(half), mmm)]

\* After every fourth power the array takes them, and the first window is
\* picked up when its power goes by.
Woven(s, accum, i, num, mmm) ==
  IF i % WEAVE_WORD_SIZE # WEAVE_WORD_SIZE - 1 THEN [s EXCEPT !.accum = accum]
  ELSE [accum |-> accum,
        powers |-> mpi_to_weave(accum, s.powers, i - (WEAVE_WORD_SIZE - 1),
                                Len(mmm.N.dp), num),
        accum1 |-> IF s.first <= i THEN accum[s.first % WEAVE_WORD_SIZE] ELSE s.accum1,
        first |-> IF s.first <= i THEN num ELSE s.first]

\* Powers i and up.
RECURSIVE Powers(_, _, _, _, _)
Powers(s, i, montBase, num, mmm) ==
  IF i >= num THEN s
  ELSE Powers(Woven(s, NextPower(s, i, montBase, num, mmm), i, num, mmm),
              i + 1, montBase, num, mmm)

\* The first four powers.  The array has no element before it is written.
FirstPowers(one, montBase, square, mmm) ==
  [i \in 0..3 |-> CASE i = 0 -> one
                    [] i = 1 -> montBase
                    [] i = 2 -> square
                    [] i = 3 -> s_mp_mul_mont(square, montBase, ZPOS, mmm)]

FirstWoven(accum, first, num, mmm) ==
  [accum |-> accum,
   powers |-> mpi_to_weave(accum, << >>, 0, Len(mmm.N.dp), num),
   accum1 |-> IF first < 4 THEN accum[first] ELSE mp_zero,
   first |-> IF first < 4 THEN num ELSE first]

\* With windows of one bit there is no array: a bit that is set multiplies by
\* the base.
SafeWindow(squared, v, w, montBase, powers, mmm) ==
  IF w = 1 /\ v = 0 THEN squared
  ELSE MUL(squared, IF w = 1 THEN montBase
                    ELSE weave_to_mpi(powers, v, Len(mmm.N.dp), 2^w), mmm)

RECURSIVE SafeLoop(_, _, _, _, _, _, _)
SafeLoop(acc, off, e, w, montBase, powers, mmm) ==
  IF Failed(acc[1]) \/ off < 0 THEN acc
  ELSE SafeLoop(SafeWindow(SQRs(acc, w, mmm), Window(e, off, w), w, montBase,
                           powers, mmm),
                off - w, e, w, montBase, powers, mmm)

\* The windows after the first, which preloads the accumulator.
SafeWindows(accum1, powers, montBase, e, mmm, bits, w) ==
  s_mp_redc(SafeLoop(<<accum1, mp_zero>>, bits - 2 * w, e, w, montBase, powers, mmm)[1],
            mmm)

FromTable(table, montBase, e, mmm, bits, w) ==
  SafeWindows(table.accum1, table.powers, montBase, e, mmm, bits, w)

SafePower(one, first, montBase, e, mmm, bits, w) ==
  LET num == 2^w
      accum == FirstPowers(one, montBase, s_mp_redc(mp_sqr(montBase), mmm), mmm)
  IN  CASE num <= 2 -> SafeWindows(IF first = 0 THEN one ELSE montBase, << >>,
                                   montBase, e, mmm, bits, w)
        [] num > 2 /\ montBase.sign = NEG -> MP_BADARG
        [] OTHER -> FromTable(Powers(FirstWoven(accum, first, num, mmm),
                                     WEAVE_WORD_SIZE, montBase, num, mmm),
                              montBase, e, mmm, bits, w)

mp_exptmod_safe_i(montBase, e, mmm, bits, w) ==
  SafePower(s_mp_to_mont(mp_set(1), mmm), Window(e, bits - w, w), montBase,
            e, mmm, bits, w)

-----------------------------------------------------------------------------
(* mp_exptmod *)

significant(e) == IF e = 0 THEN 1 ELSE CHOOSE k \in 1..31 : e \div 2^(k - 1) = 1

WindowFor(bits, steps) ==
  CASE bits > steps[3] -> 6
    [] bits \in (steps[2] + 1)..steps[3] -> 5
    [] bits \in (steps[1] + 1)..steps[2] -> 4
    [] OTHER -> 1

MaxWindow(line) ==
  IF line = 0 \/ line >= 64 THEN 6
  ELSE IF line >= 32 THEN 5 ELSE IF line >= 16 THEN 4 ELSE 1

\* The exponent's length is rounded up to whole windows.
Rounded(bits, w) == w * ((bits + w - 1) \div w)

MontPower(montBase, e, mmm, safe, bits, w) ==
  CASE MP_USING_MONT_MULF -> mp_exptmod_f(montBase, e, mmm, bits, w)
    [] ~MP_USING_MONT_MULF /\ safe -> mp_exptmod_safe_i(montBase, e, mmm, bits, w)
    [] OTHER -> mp_exptmod_i(montBase, e, mmm, bits, w)

Mont(m) == [N |-> m, n0prime |-> Wrap(-s_mp_invmod_radix(m.dp[1]))]

Power(inBase, e, m, safe, limit, chosenBySafe) ==
  LET base == IF mp_cmp(inBase, m) = MP_LT THEN inBase ELSE mp_mod(inBase, m)
      wide == WindowFor(significant(e), IF chosenBySafe THEN SafeSteps ELSE FastSteps)
      w == IF safe /\ wide > limit THEN limit ELSE wide
  IN  MontPower(s_mp_to_mont(base, Mont(m)), e, Mont(m), safe,
                Rounded(significant(e), w), w)

\* The floating point form is cache safe: that build measures nothing.
Cache ==
  IF MP_USING_MONT_MULF \/ max_window_bits # 0
  THEN {[limit |-> max_window_bits, present |-> TRUE]}
  ELSE {[limit |-> MaxWindow(line), present |-> line # 0] : line \in LineSizes}

\* The first call with an odd modulus measures the cache; without a cache it
\* turns the cache safe form off, after the window was chosen for it.
mp_exptmod(inBase, e, m) ==
  /\ ~call.made
  /\ x' = inBase /\ y' = m
  /\ IF mp_iseven(m)
     THEN /\ call' = [exponent |-> e, made |-> TRUE,
                      result |-> s_mp_exptmod(inBase, Number(e), m)]
          /\ UNCHANGED <<mp_using_cache_safe_exp, max_window_bits>>
     ELSE \E cache \in Cache :
            LET safe == mp_using_cache_safe_exp /\ cache.present
            IN  /\ max_window_bits' = cache.limit
                /\ mp_using_cache_safe_exp' = safe
                /\ call' = [exponent |-> e, made |-> TRUE,
                            result |-> Power(inBase, e, m, safe, cache.limit,
                                             mp_using_cache_safe_exp)]

\* Without the cache safe form the call changes nothing.
mp_set_safe_modexp(value) ==
  /\ ~call.made
  /\ ~MP_USING_MONT_MULF
  /\ mp_using_cache_safe_exp' = value
  /\ UNCHANGED <<x, y, max_window_bits, call>>

\* The caller takes the result.
Return ==
  /\ call.made
  /\ call' = NoCall
  /\ x' = mp_zero /\ y' = mp_zero
  /\ UNCHANGED <<mp_using_cache_safe_exp, max_window_bits>>

MontInit == /\ x = mp_zero /\ y = mp_zero
            /\ mp_using_cache_safe_exp = ~MP_USING_MONT_MULF
            /\ max_window_bits = 0
            /\ call = NoCall

MontNext ==
  \/ \E b \in Bases, e \in Exponents, m \in Moduli : mp_exptmod(Number(b), e, Number(m))
  \/ \E value \in BOOLEAN : mp_set_safe_modexp(value)
  \/ Return

MontSpec == MontInit /\ [][MontNext]_montVars

-----------------------------------------------------------------------------
(* Properties *)

(***************************************************************************)
(* Whatever the cache, the mode that callers set and the calls made        *)
(* before, mp_exptmod computes the power: the windows cover the whole      *)
(* exponent, the table holds the power that each window asks for, no entry *)
(* of it is read before it is written, and the leading window that         *)
(* preloads the accumulator is the one that the loop leaves out.           *)
(***************************************************************************)
PowerExact ==
  call.made => /\ ~Failed(call.result)
               /\ ValueOf(call.result) = PowMod(ValueOf(x), call.exponent, ValueOf(y))

(***************************************************************************)
(* s_mp_mul_mont and s_mp_redc of a product agree, stay below N and are    *)
(* the product divided by R, for operands of fewer digits than N too.      *)
(***************************************************************************)
MontgomeryExact ==
  (call.made /\ mp_isodd(y)) =>
    LET mmm == Mont(y)
        N == ValueOf(y)
        R == MP_RADIX^Len(y.dp)
    IN  \A a, b \in {k % N : k \in Bases} :
          LET p == s_mp_mul_mont(Number(a), Number(b), ZPOS, mmm)
          IN  /\ p = s_mp_redc(mp_mul(Number(a), Number(b)), mmm)
              /\ ValueOf(p) \in 0..(N - 1)
              /\ (ValueOf(p) * R) % N = (a * b) % N

(***************************************************************************)
(* mp_exptmod and the Montgomery products it is made of are exact.         *)
(***************************************************************************)
ModularExact == PowerExact /\ MontgomeryExact

============================================================================
