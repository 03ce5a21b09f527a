---------------------------- MODULE MCMpiProducts ----------------------------
(***************************************************************************)
(* Digits of eight bits: a caller that writes and reads numbers, one that    *)
(* multiplies with mp_comba.c, the loop of montmulf.c, and a caller of     *)
(* mpmontg.c in a build that uses it.                                      *)
(***************************************************************************)
EXTENDS MpiText, MpComba, MontMulf

\* The lengths at which windows widen, for short exponents.
MCSafeSteps == <<2, 4, 8>>
MCFastSteps == <<2, 3, 6>>

\* Operands with the largest, with mixed and with few digits.
MCCombaPatterns ==
  { [n \in 1..32 |-> MP_DIGIT_MAX],
    [n \in 1..32 |-> (5 * n + 3) % MP_RADIX],
    [n \in 1..32 |-> IF n % 3 = 1 THEN MP_DIGIT_MAX ELSE n % 2],
    [n \in 1..32 |-> IF n % 4 = 0 THEN 1 ELSE 0],
    [n \in 1..32 |-> (n * n + 7) % MP_RADIX] }

\* Factors and moduli of the same kinds, moduli odd.
MCMulfPatterns ==
  { [n \in 1..40 |-> MP_DIGIT_MAX],
    [n \in 1..40 |-> IF n = 1 THEN MP_DIGIT_MAX - 1 ELSE MP_DIGIT_MAX],
    [n \in 1..40 |-> (3 * n + 2) % MP_RADIX],
    [n \in 1..40 |-> IF n % 3 = 1 THEN MP_DIGIT_MAX ELSE n % 2],
    [n \in 1..40 |-> IF n = 1 THEN 1 ELSE 0] }

VARIABLE caller
settings == <<mp_using_cache_safe_exp, max_window_bits, call>>
columnVars == <<pc, result, c, k>>
mcVars == <<vars, settings, columnVars, productVars, caller>>

CombaIdle == pc = "idle" /\ result = mp_zero /\ c = <<0, 0, 0>> /\ k = 0
MulfIdle == /\ m1 = <<0>> /\ m2 = <<0>> /\ nint = <<1>>
            /\ dt = [n \in 0..5 |-> 0] /\ digit = 0 /\ j = 0 /\ jj = 0

MCInit ==
  \/ caller = "text" /\ MontInit /\ CombaIdle /\ MulfIdle
  \/ caller = "mpmontg" /\ MontInit /\ CombaIdle /\ MulfIdle
  \/ caller = "montmulf" /\ MulfInit /\ CombaIdle
  \/ /\ caller = "mp_comba" /\ CombaInit /\ MulfIdle
     /\ mp_using_cache_safe_exp = ~MP_USING_MONT_MULF /\ max_window_bits = 0
     /\ call = NoCall

MCNext ==
  /\ \/ caller = "text" /\ TextNext /\ UNCHANGED <<settings, columnVars, productVars>>
     \/ caller = "mpmontg" /\ MontNext /\ UNCHANGED <<columnVars, productVars>>
     \/ caller = "montmulf" /\ mont_mulf_noconv /\ UNCHANGED columnVars
     \/ caller = "mp_comba" /\ CombaNext /\ UNCHANGED <<settings, productVars>>
  /\ UNCHANGED caller

MCSpec == MCInit /\ [][MCNext]_mcVars

(***************************************************************************)
(* What mp_toradix and mp_print write, mp_read_radix reads back; the size  *)
(* that mp_radix_size announces holds it; and octets of every length that  *)
(* is allowed are read back as the number they were written from.          *)
(***************************************************************************)
TextExact == caller = "text" => RadixRoundTrip /\ RadixFits /\ OctetsRoundTrip

(***************************************************************************)
(* In a build with MP_USING_MONT_MULF no double is rounded, the Montgomery *)
(* product is the one of whole digits, and mp_exptmod computes the power.  *)
(***************************************************************************)
FloatExact == NothingRounded /\ MulfExact /\ PowerExact
=============================================================================
