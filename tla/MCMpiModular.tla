---------------------------- MODULE MCMpiModular ----------------------------
(***************************************************************************)
(* Digits of four bits: a caller of mpi.c with long numbers, of mpmontg.c, *)
(* of mpprime.c or of mp_gf2m.c.                                           *)
(***************************************************************************)
EXTENDS MpiLong, MpMontg, MpPrime, MpGf2m

\* The lengths at which windows widen, for short exponents.
MCSafeSteps == <<2, 4, 8>>
MCFastSteps == <<2, 3, 6>>

MCPrimeTab == <<2, 3, 5, 7>>

\* Irreducible polynomials of degree 6, in the second digit, and 8, on a digit
\* boundary.
MCPolynomials == {<<6, 1, 0>>, <<8, 4, 3, 1, 0>>}

VARIABLE caller
settings == <<mp_using_cache_safe_exp, max_window_bits, call>>
mcVars == <<vars, settings, searchVars, gfVars, caller>>

SearchIdle ==
  /\ pc = "idle" /\ strong = FALSE /\ sieve = {} /\ i = 0 /\ iter = 0
  /\ res = "NO" /\ witness = 0 /\ exposed = FALSE
GfIdle == pa = <<0>> /\ pb = <<0>> /\ p = << >>

MCInit ==
  /\ mp_using_cache_safe_exp = ~MP_USING_MONT_MULF /\ max_window_bits = 0
  /\ call = NoCall
  /\ \/ caller = "long" /\ Init /\ SearchIdle /\ GfIdle
     \/ caller = "mpmontg" /\ Init /\ SearchIdle /\ GfIdle
     \/ caller = "mpprime" /\ PrimeInit /\ GfIdle
     \/ caller = "mp_gf2m" /\ Init /\ SearchIdle /\ GfInit

MCNext ==
  /\ \/ caller = "long" /\ (ReadX \/ ReadY) /\ UNCHANGED <<settings, searchVars, gfVars>>
     \/ caller = "mpmontg" /\ MontNext /\ UNCHANGED <<searchVars, gfVars>>
     \/ caller = "mpprime" /\ PrimeNext /\ UNCHANGED <<settings, gfVars>>
     \/ caller = "mp_gf2m" /\ GfNext /\ UNCHANGED <<vars, settings, searchVars>>
  /\ UNCHANGED caller

MCSpec == MCInit /\ [][MCNext]_mcVars

\* A number with old digits in its memory above those in use.
Logic == INSTANCE MpLogic WITH Alloc <- MaxUsed, a <- pa, b <- pb
InMemory(n) ==
  [used |-> Len(n.dp),
   dp |-> [d \in 1..MaxUsed |-> IF d <= Len(n.dp) THEN n.dp[d] ELSE MP_DIGIT_MAX]]

(***************************************************************************)
(* The digit primitives, and sums, products and quotients of numbers of up *)
(* to three digits, where a product carries out of its middle and a        *)
(* quotient digit is taken back twice: s_mp_add_3arg, s_mp_mul and         *)
(* s_mp_div of mpi.c, and mpl_get_bits of mplogic.c, whose windows cross   *)
(* from digit to digit only in wider digits than MCMpiNumbers has.         *)
(***************************************************************************)
DigitsExact ==
  caller = "long" => /\ PrimitivesExact /\ AdditionExact
                     /\ ProductsExact /\ QuotientsExact
                     /\ y = mp_zero => Logic!WindowsExact(InMemory(x))
=============================================================================
