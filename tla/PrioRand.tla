------------------------------ MODULE PrioRand ------------------------------
(***************************************************************************)
(* Random integers (prio/rand.c, msb_mask of prio/util.h, PRG_get_int and  *)
(* PRG_get_int_range of prio/prg.c).  rand_int_rng draws octets until the  *)
(* masked value is below max; the octets come from NSS in chunks, or from  *)
(* the key stream of a PRG.  An octet has OctetBits bits here.             *)
(***************************************************************************)
EXTENDS PrioOctets, FiniteSets

CONSTANTS
    OctetBits,    \* bits of an unsigned char, of Radix values
    CHUNK_SIZE,   \* the largest request to PK11_GenerateRandom
    MaxBound      \* the largest max (and lower) of a call

ASSUME RandAssumption ==
    /\ OctetBits \in Nat \ {0} /\ Radix = 2 ^ OctetBits
    /\ CHUNK_SIZE \in Nat \ {0} /\ MaxBound \in Nat

Octet == 0 .. Radix - 1

Smaller(a, b) == IF a < b THEN a ELSE b

(* The bits of a non-negative number. *)
BitLength(n) == CHOOSE b \in 0 .. n : n < 2 ^ b /\ (b = 0 \/ n >= 2 ^ (b - 1))

(* Zero takes one octet.  A negative number is an error, and the code that *)
(* is returned as a size makes the allocation that follows fail.           *)
mp_unsigned_octet_size(n) ==
    IF n = 0 THEN 1 ELSE (BitLength(n) + OctetBits - 1) \div OctetBits

(* mp_to_fixlen_octets(n, bytes, nbytes)[0]. *)
TopOctet(n) == n \div 2 ^ (OctetBits * (mp_unsigned_octet_size(n) - 1))

(* Mutant: the loop ends as soon as the mask reaches half of val. *)
msb_mask_Short(val) == 2 ^ BitLength(val \div 2) - 1

(* The all-ones number with as many bits as val. *)
msb_mask(val) == 2 ^ BitLength(val) - 1

(* buf[0] &= mask, where mask is 2^b - 1; a zero mask is not applied. *)
Masked(buf, mask) == IF mask = 0 THEN buf ELSE [buf EXCEPT ![1] = @ % (mask + 1)]

(* The octets rng_func(user_data, buf, n) writes.  PRG_get_bytes_internal  *)
(* is one PK11_CipherOp; rand_bytes_internal asks for MIN(CHUNK_SIZE,      *)
(* to_go) octets at a time and moves its pointer by CHUNK_SIZE.            *)
Drawn(rng, n) ==
    IF rng = "prg" THEN 1 .. n
    ELSE {i \in 1 .. n : \E k \in 0 .. n : i \in k * CHUNK_SIZE + 1 ..
              k * CHUNK_SIZE + Smaller(CHUNK_SIZE, n - k * CHUNK_SIZE)}

(* The buffers one turn of the loop of rand_int_rng can leave: calloc      *)
(* zeroes the octets, the first call draws all of them, and the second     *)
(* draws the first one once more.                                          *)
Buffers(rng, n) ==
    {[i \in 1 .. n |-> IF i \in Drawn(rng, n) \cup Drawn(rng, 1) THEN b[i] ELSE 0] :
         b \in [1 .. n -> Octet]}

nbytes(max) == mp_unsigned_octet_size(max - 1)

(* The number a buffer is read as. *)
Candidate(buf, max) == mp_read_unsigned_octets(Masked(buf, msb_mask(TopOctet(max - 1))))

(* Mutant: the comparison of the loop is inverted. *)
Accepts_Inverted(buf, max) == Candidate(buf, max) > max

(* The loop of rand_int_rng ends with this buffer. *)
Accepts(buf, max) == Candidate(buf, max) < max

-----------------------------------------------------------------------------
VARIABLES
    ctx,      \* prioGlobalContext is not NULL (and then NSS is initialized)
    loop,     \* "idle", or "draw" in the loop of rand_int_rng
    rng,      \* rng_func of the call: "nss" (rand_bytes_internal) or "prg"
    lower, upper,  \* lower and max of PRG_get_int_range; lower is 0 for the other calls
    max,      \* max of rand_int_rng
    result    \* [rv, out] of the last call, rv = "none" until it returns

randVars == <<ctx, loop, rng, lower, upper, max, result>>

NoResult == [rv |-> "none", out |-> 0]

RandInit ==
    /\ ctx = FALSE /\ loop = "idle" /\ rng = "nss" /\ lower = 0 /\ upper = 0 /\ max = 0
    /\ result = NoResult

(* NSS_InitContext may fail, which leaves everything as it was; with a     *)
(* context nothing is done.                                                *)
rand_init == loop = "idle" /\ ~ctx /\ ctx' = TRUE /\ UNCHANGED <<loop, rng, lower, upper, max, result>>

(* There is one context, whatever the number of calls of rand_init. *)
rand_clear == loop = "idle" /\ ctx /\ ctx' = FALSE /\ UNCHANGED <<loop, rng, lower, upper, max, result>>

Leave(rv, out) == loop' = "idle" /\ result' = [rv |-> rv, out |-> out]

(* rand_int(out, hi) (g is "nss"), PRG_get_int(prg, out, hi), both with lo *)
(* = 0, and PRG_get_int_range(prg, out, lo, hi).                           *)
Call(g, lo, hi) ==
    /\ loop = "idle"
    /\ loop' = "draw" /\ rng' = g /\ lower' = lo /\ upper' = hi /\ max' = hi - lo
    /\ result' = NoResult
    /\ UNCHANGED ctx

(* No width: zero fails by the check of rand_int_rng, a negative one by    *)
(* the allocation of max - 1 octets.  Or the generator fails: NSS always   *)
(* without a context, PK11_GenerateRandom and PK11_CipherOp at any time.   *)
Fail ==
    /\ loop = "draw"
    /\ Leave("failure", 0)
    /\ UNCHANGED <<ctx, rng, lower, upper, max>>

(* One turn of the loop, where the generator leaves buf. *)
Turn(buf) ==
    /\ rng = "nss" => ctx
    /\ IF Accepts(buf, max) THEN Leave("success", lower + Candidate(buf, max))
       ELSE UNCHANGED <<loop, result>>
    /\ UNCHANGED <<ctx, rng, lower, upper, max>>

Try == loop = "draw" /\ max > 0 /\ \E buf \in Buffers(rng, nbytes(max)) : Turn(buf)

RandNext ==
    \/ rand_init \/ rand_clear
    \/ \E g \in {"nss", "prg"}, hi \in 0 .. MaxBound : Call(g, 0, hi)
    \/ \E lo, hi \in 0 .. MaxBound : Call("prg", lo, hi)
    \/ Fail \/ Try

RandSpec == RandInit /\ [][RandNext]_randVars

(* Each octet is random: a buffer that can come comes eventually, however  *)
(* often the loop turns (with probability one).                            *)
MustFail == loop = "draw" /\ (max <= 0 \/ (rng = "nss" /\ ~ctx)) /\ Fail
Accepted == Try /\ loop' = "idle"
RandFairness == WF_randVars(MustFail) /\ SF_randVars(Accepted)

-----------------------------------------------------------------------------
(* Properties *)

(* What rand_int, PRG_get_int and PRG_get_int_range return is at least     *)
(* lower and below their max; a call with no such number fails.            *)
InRange ==
    result.rv = "success" => result.out \in lower .. upper - 1

(* rand.c: "Use rejection sampling to find a value strictly less than      *)
(* max."  Every such value is read from the same number of octet strings,  *)
(* so the masks, the chunks and the rejection leave the uniform            *)
(* distribution, and if max is more than one a turn of the loop succeeds   *)
(* with probability at least one half.                                     *)
Uniform ==
    loop = "draw" /\ max > 0 =>
        LET bufs == Buffers(rng, nbytes(max))
            accepted == {b \in bufs : Accepts(b, max)}
            ways(v) == Cardinality({b \in accepted : Candidate(b, max) = v})
        IN  /\ \A v \in 0 .. max - 1 : ways(v) = ways(0) /\ ways(v) > 0
            /\ max > 1 => 2 * Cardinality(accepted) >= Cardinality(bufs)

(* Every call returns. *)
Returns == loop = "draw" ~> loop = "idle"

(* Every draw is in range and uniform. *)
DrawsExact == InRange /\ Uniform

=============================================================================
