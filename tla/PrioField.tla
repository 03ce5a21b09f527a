------------------------------ MODULE PrioField ------------------------------
(***************************************************************************)
(* The prime field and the configuration every other module computes in:   *)
(* prio/params.h, prio/config.c, prio/util.h, prio/share.c and the mp_*mod *)
(* routines of the vendored bignum library as prio/ uses them.             *)
(*                                                                         *)
(* An MPArray is a sequence of field elements; data[i] in C is element     *)
(* i + 1 here.                                                             *)
(***************************************************************************)
EXTENDS Integers, Sequences

CONSTANTS
    Modulus,          \* params.h: an 87-bit prime in the library
    Generator,        \* params.h: generates the subgroup of order 2^Generator2Order
    Generator2Order,  \* params.h: 19 in the library
    NumFields         \* cfg->num_data_fields

ASSUME ModulusAssumption == Modulus \in Nat /\ Modulus > 2 /\ Modulus % 2 = 1

(* params.h: "A prime modulus p." *)
ASSUME PrimeAssumption == \A d \in 2 .. Modulus - 1 : Modulus % d # 0

Field == 0 .. (Modulus - 1)

addmod(x, y) == (x + y) % Modulus

submod(x, y) == (x - y) % Modulus

mulmod(x, y) == (x * y) % Modulus

invmod(x) == CHOOSE y \in Field : mulmod(x, y) = 1 % Modulus

(* mp_exptmod_d: x raised to the k-th power, k a machine integer. *)
exptmod(x, k) ==
    LET pow[i \in 0 .. k] == IF i = 0 THEN 1 % Modulus ELSE mulmod(pow[i - 1], x)
    IN  pow[k]

(* The sequence <<F(1), ..., F(len)>>.  Concatenation makes TLC hold it as   *)
(* a tuple instead of re-evaluating F at every access.                     *)
Array(len, F(_)) == <<>> \o [i \in 1 .. len |-> F(i)]

MPArray_addmod(dst, to_add) == [i \in DOMAIN dst |-> addmod(dst[i], to_add[i])]

MPArray_new(len) == [i \in 1 .. len |-> 0]

-----------------------------------------------------------------------------
(* Configuration *)

n_roots == 2 ^ Generator2Order

inv2 == invmod(2)

PrioConfig_maxDataFields == n_roots \div 2 - 1

(* params.h: "The generator g generates a subgroup of order                *)
(* 2^Generator2Order in Z*_p."  Half way round, an element of that order   *)
(* is -1.                                                                  *)
ASSUME GeneratorAssumption ==
    /\ Generator \in Field
    /\ Generator2Order \in Nat \ {0}
    /\ exptmod(Generator, n_roots \div 2) = Modulus - 1

(* PrioConfig_new accepted the number of fields. *)
ASSUME NumFieldsAssumption == NumFields \in Nat /\ NumFields <= PrioConfig_maxDataFields

(* The least power of two that is at least val. *)
next_power_of_two(val) ==
    LET bits[i \in Nat] == IF i = 0 THEN 0 ELSE 1 + bits[i \div 2]
        pow == 2 ^ (IF val > 0 THEN bits[val] ELSE 0)
    IN  IF pow > 1 /\ pow \div 2 = val THEN val ELSE pow

PrioConfig_hPoints == next_power_of_two(NumFields + 1)

-----------------------------------------------------------------------------
(* Secret sharing.  rnd stands for the value rand_int draws. *)

share_int(src, rnd) == [A |-> rnd, B |-> submod(src, rnd)]

(* rnd holds the five values drawn: a1, b1, a2, b2 and the blinding c2. *)
BeaverTriple_set_rand(rnd) ==
    [A |-> [a |-> rnd.a1, b |-> rnd.b1,
            c |-> submod(mulmod(addmod(rnd.a1, rnd.a2), addmod(rnd.b1, rnd.b2)),
                         rnd.c2)],
     B |-> [a |-> rnd.a2, b |-> rnd.b2, c |-> rnd.c2]]
=============================================================================
