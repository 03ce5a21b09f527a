----------------------------- MODULE PrioConfig -----------------------------
(***************************************************************************)
(* Creating a configuration (prio/config.c): the bounds that               *)
(* PrioConfig_new and PrioConfig_new_uint check, in C's int arithmetic,    *)
(* and what the rest of the library derives from an accepted one.  The     *)
(* keys, the batch id and allocation are left out.                         *)
(***************************************************************************)
EXTENDS PrioPoly

CONSTANTS
    IntWidth,        \* bits of a C int: 32 in the builds
    BBIT_PREC_MAX    \* largest precision of an integer field: 42 in the builds

ASSUME ConfigAssumption ==
    /\ IntWidth \in Nat \ {0} /\ BBIT_PREC_MAX \in Nat
    /\ BBIT_PREC_MAX < 2 ^ (IntWidth - 1) /\ n_roots < 2 ^ (IntWidth - 1)

Int_w == -(2 ^ (IntWidth - 1)) .. 2 ^ (IntWidth - 1) - 1

(* The product of two ints as the builds compute it. *)
int_mul(x, y) == ((x * y + 2 ^ (IntWidth - 1)) % 2 ^ IntWidth) - 2 ^ (IntWidth - 1)

(* C's division truncates towards zero. *)
int_div(x, y) == IF x >= 0 THEN x \div y ELSE -((-x) \div y)

PrecInRange(prec) == prec > 0 /\ prec <= BBIT_PREC_MAX

(* A configuration is the number of its data fields. *)
NoConfig == [ok |-> FALSE, num_data_fields |-> 0]

(* Mutant: one field too many is let through. *)
PrioConfig_new_OffByOne(n_fields) ==
    IF n_roots > 1 /\ n_fields <= PrioConfig_maxDataFields + 1
    THEN [ok |-> TRUE, num_data_fields |-> n_fields] ELSE NoConfig

PrioConfig_new(n_fields) ==
    IF n_roots > 1 /\ n_fields <= PrioConfig_maxDataFields
    THEN [ok |-> TRUE, num_data_fields |-> n_fields] ELSE NoConfig

PrioConfig_new_uint(n, prec) ==
    IF PrecInRange(prec) THEN PrioConfig_new(int_mul(n, prec)) ELSE NoConfig

(* Mutant: the quotient is rounded up. *)
PrioConfig_maxUIntEntries_RoundsUp(prec) ==
    IF PrecInRange(prec) THEN (PrioConfig_maxDataFields + prec - 1) \div prec ELSE 0

PrioConfig_maxUIntEntries(prec) ==
    IF PrecInRange(prec) THEN PrioConfig_maxDataFields \div prec ELSE 0

PrioConfig_numUIntEntries(cfg, prec) ==
    IF PrecInRange(prec) THEN int_div(cfg.num_data_fields, prec) ELSE 0

-----------------------------------------------------------------------------
VARIABLES
    request,   \* the caller's arguments
    cfg        \* the object returned

configVars == <<request, cfg>>

ConfigInit ==
    /\ request = [call |-> "none", n |-> 0, prec |-> 0]
    /\ cfg = NoConfig

New == \E n \in Int_w :
    /\ request.call = "none"
    /\ request' = [call |-> "new", n |-> n, prec |-> 0]
    /\ cfg' = PrioConfig_new(n)

NewUInt == \E n, prec \in Int_w :
    /\ request.call = "none"
    /\ request' = [call |-> "new_uint", n |-> n, prec |-> prec]
    /\ cfg' = PrioConfig_new_uint(n, prec)

(* PrioConfig_clear: the caller frees the object and may ask again. *)
Clear ==
    /\ request.call # "none"
    /\ request' = [call |-> "none", n |-> 0, prec |-> 0]
    /\ cfg' = NoConfig

ConfigNext == New \/ NewUInt \/ Clear

ConfigSpec == ConfigInit /\ [][ConfigNext]_configVars

-----------------------------------------------------------------------------
(* Properties *)

(* With an accepted configuration every transform the client and the       *)
(* servers run (N points for f and g, 2N for h) passes the length checks   *)
(* of poly_fft, and the constant term and all data fields have a root each. *)
TransformsFit ==
    cfg.ok /\ cfg.num_data_fields >= 0 =>
        LET bigN == next_power_of_two(cfg.num_data_fields + 1)
        IN  /\ poly_fft_accepts(bigN) /\ poly_fft_accepts(2 * bigN)
            /\ cfg.num_data_fields + 1 <= bigN

(* A number of integers up to PrioConfig_maxUIntEntries is accepted and    *)
(* read back exactly, and a larger one is refused, as long as the number   *)
(* of bits is an int.                                                      *)
UIntBoundExact ==
    /\ request.call = "new_uint" /\ PrecInRange(request.prec)
    /\ request.n > 0 /\ request.n * request.prec \in Int_w
    => /\ cfg.ok <=> request.n <= PrioConfig_maxUIntEntries(request.prec)
       /\ cfg.ok => PrioConfig_numUIntEntries(cfg, request.prec) = request.n

(* include/mprio.h: "Returns PrioConfig for nUInts integers with precision *)
(* prec that this configuration supports."                                 *)
UIntConfigSupports ==
    request.call = "new_uint" /\ request.n > 0 /\ cfg.ok =>
        PrioConfig_numUIntEntries(cfg, request.prec) = request.n
=============================================================================
