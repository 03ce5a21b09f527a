----------------------------- MODULE PrioOctets -----------------------------
(***************************************************************************)
(* Numbers as octets, most significant first: what mpi/mpi.c makes of the  *)
(* octets of a stream or of a random number generator, and of a number.    *)
(***************************************************************************)
EXTENDS Integers, Sequences

CONSTANT Radix       \* values of an octet: 256

ASSUME RadixAssumption == Radix \in Nat \ {0, 1}

octets_of[n \in Nat] ==
    IF n < Radix THEN <<n>> ELSE Append(octets_of[n \div Radix], n % Radix)

(* mp_to_fixlen_octets with the size mp_unsigned_octet_size gives: no      *)
(* leading zeros, and one octet for zero.                                  *)
mp_to_octets(n) == octets_of[n]

(* Leading zeros are ignored. *)
mp_read_unsigned_octets(s) ==
    LET acc[k \in 0 .. Len(s)] == IF k = 0 THEN 0 ELSE acc[k - 1] * Radix + s[k]
    IN  acc[Len(s)]
=============================================================================
