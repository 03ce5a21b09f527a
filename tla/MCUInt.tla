------------------------------- MODULE MCUInt -------------------------------
(***************************************************************************)
(* Two integers of two bits, in the field of 17 elements.                  *)
(***************************************************************************)
EXTENDS PrioUInt

MCMask == [k \in 1 .. MaxClients |-> [f \in 1 .. NumFields |-> (5 * k + f * f) % Modulus]]

MCInputs == -1 .. 4
=============================================================================
