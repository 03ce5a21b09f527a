-------------------------------- MODULE MCWire --------------------------------
(***************************************************************************)
(* What passes between the parties: the objects one writes and the other   *)
(* reads (PrioStream), the keys the servers make and the ciphertexts sent  *)
(* to them (PrioKeys), and sums of two integers of two bits (PrioUInt).    *)
(* One of the three runs; the others stay where they begin.                *)
(***************************************************************************)
EXTENDS PrioStream, PrioKeys, PrioUInt

Packet(x) == [a |-> 0, b |-> x, c |-> 16, f0 |-> 3, g0 |-> x, h0 |-> 4]

MCSample == [k \in Kind |->
    CASE k = "packetA" -> {Packet(15) @@ [for_server |-> PRIO_SERVER_A,
                              data_shares |-> <<5, 0, 16, 2>>,
                              h_points |-> <<16, 0, 3, 4, 15, 1, 9, 12>>]}
      [] k = "packetB" -> {Packet(8) @@ [for_server |-> PRIO_SERVER_B, seed |-> <<0, 3>>]}
      [] k = "server"  -> {[data_shares |-> <<16, 0, 4, 3>>], [data_shares |-> <<1, 1, 1, 1>>]}
      [] k = "verify1" -> {[share_d |-> 12, share_e |-> 0]}
      [] k = "verify2" -> {[share_out |-> 4]}
      [] k = "total"   -> {[idx |-> PRIO_SERVER_B, data_shares |-> <<7, 8, 0, 16>>]}]

\* Two ids that differ, in their first octet and not after a zero.
Distinct == {<<1, 2>>, <<3, 2>>}

\* Keys of two octets, one with a leading zero, all with letters in hex.
MCPrivateKeys == {<<0, 250>>, <<171, 0>>, <<28, 9>>}
MCPublicOf == [sk \in MCPrivateKeys |-> <<sk[2], (sk[1] + 175) % 256>>]
MCMessages == {<<>>, <<1, 2>>, <<1, 2, 3>>}

MCInputs == -1 .. 4

\* The random shares of the clients' bits.
MCMask == [n \in 1 .. MaxClients |-> [f \in 1 .. NumFields |-> (5 * n + f * f) % Modulus]]

-----------------------------------------------------------------------------
VARIABLE party

mcVars == <<streamVars, keyVars, vars, party>>

MCInit ==
    /\ StreamInit /\ KeysInit /\ Init
    /\ party \in {"stream", "keys", "uint"}
    /\ party # "stream" => writerId = <<1, 2>> /\ readerId = <<1, 2>>

MCNext ==
    /\ \/ party = "stream" /\ StreamNext /\ UNCHANGED <<keyVars, vars>>
       \/ party = "keys" /\ KeysNext /\ UNCHANGED <<streamVars, vars>>
       \/ party = "uint" /\ Next /\ UNCHANGED <<streamVars, keyVars>>
    /\ UNCHANGED party

MCSpec == MCInit /\ [][MCNext]_mcVars
=============================================================================
