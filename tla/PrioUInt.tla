------------------------------ MODULE PrioUInt ------------------------------
(***************************************************************************)
(* Sums of unsigned integers (PrioClient_encode_uint of prio/client.c,     *)
(* PrioTotalShare_set_data_uint and _final_uint of prio/server.c, driven   *)
(* as in pclient_uint/main.c).  An integer of prec bits is prec data       *)
(* fields; the servers count bits and weigh the counts at the end.         *)
(***************************************************************************)
EXTENDS PrioSerial

CONSTANTS
    Prec,         \* prec, the same at the client and the servers
    DigitBound,   \* 2^MP_DIGIT_BIT: the least value that does not fit one mp_digit
    Inputs,       \* the longs a client may submit
    Mask,         \* Mask[k]: the random shares of the k-th client's bits
    MaxClients    \* bound on the clients of a run

(* The precision passed PrecInRange; rand_int draws reduced elements. *)
ASSUME UIntAssumption ==
    /\ Prec \in Nat \ {0} /\ DigitBound \in Nat /\ MaxClients \in Nat
    /\ Inputs \subseteq Int
    /\ Mask \in [1 .. MaxClients -> [1 .. NumFields -> Field]]

(* PrioConfig_numUIntEntries. *)
num_uints == NumFields \div Prec

(* Big-endian; the bits are set only if both checks pass. *)
long_to_bool(x) ==
    [ok |-> x <= 2 ^ Prec - 1 /\ 0 <= x, bits |-> [b \in 1 .. Prec |-> (x \div 2 ^ (Prec - b)) % 2]]

(* Field (i - 1) * prec + b is bit b of integer i.  One integer that does  *)
(* not fit, or a number of fields that prec does not divide, and nothing   *)
(* is encoded.                                                             *)
PrioClient_encode_uint(data_uint) ==
    IF NumFields = Prec * num_uints /\ \A i \in 1 .. num_uints : long_to_bool(data_uint[i]).ok
    THEN [rv   |-> "success",
          bits |-> Array(NumFields, LAMBDA f :
                       long_to_bool(data_uint[((f - 1) \div Prec) + 1]).bits[((f - 1) % Prec) + 1])]
    ELSE [rv |-> "failure", bits |-> <<>>]

(* Mutant: the weights start at 2^prec. *)
weighed_OffByOne(data_shares, u) ==
    LET sum[b \in 0 .. Prec] ==
            IF b = 0 THEN 0
            ELSE addmod(sum[b - 1], data_shares[(u - 1) * Prec + b] * 2 ^ (Prec - b + 1))
    IN  sum[Prec]

(* For integer u, the counts of its bits times the weights of the bits. *)
weighed(data_shares, u) ==
    LET sum[b \in 0 .. Prec] ==
            IF b = 0 THEN 0
            ELSE addmod(sum[b - 1], data_shares[(u - 1) * Prec + b] * 2 ^ (Prec - b))
    IN  sum[Prec]

PrioTotalShare_set_data_uint(idx, data_shares) ==
    [idx |-> idx, data_shares |-> Array(num_uints, LAMBDA u : weighed(data_shares, u))]

(* PrioTotalShare_final with a configuration for num_uints fields: the     *)
(* lengths and the servers have to be right, and each sum has to take one  *)
(* digit; sums before one that does not are written all the same.          *)
PrioTotalShare_final_uint(output, tA, tB) ==
    LET shaped  == /\ Len(tA.data_shares) = num_uints
                   /\ Len(tA.data_shares) = Len(tB.data_shares)
                   /\ tA.idx = PRIO_SERVER_A /\ tB.idx = PRIO_SERVER_B
        sum     == MPArray_addmod(tA.data_shares, tB.data_shares)
        fits(i) == \A j \in 1 .. i : sum[j] < DigitBound
    IN  IF ~shaped THEN [rv |-> "failure", output |-> output]
        ELSE [rv     |-> IF fits(num_uints) THEN "success" ELSE "failure",
              output |-> [i \in 1 .. num_uints |-> IF fits(i) THEN sum[i] ELSE output[i]]]

-----------------------------------------------------------------------------
VARIABLES
    pc,        \* "collect", "totals" or "final"
    clients,   \* clients that have called PrioClient_encode_uint
    truth,     \* the sums of the integers of the submissions that were encoded
    dataA, dataB,  \* the data_shares of the two servers
    tA, tB,    \* the total shares
    sent,      \* how tB got to server A: "no", "object", or what PrioTotalShare_read returned
    final      \* result of PrioTotalShare_final_uint, and the sums it was called for

vars == <<pc, clients, truth, dataA, dataB, tA, tB, sent, final>>

Zeros == [i \in 1 .. num_uints |-> 0]

Init ==
    /\ pc = "collect" /\ clients = 0
    /\ truth = Zeros
    /\ dataA = MPArray_new(NumFields) /\ dataB = MPArray_new(NumFields)
    /\ tA = [idx |-> PRIO_SERVER_A, data_shares |-> <<>>]
    /\ tB = [idx |-> PRIO_SERVER_B, data_shares |-> <<>>]
    /\ sent = "no"
    /\ final = [rv |-> "none", output |-> Zeros, sums |-> Zeros]

(* A client encodes its integers; the servers accept and add the shares. *)
Submit ==
    /\ pc = "collect" /\ clients < MaxClients
    /\ clients' = clients + 1
    /\ \E xs \in [1 .. num_uints -> Inputs] :
           LET enc == PrioClient_encode_uint(xs)
               r   == Mask[clients + 1]
           IN  IF enc.rv = "failure" THEN UNCHANGED <<truth, dataA, dataB>>
               ELSE /\ truth' = [i \in 1 .. num_uints |-> truth[i] + xs[i]]
                    /\ dataA' = MPArray_addmod(dataA, Array(NumFields, LAMBDA f :
                                                   submod(enc.bits[f], r[f])))
                    /\ dataB' = MPArray_addmod(dataB, r)
    /\ UNCHANGED <<pc, tA, tB, sent, final>>

(* PrioTotalShare_set_data_uint fails if prec does not divide the number   *)
(* of fields, and the program stops.                                       *)
SetTotals ==
    /\ pc = "collect" /\ NumFields = Prec * num_uints
    /\ pc' = "totals"
    /\ tA' = PrioTotalShare_set_data_uint(PRIO_SERVER_A, dataA)
    /\ tB' = PrioTotalShare_set_data_uint(PRIO_SERVER_B, dataB)
    /\ sent' = "no"
    /\ UNCHANGED <<clients, truth, dataA, dataB, final>>

(* As in pclient_uint/main.c, where both servers are in one process. *)
HandOver ==
    /\ pc = "totals" /\ sent = "no"
    /\ sent' = "object"
    /\ UNCHANGED <<pc, clients, truth, dataA, dataB, tA, tB, final>>

(* Server B writes its total share and server A reads it. *)
SendTotal ==
    /\ pc = "totals" /\ sent = "no"
    /\ LET res == PrioTotalShare_read(Cursor(PrioTotalShare_write(tB),
                                             [idx |-> PRIO_SERVER_A, data_shares |-> <<>>]))
       IN  sent' = IF res.ok THEN "success" ELSE "failure"
    /\ UNCHANGED <<pc, clients, truth, dataA, dataB, tA, tB, final>>

(* The totals are combined, and more clients may follow. *)
Final ==
    /\ pc = "totals" /\ sent # "no"
    /\ pc' = "collect"
    /\ final' = IF sent = "failure" THEN [final EXCEPT !.rv = "none"]
                ELSE LET res == PrioTotalShare_final_uint(final.output, tA, tB)
                     IN  [rv |-> res.rv, output |-> res.output, sums |-> truth]
    /\ UNCHANGED <<clients, truth, dataA, dataB, tA, tB, sent>>

Next == Submit \/ SetTotals \/ HandOver \/ SendTotal \/ Final

Spec == Init /\ [][Next]_vars

-----------------------------------------------------------------------------
(* Properties *)

(* While no sum reaches the modulus, PrioTotalShare_final_uint returns the *)
(* sums of the integers the clients submitted, or fails if and only if one *)
(* of them takes more than a digit.                                        *)
SumsExact ==
    final.rv # "none" /\ (\A i \in 1 .. num_uints : final.sums[i] < Modulus) =>
        /\ final.rv = "success" => final.output = final.sums
        /\ final.rv = "failure" <=> \E i \in 1 .. num_uints : final.sums[i] >= DigitBound

(* pclient_uint/main.c: "Server B can send tB to Server A."  What          *)
(* PrioTotalShare_write writes, PrioTotalShare_read accepts.               *)
TotalReadable == sent # "failure"
=============================================================================
