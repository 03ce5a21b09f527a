--------------------------- MODULE PrioSubmission ---------------------------
(***************************************************************************)
(* One submission from the client to the verdict: PrioClient_encode, a     *)
(* client that deviates from it in the proof and in the Beaver triple it   *)
(* sends, and the two servers that check the submission at a point of the  *)
(* field (prio/client.c, prio/server.c).                                   *)
(***************************************************************************)
EXTENDS PrioSnip, FiniteSets

CONSTANTS
    DataVals,   \* values a data field may have; honest clients send 0 and 1
    Rnd,        \* the random values a client may draw
    Change      \* what a deviating client adds to c, to h0 and to the points of h

(* rand_int and PRG_get_int yield reduced elements, one stream for each    *)
(* seed, as long as the data fields and the points of h take.              *)
Draws == [triple : [a1 : Field, b1 : Field, a2 : Field, b2 : Field, c2 : Field],
          f0 : Field, f0A : Field, g0 : Field, g0A : Field, h0A : Field,
          seed : [1 .. NumFields + N -> Field]]

ASSUME ClientAssumption == DataVals \subseteq Field /\ Rnd \subseteq Draws /\ Change \subseteq Field

VARIABLES
    data,       \* data_in
    packets,    \* the two packets, <<>> before they are computed
    altered,    \* whether the client changed its proof or its triple
    point,      \* the point the servers check at
    verdict     \* what PrioVerifier_isValid returns, "none" before

submissionVars == <<data, packets, altered, point, verdict>>

(* The whole exchange between the servers about the packets pk at point r. *)
Verdict(pk, r) ==
    LET sA  == compute_shares(PRIO_SERVER_A, pk, r)
        sB  == compute_shares(PRIO_SERVER_B, pk, r)
        p1A == PrioPacketVerify1_set_data(sA, pk.A.triple)
        p1B == PrioPacketVerify1_set_data(sB, pk.B.triple)
        p2A == PrioPacketVerify2_set_data(sA, pk.A.triple, p1A, p1B)
        p2B == PrioPacketVerify2_set_data(sB, pk.B.triple, p1A, p1B)
    IN  PrioVerifier_isValid(p2A, p2B)

SubmissionInit ==
    /\ data \in [1 .. NumFields -> DataVals]
    /\ packets = <<>>
    /\ altered = FALSE
    /\ point = 0
    /\ verdict = "none"

Encode ==
    /\ packets = <<>>
    /\ \E rnd \in Rnd : packets' = PrioPacketClient_set_data(data, rnd)
    /\ UNCHANGED <<data, altered, point, verdict>>

(* The servers use what the client sends without any check of their own.   *)
(* A client that deviates is free in both triples, both shares of f(0),    *)
(* g(0) and h(0), the points of h and the seed.  The draws of Encode       *)
(* already leave all of them free except one share each of c, of h(0) and  *)
(* of the points of h, which Encode computes: those are changed here, so   *)
(* that Encode and Alter together reach, when Rnd is Draws and Change is   *)
(* Field, every pair of packets whose data shares add up to the data.      *)
Alter ==
    /\ packets # <<>>
    /\ verdict = "none"
    /\ ~altered
    /\ \E z \in Change, x \in Change, y \in [1 .. N -> Change] :
        packets' = [packets EXCEPT !.A.triple.c = addmod(@, z),
                                   !.A.h0 = addmod(@, x),
                                   !.A.h_points = Array(N, LAMBDA j : addmod(@[j], y[j]))]
    /\ altered' = TRUE
    /\ UNCHANGED <<data, point, verdict>>

Verify ==
    /\ packets # <<>>
    /\ verdict = "none"
    /\ point' \in EvalPoints
    /\ verdict' = IF Verdict(packets, point') THEN "valid" ELSE "invalid"
    /\ UNCHANGED <<data, packets, altered>>

Done == verdict # "none" /\ UNCHANGED submissionVars

SubmissionNext == Encode \/ Alter \/ Verify \/ Done

SubmissionSpec == SubmissionInit /\ [][SubmissionNext]_submissionVars

-----------------------------------------------------------------------------
(* Properties *)

Honest == packets # <<>> /\ ~altered /\ \A i \in 1 .. NumFields : data[i] \in {0, 1}

(* An honest submission is valid at every point the servers may draw: the  *)
(* client and the servers agree on which roots carry the data, on the      *)
(* order in which prgB is consumed and on how f(0), g(0), h(0) are shared. *)
HonestValid == Honest /\ verdict # "none" => verdict = "valid"

(* a * b - c of the triple in the packets pk: 0 when it is a Beaver triple. *)
TripleError(pk) ==
    submod(mulmod(addmod(pk.A.triple.a, pk.B.triple.a), addmod(pk.A.triple.b, pk.B.triple.b)),
           addmod(pk.A.triple.c, pk.B.triple.c))

(* The wrong triple that hides wrong data: there is no padding root, and   *)
(* in every field x * (x - 1) is what the triple is wrong by.              *)
Masked ==
    /\ N = NumFields + 1
    /\ \A i \in 1 .. NumFields : mulmod(data[i], submod(data[i], 1)) = TripleError(packets)

(* A submission with a data field other than 0 and 1 is rejected at all    *)
(* but at most 2N - 1 of the points, whatever proof and whatever triple    *)
(* the client sends, unless the data are Masked.  With e = a * b - c the   *)
(* servers test f * g - h - e, which has degree below 2N; it is            *)
(* x * (x - 1) - e at the root of a field and -e at a root of padding, and *)
(* these are all zero only when the data are bits or are Masked.  For      *)
(* Masked data no such bound holds, since server.c:602-640 never checks    *)
(* the triple: with h chosen to fit they pass at every point.              *)
CheatBound ==
    /\ packets # <<>> /\ verdict = "none"
    /\ \E i \in 1 .. NumFields : data[i] \notin {0, 1}
    /\ ~Masked
    =>
        Cardinality({r \in Field : Verdict(packets, r)}) <= 2 * N - 1

(* What the servers add up for a submission is the data the client put in: *)
(* server B regenerates from the seed what the client subtracted.          *)
SharesAddUp ==
    packets # <<>> =>
        MPArray_addmod(data_share(PRIO_SERVER_A, packets), data_share(PRIO_SERVER_B, packets))
            = data
=============================================================================
