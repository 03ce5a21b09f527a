------------------------- MODULE PrioProtocolProofs -------------------------
(***************************************************************************)
(* Theorems about the two servers of PrioProtocol, for every field, every  *)
(* number of data fields, every list of submissions and every way they may *)
(* reach the servers.                                                      *)
(***************************************************************************)
EXTENDS PrioProtocol, PrioSnipProofs

(* mp_addmod returns a reduced field element. *)
LEMMA OpsType ==
    ASSUME NEW x \in Field, NEW y \in Field
    PROVE  addmod(x, y) \in Field
<1>1. x \in Int /\ y \in Int BY FieldInt
<1> QED BY <1>1, OpsCong

(* MPArray_new fills the array with zeros. *)
LEMMA ZeroType == 0 \in Field /\ MPArray_new(NumFields) \in Array1(NumFields)
    BY ModulusAssumption DEF Field, MPArray_new, Array1

(* MPArray_addmod keeps the length of its target and reduces every element. *)
LEMMA AddType ==
    ASSUME NEW x \in Array1(NumFields), NEW y \in Array1(NumFields)
    PROVE  MPArray_addmod(x, y) \in Array1(NumFields)
<1>1. DOMAIN x = 1 .. NumFields BY DEF Array1
<1>2. \A i \in 1 .. NumFields : x[i] \in Field /\ y[i] \in Field BY DEF Array1
<1>3. \A i \in 1 .. NumFields : addmod(x[i], y[i]) \in Field BY <1>2, OpsType
<1> QED BY <1>1, <1>3 DEF MPArray_addmod, Array1

(* The submissions are numbered from 1. *)
LEMMA SubType == Len(Stored) \in Nat /\ Sub = 1 .. Len(Stored)
    BY SubmissionAssumption DEF Stored, Sub

(* What a server reads from a stored submission. *)
LEMMA PacketType ==
    ASSUME NEW s \in Server, NEW c \in Sub
    PROVE  /\ packet_of(s, Stored[c]).triple \in Triple
           /\ data_share(s, Stored[c]) \in Array1(NumFields)
<1>1. Stored[c] \in Packets
    BY SubmissionAssumption, SubType DEF Stored
<1>2. /\ Stored[c].A.triple \in Triple /\ Stored[c].B.triple \in Triple
      /\ Stored[c].A.data_shares \in Array1(NumFields)
      /\ Stored[c].B.seed \in Array1(NumFields + N)
    BY <1>1 DEF Packets
<1>3. packet_of(s, Stored[c]).triple \in Triple
    BY <1>2 DEF packet_of
<1>4. \A i \in 1 .. NumFields : Stored[c].B.seed[0 + i] \in Field
    BY <1>2, NIsPower, NumFieldsAssumption DEF Array1
<1>5. PRG_get_array(Stored[c].B.seed, 0, NumFields) \in Array1(NumFields)
    BY <1>4 DEF PRG_get_array, Array1
<1> QED BY <1>2, <1>3, <1>5 DEF data_share

(* The packets and shares a server computes with hold reduced elements. *)
LEMMA ComputeSharesType ==
    ASSUME NEW s \in Server, NEW c \in Sub, NEW r \in EvalPoints
    PROVE  compute_shares(s, Stored[c], r) \in Shares
<1> DEFINE pk == Stored[c]
<1>1. pk \in Packets BY SubmissionAssumption, SubType DEF Stored
<1>2. /\ pk.A.f0 \in Field /\ pk.A.g0 \in Field /\ pk.A.h0 \in Field
      /\ pk.B.f0 \in Field /\ pk.B.g0 \in Field /\ pk.B.h0 \in Field
      /\ pk.A.data_shares \in Array1(NumFields) /\ pk.A.h_points \in Array1(N)
      /\ pk.B.seed \in Array1(NumFields + N)
    BY <1>1 DEF Packets
<1> HIDE DEF pk
<1>3. NumFields \in Nat /\ N \in Nat BY NIsPower, NumFieldsAssumption
<1>4. /\ packet_of(s, pk).f0 \in Int /\ packet_of(s, pk).g0 \in Int
      /\ packet_of(s, pk).h0 \in Int
    BY <1>2, FieldInt DEF packet_of
<1>5. data_share(s, pk) \in Ints(NumFields)
    <2>1. \A i \in 1 .. NumFields : 0 + i \in 1 .. NumFields + N BY <1>3
    <2>2. PRG_get_array(pk.B.seed, 0, NumFields) \in Ints(NumFields)
        BY <1>2, <2>1, FieldInt DEF PRG_get_array, Array1, Ints
    <2>3. pk.A.data_shares \in Ints(NumFields) BY <1>2, FieldInt DEF Array1, Ints
    <2> QED BY <2>2, <2>3 DEF data_share
<1>6. h_share(s, pk) \in Ints(N)
    <2>1. \A i \in 1 .. N : NumFields + i \in 1 .. NumFields + N BY <1>3
    <2>2. PRG_get_array(pk.B.seed, NumFields, N) \in Ints(N)
        BY <1>2, <2>1, FieldInt DEF PRG_get_array, Array1, Ints
    <2>3. pk.A.h_points \in Ints(N) BY <1>2, FieldInt DEF Array1, Ints
    <2> QED BY <2>2, <2>3 DEF h_share
<1>7. r \in Int
    <2>1. NumFields + 2 \in Int /\ Modulus - 1 \in Int BY <1>3, ModulusAssumption
    <2> QED BY <2>1 DEF EvalPoints
<1>8. compute_shares(s, pk, r) \in SharesType BY <1>4, <1>5, <1>6, <1>7, SharesAre
<1> QED BY <1>8 DEF pk, Shares, SharesType

(* compute_shares at a point the PRG yields. *)
LEMMA SharesAtType ==
    ASSUME NEW s \in Server, NEW c \in Sub, NEW k \in Sub
    PROVE  SharesAt[s][c][k] \in Shares
<1>1. Draw[k] \in EvalPoints BY SubmissionAssumption
<1>2. SharesAt[s][c][k] = compute_shares(s, Stored[c], Draw[k]) BY DEF SharesAt
<1> QED BY <1>1, <1>2, ComputeSharesType

(* The verifier after a failing PrioVerifier_set_data. *)
LEMMA PartlyReadType ==
    ASSUME NEW s \in Server, NEW c \in Sub, NEW v \in Verifier, NEW st \in Stage
    PROVE  PartlyRead(s, v, Stored[c], st) \in Verifier
    BY PacketType DEF PartlyRead, Verifier

(* The outcome of PrioTotalShare_final. *)
LEMMA FinalType ==
    ASSUME NEW out \in Array1(NumFields), NEW tA \in Array1(NumFields),
           NEW tB \in Array1(NumFields)
    PROVE  PrioTotalShare_final(out, tA, tB) \in Result
<1>1. MPArray_addmod(tA, tB) \in Array1(NumFields) BY AddType
<1> QED BY <1>1 DEF PrioTotalShare_final, Array1, Result

(* The packets the two rounds compute. *)
LEMMA Verify1Type ==
    ASSUME NEW v \in Verifier
    PROVE  PrioPacketVerify1_set_data(v.shares, v.triple) \in Packet1
<1>1. v.shares \in SharesType /\ v.triple \in TripleType
    BY DEF Verifier, Shares, Triple, SharesType, TripleType
<1> QED BY <1>1, Verify1Cong DEF Packet1

(* So is the second packet, whichever server computes it. *)
LEMMA Verify2Type ==
    ASSUME NEW v \in Verifier, NEW s \in Server, NEW p \in Packet1, NEW q \in Packet1
    PROVE  PrioPacketVerify2_set_data(v.shares, v.triple, OfA(s, p, q), OfB(s, p, q)) \in Field
<1>1. v.shares \in SharesType /\ v.triple \in TripleType
    BY DEF Verifier, Shares, Triple, SharesType, TripleType
<1>2. OfA(s, p, q) \in [d : Field, e : Field] /\ OfB(s, p, q) \in [d : Field, e : Field]
    BY DEF OfA, OfB, Packet1
<1> QED BY <1>1, <1>2, Verify2Cong, Zenon

(* Each server has one peer, and is its peer's peer. *)
LEMMA PeerType == \A s \in Server : peer(s) \in Server /\ peer(s) # s /\ peer(peer(s)) = s
    BY DEF Server, peer, PRIO_SERVER_A, PRIO_SERVER_B

(* Sending appends to a channel and receiving takes its head. *)
LEMMA SendType ==
    ASSUME NEW M, NEW net \in [Server -> Seq(M)], NEW s \in Server, NEW m \in M
    PROVE  [net EXCEPT ![s] = Append(@, m)] \in [Server -> Seq(M)]
    OBVIOUS

(* A message taken off a channel is one of those that may be sent on it. *)
LEMMA ReceiveType ==
    ASSUME NEW M, NEW net \in [Server -> Seq(M)], NEW s \in Server, net[s] # <<>>
    PROVE  /\ Head(net[s]) \in M
           /\ [net EXCEPT ![s] = Tail(@)] \in [Server -> Seq(M)]
    OBVIOUS

-----------------------------------------------------------------------------
(* TypeOK is not inductive: that a point is left to draw, and that the     *)
(* submission a server works on exists, needs the count of points drawn to *)
(* stay below the submissions begun; that server A's total share is there  *)
(* when it is added needs the place in the loop.                           *)
Progress ==
    \A s \in Server :
        /\ pc[s] # "set_data" => next[s] \in Sub
        /\ prg[s] <= IF pc[s] = "set_data" THEN next[s] - 1 ELSE next[s]
        /\ pc[s] = "final" => s = PRIO_SERVER_A /\ tshare[s] \in Array1(NumFields)

TypeInv == TypeOK /\ Progress

(* The freshly created servers, verifiers and packets are of their types. *)
LEMMA TypeInit == Init => TypeInv
<1> SUFFICES ASSUME Init PROVE TypeInv OBVIOUS
<1>1. PrioVerifier_new \in Verifier
    BY ZeroType DEF PrioVerifier_new, Verifier, ZeroTriple, Triple, Shares
<1>2. [d |-> 0, e |-> 0] \in Packet1 BY ZeroType DEF Packet1
<1>3. TypeOK
    BY <1>1, <1>2, SubType, ZeroType DEF Init, TypeOK, Pc, Result
<1>4. Progress BY SubType DEF Init, Progress
<1> QED BY <1>3, <1>4 DEF TypeInv

(* PrioVerifier_set_data, whether it succeeds or fails half way. *)
LEMMA TypeSetData ==
    ASSUME TypeInv, NEW s \in Server, SetData(s) \/ SetDataFails(s)
    PROVE  TypeInv'
<1> USE DEF TypeInv
<1>1. next[s] \in Sub /\ pc[s] = "set_data" /\ verifier[s] \in Verifier /\ p1[s] \in Packet1
    BY DEF SetData, SetDataFails, TypeOK
<1>2. CASE SetData(s)
    <2>1. prg[s] + 1 \in Sub BY <1>1, SubType DEF TypeOK, Progress
    <2>2. [triple |-> packet_of(s, Stored[next[s]]).triple,
           data   |-> data_share(s, Stored[next[s]]),
           shares |-> SharesAt[s][next[s]][prg[s] + 1]] \in Verifier
        BY <1>1, <2>1, PacketType, SharesAtType DEF Verifier
    <2>3. verifier' \in [Server -> Verifier] BY <1>2, <2>2 DEF SetData, TypeOK
    <2>4. prg' \in [Server -> 0 .. Len(Stored)] BY <1>2, <2>1, SubType DEF SetData, TypeOK
    <2>5. TypeOK' BY <1>2, <2>3, <2>4 DEF SetData, TypeOK, Pc
    <2>6. Progress' BY <1>1, <1>2, SubType DEF SetData, Progress, TypeOK
    <2> QED BY <2>5, <2>6
<1>3. CASE SetDataFails(s)
    <2>1. delivery[next[s]][s] \in Stage BY <1>1, SubmissionAssumption DEF TypeOK
    <2>2. PartlyRead(s, verifier[s], Stored[next[s]], delivery[next[s]][s]) \in Verifier
        BY <1>1, <2>1, PartlyReadType
    <2>3. verifier' \in [Server -> Verifier] BY <1>3, <2>2 DEF SetDataFails, TypeOK
    <2>4. [sub |-> next[s], ok |-> FALSE, p |-> p1[s]] \in Message1 BY <1>1 DEF Message1
    <2>5. net1' \in [Server -> Seq(Message1)]
        BY <1>3, <2>4, SendType DEF SetDataFails, TypeOK
    <2>6. TypeOK' BY <1>3, <2>3, <2>5 DEF SetDataFails, TypeOK, Pc
    <2>7. Progress' BY <1>1, <1>3, SubType, SMTT(30) DEF SetDataFails, Progress, TypeOK
    <2> QED BY <2>6, <2>7
<1> QED BY <1>2, <1>3

(* The two packets of the exchange. *)
LEMMA TypeVerify ==
    ASSUME TypeInv, NEW s \in Server, Verify1(s) \/ Verify2(s)
    PROVE  TypeInv'
<1> USE DEF TypeInv
<1>1. /\ next[s] \in Sub /\ pc[s] \in {"verify1", "verify2"}
      /\ verifier[s] \in Verifier /\ p1[s] \in Packet1 /\ peer(s) \in Server
    BY PeerType DEF Verify1, Verify2, TypeOK, Progress
<1>2. CASE Verify1(s)
    <2>1. PrioPacketVerify1_set_data(verifier[s].shares, verifier[s].triple) \in Packet1
        BY <1>1, Verify1Type
    <2>2. p1' \in [Server -> Packet1] /\ p1'[s] \in Packet1 BY <1>2, <2>1 DEF Verify1, TypeOK
    <2>3. [sub |-> next[s], ok |-> TRUE, p |-> p1'[s]] \in Message1 BY <1>1, <2>2 DEF Message1
    <2>4. net1' \in [Server -> Seq(Message1)] BY <1>2, <2>3, SendType DEF Verify1, TypeOK
    <2>5. TypeOK' BY <1>2, <2>2, <2>4 DEF Verify1, TypeOK, Pc
    <2>6. Progress' BY <1>1, <1>2, SubType DEF Verify1, Progress, TypeOK
    <2> QED BY <2>5, <2>6
<1>3. CASE Verify2(s)
    <2> DEFINE theirs == Head(net1[peer(s)]).p
    <2>1. net1 \in [Server -> Seq(Message1)] /\ net1[peer(s)] # <<>>
        BY <1>3 DEF Verify2, TypeOK
    <2>2. Head(net1[peer(s)]) \in Message1
          /\ [net1 EXCEPT ![peer(s)] = Tail(@)] \in [Server -> Seq(Message1)]
        BY <1>1, <2>1, ReceiveType
    <2>3. theirs \in Packet1 BY <2>2 DEF Message1
    <2>4. p2' = [p2 EXCEPT ![s] =
             PrioPacketVerify2_set_data(verifier[s].shares, verifier[s].triple,
                                        OfA(s, p1[s], theirs), OfB(s, p1[s], theirs))]
        BY <1>3 DEF Verify2
    <2> HIDE DEF theirs
    <2>5. PrioPacketVerify2_set_data(verifier[s].shares, verifier[s].triple,
                                     OfA(s, p1[s], theirs), OfB(s, p1[s], theirs)) \in Field
        BY <1>1, <2>3, Verify2Type
    <2>6. p2' \in [Server -> Field] /\ p2'[s] \in Field BY <2>4, <2>5 DEF TypeOK
    <2>7. [sub |-> next[s], p |-> p2'[s]] \in Message2 BY <1>1, <2>6 DEF Message2
    <2>8. net2' \in [Server -> Seq(Message2)] BY <1>3, <2>7, SendType DEF Verify2, TypeOK
    <2>9. TypeOK' BY <1>3, <2>2, <2>6, <2>8 DEF Verify2, TypeOK, Pc
    <2>10. Progress' BY <1>1, <1>3, SubType DEF Verify2, Progress, TypeOK
    <2> QED BY <2>9, <2>10
<1> QED BY <1>2, <1>3

(* The three ways to decide a submission: refused, accepted, rejected. *)
LEMMA TypeDecide ==
    ASSUME TypeInv, NEW s \in Server, Skip(s) \/ Aggregate(s) \/ Reject(s)
    PROVE  TypeInv'
<1> USE DEF TypeInv
<1>1. next[s] \in Sub /\ pc[s] \in {"refused", "verify2", "isValid"} /\ peer(s) \in Server
    BY PeerType DEF Skip, Aggregate, Reject, Progress
<1>2. CASE Skip(s)
    <2>1. net1 \in [Server -> Seq(Message1)] /\ net1[peer(s)] # <<>>
        BY <1>2 DEF Skip, TypeOK
    <2>2. net1' \in [Server -> Seq(Message1)] BY <1>1, <1>2, <2>1, ReceiveType DEF Skip
    <2>3. decision' \in [Server -> [Sub -> {"pending", "counted", "ignored"}]]
        BY <1>1, <1>2 DEF Skip, TypeOK
    <2>4. TypeOK' BY <1>2, <2>2, <2>3 DEF Skip, TypeOK, Pc
    <2>5. Progress' BY <1>1, <1>2, SubType DEF Skip, Progress, TypeOK
    <2> QED BY <2>4, <2>5
<1>3. CASE Aggregate(s)
    <2>1. net2 \in [Server -> Seq(Message2)] /\ net2[peer(s)] # <<>>
        BY <1>3 DEF Aggregate, TypeOK
    <2>2. net2' \in [Server -> Seq(Message2)] BY <1>1, <1>3, <2>1, ReceiveType DEF Aggregate
    <2>3. decision' \in [Server -> [Sub -> {"pending", "counted", "ignored"}]]
        BY <1>1, <1>3 DEF Aggregate, TypeOK
    <2>4. MPArray_addmod(data_shares[s], verifier[s].data) \in Array1(NumFields)
        BY AddType DEF TypeOK, Verifier
    <2>5. data_shares' \in [Server -> Array1(NumFields)] BY <1>3, <2>4 DEF Aggregate, TypeOK
    <2>6. TypeOK' BY <1>3, <2>2, <2>3, <2>5 DEF Aggregate, TypeOK, Pc
    <2>7. Progress' BY <1>1, <1>3, SubType DEF Aggregate, Progress, TypeOK
    <2> QED BY <2>6, <2>7
<1>4. CASE Reject(s)
    <2>1. net2 \in [Server -> Seq(Message2)] /\ net2[peer(s)] # <<>>
        BY <1>4 DEF Reject, TypeOK
    <2>2. net2' \in [Server -> Seq(Message2)] BY <1>1, <1>4, <2>1, ReceiveType DEF Reject
    <2>3. decision' \in [Server -> [Sub -> {"pending", "counted", "ignored"}]]
        BY <1>1, <1>4 DEF Reject, TypeOK
    <2>4. TypeOK' BY <1>4, <2>2, <2>3 DEF Reject, TypeOK, Pc
    <2>5. Progress' BY <1>1, <1>4, SubType DEF Reject, Progress, TypeOK
    <2> QED BY <2>4, <2>5
<1> QED BY <1>2, <1>3, <1>4

(* The total shares and what PrioTotalShare_final writes. *)
LEMMA TypeTotal ==
    ASSUME TypeInv, NEW s \in Server, TotalShare(s) \/ Final(s)
    PROVE  TypeInv'
<1> USE DEF TypeInv
<1>1. /\ next[s] \in Sub /\ data_shares[s] \in Array1(NumFields)
      /\ pc[s] \in {"total", "final"} /\ peer(s) \in Server
    BY PeerType DEF TotalShare, Final, Progress, TypeOK
<1>2. [next EXCEPT ![s] = @ + 1] \in [Server -> 1 .. Len(Stored) + 1]
    BY <1>1, SubType DEF TypeOK
<1>3. CASE TotalShare(s)
    <2>1. tshare' \in [Server -> {<<>>} \cup Array1(NumFields)] /\ tshare'[s] = data_shares[s]
        BY <1>1, <1>3 DEF TotalShare, TypeOK
    <2>2. CASE s = PRIO_SERVER_A
        <3>1. TypeOK' BY <1>3, <2>1, <2>2 DEF TotalShare, TypeOK, Pc
        <3>2. Progress' BY <1>1, <1>3, <2>1, <2>2, SubType DEF TotalShare, Progress, TypeOK
        <3> QED BY <3>1, <3>2
    <2>3. CASE s # PRIO_SERVER_A
        <3>1. [sub |-> next[s], t |-> tshare'[s]] \in MessageT BY <1>1, <2>1 DEF MessageT
        <3>2. nett' \in [Server -> Seq(MessageT)]
            <4>1. nett' = [nett EXCEPT ![s] = Append(@, [sub |-> next[s], t |-> tshare'[s]])]
                BY <1>3, <2>3 DEF TotalShare
            <4>2. nett \in [Server -> Seq(MessageT)] BY DEF TypeOK
            <4> QED BY <3>1, <4>1, <4>2, SendType, Zenon
        <3>3. TypeOK' BY <1>2, <1>3, <2>1, <2>3, <3>2 DEF TotalShare, TypeOK, Pc
        <3>4. Progress' BY <1>1, <1>3, <2>3, SubType, SMTT(30) DEF TotalShare, Progress, TypeOK
        <3> QED BY <3>3, <3>4
    <2> QED BY <2>2, <2>3
<1>4. CASE Final(s)
    <2>1. nett \in [Server -> Seq(MessageT)] /\ nett[peer(s)] # <<>> BY <1>4 DEF Final, TypeOK
    <2>2. Head(nett[peer(s)]) \in MessageT
          /\ [nett EXCEPT ![peer(s)] = Tail(@)] \in [Server -> Seq(MessageT)]
        BY <1>1, <2>1, ReceiveType
    <2>3. Head(nett[peer(s)]).t \in Array1(NumFields) BY <2>2 DEF MessageT
    <2>4. tshare[s] \in Array1(NumFields) /\ final.output \in Array1(NumFields)
        BY <1>4 DEF Final, Progress, TypeOK, Result
    <2>5. final' \in Result BY <1>4, <2>3, <2>4, FinalType DEF Final
    <2>6. next' \in [Server -> 1 .. Len(Stored) + 1] /\ nett' \in [Server -> Seq(MessageT)]
        BY <1>2, <1>4, <2>2, Zenon DEF Final
    <2>7. TypeOK' BY <1>4, <2>5, <2>6 DEF Final, TypeOK, Pc
    <2>8. /\ pc' = [pc EXCEPT ![s] = "set_data"] /\ next' = [next EXCEPT ![s] = @ + 1]
          /\ prg' = prg /\ tshare' = tshare /\ pc[s] = "final"
        BY <1>4 DEF Final
    <2>9. Progress' BY <1>1, <2>8, SubType, SMTT(30) DEF Progress, TypeOK
    <2> QED BY <2>7, <2>9
<1> QED BY <1>3, <1>4

(* Every step of the two servers keeps the types and the bounds on the PRG. *)
LEMMA TypeStep == TypeInv /\ [Next]_vars => TypeInv'
<1> SUFFICES ASSUME TypeInv, [Next]_vars PROVE TypeInv' OBVIOUS
<1>1. ASSUME NEW s \in Server, Step(s) PROVE TypeInv'
    BY <1>1, TypeSetData, TypeVerify, TypeDecide, TypeTotal DEF Step
<1>2. CASE UNCHANGED vars
    BY <1>2 DEF vars, TypeInv, TypeOK, Progress
<1> QED BY <1>1, <1>2 DEF Next, Finished

(* In every reachable state each variable has its type: every share, packet *)
(* and total the servers hold is a reduced field element, and the PRG never *)
(* runs past the submissions begun.                                        *)
THEOREM TypeCorrect == Spec => []TypeOK
<1>1. Init => TypeInv BY TypeInit
<1>2. TypeInv /\ [Next]_vars => TypeInv' BY TypeStep
<1>3. TypeInv => TypeOK BY DEF TypeInv
<1> QED BY <1>1, <1>2, <1>3, PTL DEF Spec
-----------------------------------------------------------------------------
(* How the servers stay in step.  The progress of a server is measured by   *)
(* the last submission for which it has sent its first packet, taken its   *)
(* peer's first packet, and decided.                                       *)
Sent1(s) == IF pc[s] \in {"set_data", "verify1"} THEN next[s] - 1 ELSE next[s]

Took1(s) == IF pc[s] \in {"isValid", "total", "final"} THEN next[s] ELSE next[s] - 1

Decided(s) == IF pc[s] \in {"total", "final"} THEN next[s] ELSE next[s] - 1

BothRead(c) == ReadsOk(PRIO_SERVER_A, c) /\ ReadsOk(PRIO_SERVER_B, c)

(* A server gets as far as the second packet only with what both can read. *)
ReadFacts ==
    \A s \in Server :
        /\ pc[s] \in {"verify1", "verify2"} => ReadsOk(s, next[s])
        /\ pc[s] = "refused" => ~ReadsOk(s, next[s])
        /\ pc[s] = "isValid" => BothRead(next[s])

(* The first packets in flight from s: those its peer has not taken. *)
Channel1 ==
    \A s \in Server :
        /\ Len(net1[s]) = Sent1(s) - Took1(peer(s))
        /\ \A i \in 1 .. Len(net1[s]) :
               /\ net1[s][i].sub = Took1(peer(s)) + i
               /\ net1[s][i].ok = ReadsOk(s, Took1(peer(s)) + i)

(* s has sent the second packet for the submission its peer is at, and the *)
(* peer has not decided yet.                                               *)
Awaited2(s) ==
    LET c == next[peer(s)]
    IN  c \in Sub /\ BothRead(c) /\ Decided(peer(s)) < c /\ c <= Took1(s)

Channel2 ==
    \A s \in Server :
        net2[s] = IF Awaited2(s) THEN <<[sub |-> next[peer(s)], p |-> p2[s]]>> ELSE <<>>

(* Only server B sends total shares; server A waits for each. *)
ChannelT ==
    /\ nett[PRIO_SERVER_A] = <<>>
    /\ Len(nett[PRIO_SERVER_B]) = next[PRIO_SERVER_B] - next[PRIO_SERVER_A]
    /\ \A i \in 1 .. Len(nett[PRIO_SERVER_B]) :
           nett[PRIO_SERVER_B][i].sub = next[PRIO_SERVER_A] - 1 + i
    /\ pc[PRIO_SERVER_B] # "final"

(* A decision that the peer has still to make is the one that the peer's   *)
(* own packets determine.                                                  *)
Decisions ==
    \A s \in Server, c \in Sub :
        /\ decision[s][c] = "pending" <=> Decided(s) < c
        /\ c <= Decided(s) /\ BothRead(c) => c <= Took1(peer(s))
        /\ c <= Decided(s) /\ Decided(peer(s)) < c =>
               decision[s][c] = IF /\ BothRead(c)
                                   /\ PrioVerifier_isValid(p2[PRIO_SERVER_A], p2[PRIO_SERVER_B])
                                THEN "counted" ELSE "ignored"

InStep == ReadFacts /\ Channel1 /\ Channel2 /\ ChannelT /\ Decisions /\ Agreement

(* A server and its peer are all the servers there are. *)
LEMMA Servers ==
    ASSUME NEW s \in Server
    PROVE  /\ peer(s) \in Server /\ peer(s) # s /\ peer(peer(s)) = s
           /\ \A r \in Server : r = s \/ r = peer(s)
           /\ PRIO_SERVER_A \in Server /\ PRIO_SERVER_B \in Server
    BY DEF Server, peer, PRIO_SERVER_A, PRIO_SERVER_B

(* Before the first submission nothing is sent and nothing decided. *)
LEMMA InStepInit == Init => InStep
<1> SUFFICES ASSUME Init PROVE InStep OBVIOUS
<1>0. \A r \in Server : /\ pc[r] = "set_data" /\ next[r] = 1 /\ net1[r] = <<>> /\ net2[r] = <<>>
                        /\ nett[r] = <<>> /\ Sent1(r) = 0 /\ Took1(r) = 0 /\ Decided(r) = 0
    BY DEF Init, Sent1, Took1, Decided
<1>1. ReadFacts BY <1>0 DEF ReadFacts
<1>2. Channel1 BY <1>0, PeerType DEF Channel1
<1>3. Channel2 BY <1>0, PeerType DEF Channel2, Awaited2
<1>4. ChannelT BY <1>0 DEF ChannelT, Server, PRIO_SERVER_A, PRIO_SERVER_B
<1>5. Decisions BY <1>0, SubType, PeerType DEF Init, Decisions
<1>6. Agreement BY DEF Init, Agreement, Server
<1> QED BY <1>1, <1>2, <1>3, <1>4, <1>5, <1>6 DEF InStep

(* Steps that change none of the counters. *)
LEMMA InStepSetData ==
    ASSUME TypeInv, InStep, NEW s \in Server, SetData(s)
    PROVE  InStep'
<1> USE DEF InStep
<1>0. /\ pc \in [Server -> Pc] /\ pc[s] = "set_data" /\ pc' = [pc EXCEPT ![s] = "verify1"]
      /\ ReadsOk(s, next[s])
      /\ UNCHANGED <<delivery, next, p2, net1, net2, nett, decision>>
    BY DEF SetData, TypeInv, TypeOK
<1>1. \A r \in Server : Sent1(r)' = Sent1(r) /\ Took1(r)' = Took1(r) /\ Decided(r)' = Decided(r)
    BY <1>0 DEF Sent1, Took1, Decided
<1>2. ReadFacts' BY <1>0 DEF ReadFacts, ReadsOk, BothRead
<1>3. Channel1' BY <1>0, <1>1, PeerType DEF Channel1, ReadsOk
<1>4. Channel2' BY <1>0, <1>1, PeerType DEF Channel2, Awaited2, BothRead, ReadsOk
<1>5. ChannelT' BY <1>0 DEF ChannelT
<1>6. Decisions' BY <1>0, <1>1, PeerType DEF Decisions, BothRead, ReadsOk
<1>7. Agreement' BY <1>0 DEF Agreement
<1> QED BY <1>2, <1>3, <1>4, <1>5, <1>6, <1>7

(* A packet appended to a channel, and a packet taken from one. *)
LEMMA AppendElems ==
    ASSUME NEW M, NEW q \in Seq(M), NEW m \in M
    PROVE  /\ Len(Append(q, m)) = Len(q) + 1
           /\ \A i \in 1 .. Len(q) : Append(q, m)[i] = q[i]
           /\ Append(q, m)[Len(q) + 1] = m
    OBVIOUS

(* The elements of a sequence without its head. *)
LEMMA TailElems ==
    ASSUME NEW M, NEW q \in Seq(M), q # <<>>
    PROVE  /\ Len(q) \in Nat \ {0} /\ Len(Tail(q)) = Len(q) - 1
           /\ Head(q) = q[1]
           /\ \A i \in 1 .. Len(q) - 1 : Tail(q)[i] = q[i + 1]
    OBVIOUS

(* The counters of packets and decisions are integers. *)
LEMMA CountersType ==
    ASSUME TypeInv, NEW r \in Server
    PROVE  next[r] \in Nat /\ Sent1(r) \in Int /\ Took1(r) \in Int /\ Decided(r) \in Int
    BY SubType DEF TypeInv, TypeOK, Sent1, Took1, Decided

(* The first packet, or the refusal in its place, is sent. *)
LEMMA InStepSend1 ==
    ASSUME TypeInv, InStep, NEW s \in Server, SetDataFails(s) \/ Verify1(s)
    PROVE  InStep'
<1> USE DEF InStep
<1> DEFINE q == peer(s)
<1>0. /\ pc \in [Server -> Pc] /\ pc[s] \in {"set_data", "verify1"}
      /\ pc' = [pc EXCEPT ![s] = IF ReadsOk(s, next[s]) THEN "verify2" ELSE "refused"]
      /\ UNCHANGED <<delivery, next, p2, net2, nett, decision>>
    BY DEF SetDataFails, Verify1, TypeInv, TypeOK, ReadFacts
<1>1. PICK p \in Packet1 :
        net1' = [net1 EXCEPT ![s] = Append(@, [sub |-> next[s], ok |-> ReadsOk(s, next[s]), p |-> p])]
    <2>1. TypeOK' BY TypeSetData, TypeVerify DEF TypeInv
    <2>2. p1[s] \in Packet1 /\ p1'[s] \in Packet1 BY <2>1 DEF TypeInv, TypeOK
    <2>3. CASE Verify1(s)
        <3>1. ReadsOk(s, next[s]) = TRUE BY <2>3 DEF Verify1, ReadFacts, ReadsOk
        <3>2. net1' = [net1 EXCEPT ![s] = Append(@, [sub |-> next[s], ok |-> TRUE, p |-> p1'[s]])]
            BY <2>3 DEF Verify1
        <3> QED BY <2>2, <3>1, <3>2, Zenon
    <2>4. CASE SetDataFails(s)
        <3>1. ReadsOk(s, next[s]) = FALSE BY <2>4 DEF SetDataFails, ReadsOk
        <3>2. net1' = [net1 EXCEPT ![s] = Append(@, [sub |-> next[s], ok |-> FALSE, p |-> p1[s]])]
            BY <2>4 DEF SetDataFails
        <3> QED BY <2>2, <3>1, <3>2, Zenon
    <2> QED BY <2>3, <2>4
<1>2. \A r \in Server : /\ Sent1(r)' = IF r = s THEN Sent1(r) + 1 ELSE Sent1(r)
                        /\ Took1(r)' = Took1(r) /\ Decided(r)' = Decided(r)
    BY <1>0, CountersType DEF Sent1, Took1, Decided
<1>3. ReadFacts' BY <1>0 DEF ReadFacts, ReadsOk, BothRead
<1>4. Channel1'
    <2> DEFINE m == [sub |-> next[s], ok |-> ReadsOk(s, next[s]), p |-> p]
    <2>1. m \in Message1 /\ net1 \in [Server -> Seq(Message1)] /\ q \in Server /\ q # s
        BY PeerType DEF Message1, SetDataFails, Verify1, TypeInv, TypeOK, Progress, ReadsOk
    <2>2. net1'[s] = Append(net1[s], m) /\ net1'[q] = net1[q] BY <1>1, <2>1
    <2>3. m.sub = next[s] /\ m.ok = ReadsOk(s, next[s]) OBVIOUS
    <2> HIDE DEF m
    <2>4. /\ Len(net1'[s]) = Len(net1[s]) + 1
          /\ \A i \in 1 .. Len(net1[s]) : net1'[s][i] = net1[s][i]
          /\ net1'[s][Len(net1[s]) + 1] = m
        BY <2>1, <2>2, AppendElems
    <2>5. Sent1(s) + 1 = next[s] BY <1>0, CountersType DEF Sent1
    <2>6. Len(net1[s]) \in Nat /\ Len(net1[s]) = Sent1(s) - Took1(q) BY <2>1 DEF Channel1
    <2>7. Len(net1'[s]) = Sent1(s)' - Took1(q)'
        BY <1>2, <2>1, <2>4, <2>6, CountersType
    <2>8. ASSUME NEW i \in 1 .. Len(net1'[s])
          PROVE  /\ net1'[s][i].sub = Took1(q)' + i
                 /\ net1'[s][i].ok = ReadsOk(s, Took1(q) + i)'
        <3>1. CASE i \in 1 .. Len(net1[s])
            <4>1. net1[s][i].sub = Took1(q) + i /\ net1[s][i].ok = ReadsOk(s, Took1(q) + i)
                BY <3>1 DEF Channel1
            <4>2. Took1(q)' = Took1(q) /\ net1'[s][i] = net1[s][i] BY <1>2, <2>1, <2>4, <3>1
            <4>3. ReadsOk(s, Took1(q) + i)' = ReadsOk(s, Took1(q) + i)
                BY <1>0, <4>2 DEF ReadsOk
            <4> QED BY <4>1, <4>2, <4>3
        <3>2. CASE i = Len(net1[s]) + 1
            <4>1. next[s] = Took1(q)' + i BY <1>2, <2>1, <2>5, <2>6, <3>2, CountersType
            <4> QED BY <1>0, <2>3, <2>4, <3>2, <4>1 DEF ReadsOk
        <3> QED BY <2>4, <2>6, <3>1, <3>2
    <2>9. Len(net1'[q]) = Sent1(q)' - Took1(s)' BY <1>2, <2>1, <2>2, PeerType DEF Channel1
    <2>10. \A i \in 1 .. Len(net1'[q]) : /\ net1'[q][i].sub = Took1(s)' + i
                                         /\ net1'[q][i].ok = ReadsOk(q, Took1(s) + i)'
        BY <1>0, <1>2, <2>1, <2>2, PeerType DEF Channel1, ReadsOk
    <2> QED BY <2>7, <2>8, <2>9, <2>10, Servers DEF Channel1
<1>5. Channel2' BY <1>0, <1>2, PeerType DEF Channel2, Awaited2, BothRead, ReadsOk
<1>6. ChannelT' BY <1>0 DEF ChannelT
<1>7. Decisions' BY <1>0, <1>2, PeerType DEF Decisions, BothRead, ReadsOk
<1>8. Agreement' BY <1>0 DEF Agreement
<1> QED BY <1>3, <1>4, <1>5, <1>6, <1>7, <1>8

(* What the channels say of the distance between the servers. *)
LEMMA Distance ==
    ASSUME TypeInv, InStep, NEW s \in Server
    PROVE  /\ Took1(s) <= Sent1(peer(s))
           /\ next[s] <= next[peer(s)] + 1
<1>1. peer(s) \in Server /\ peer(peer(s)) = s BY PeerType
<1>2. Len(net1[peer(s)]) \in Nat BY <1>1 DEF TypeInv, TypeOK
<1>3. Len(net1[peer(s)]) = Sent1(peer(s)) - Took1(s) BY <1>1 DEF InStep, Channel1
<1>4. Took1(s) <= Sent1(peer(s)) BY <1>1, <1>2, <1>3, CountersType
<1>5. Sent1(peer(s)) <= next[peer(s)] /\ next[s] - 1 <= Took1(s)
    BY <1>1, CountersType DEF Sent1, Took1
<1> QED BY <1>1, <1>4, <1>5, CountersType

(* That both servers read a submission, from the side of either. *)
LEMMA BothReadSym ==
    ASSUME NEW s \in Server, NEW c
    PROVE  BothRead(c) <=> ReadsOk(s, c) /\ ReadsOk(peer(s), c)
    BY DEF BothRead, Server, peer, PRIO_SERVER_A, PRIO_SERVER_B

(* Taking the peer's first packet. *)
LEMMA Take1 ==
    ASSUME TypeInv, InStep, NEW s \in Server, pc[s] \in {"refused", "verify2"},
           net1[peer(s)] # <<>>,
           net1' = [net1 EXCEPT ![peer(s)] = Tail(@)],
           pc' = [pc EXCEPT ![s] = "isValid"] \/ pc' = [pc EXCEPT ![s] = "total"],
           UNCHANGED <<delivery, next>>
    PROVE  /\ Channel1'
           /\ Head(net1[peer(s)]).ok = ReadsOk(peer(s), next[s])
           /\ Took1(s) = next[s] - 1 /\ Took1(s)' = next[s]
           /\ Took1(peer(s))' = Took1(peer(s))
           /\ \A r \in Server : Sent1(r)' = Sent1(r)
<1> DEFINE q == peer(s)
<1>1. /\ q \in Server /\ q # s /\ peer(q) = s /\ net1 \in [Server -> Seq(Message1)]
      /\ pc \in [Server -> Pc]
    BY PeerType DEF TypeInv, TypeOK
<1>2. /\ Took1(s) = next[s] - 1 /\ Took1(s)' = next[s] /\ Took1(q)' = Took1(q)
      /\ \A r \in Server : Sent1(r)' = Sent1(r)
    BY <1>1, CountersType DEF Took1, Sent1
<1>3. net1'[q] = Tail(net1[q]) /\ net1'[s] = net1[s] BY <1>1
<1>4. /\ Len(net1[q]) \in Nat \ {0} /\ Len(net1'[q]) = Len(net1[q]) - 1
      /\ Head(net1[q]) = net1[q][1]
      /\ \A i \in 1 .. Len(net1[q]) - 1 : net1'[q][i] = net1[q][i + 1]
    BY <1>1, <1>3, TailElems
<1>5. /\ Len(net1[q]) = Sent1(q) - Took1(s)
      /\ \A i \in 1 .. Len(net1[q]) : /\ net1[q][i].sub = Took1(s) + i
                                      /\ net1[q][i].ok = ReadsOk(q, Took1(s) + i)
    BY <1>1 DEF InStep, Channel1
<1>6. Head(net1[q]).ok = ReadsOk(q, next[s])
    <2>1. Took1(s) + 1 = next[s] BY <1>2, CountersType
    <2>2. 1 \in 1 .. Len(net1[q]) BY <1>4
    <2> QED BY <1>4, <1>5, <2>1, <2>2
<1>7. Len(net1'[q]) = Sent1(q)' - Took1(s)' BY <1>1, <1>2, <1>4, <1>5, CountersType, SMTT(30)
<1>8. ASSUME NEW i \in 1 .. Len(net1'[q])
      PROVE  net1'[q][i].sub = Took1(s)' + i /\ net1'[q][i].ok = ReadsOk(q, Took1(s) + i)'
    <2>1. i \in 1 .. Len(net1[q]) - 1 /\ i + 1 \in 1 .. Len(net1[q]) BY <1>4
    <2>2. net1'[q][i] = net1[q][i + 1] BY <1>4, <2>1
    <2>3. Took1(s) + (i + 1) = Took1(s)' + i BY <1>2, <2>1, CountersType, SMTT(30)
    <2> QED BY <1>5, <2>1, <2>2, <2>3 DEF ReadsOk
<1>9. Len(net1'[s]) = Sent1(s)' - Took1(q)'
      /\ \A i \in 1 .. Len(net1'[s]) : /\ net1'[s][i].sub = Took1(q)' + i
                                       /\ net1'[s][i].ok = ReadsOk(s, Took1(q) + i)'
    BY <1>1, <1>2, <1>3 DEF InStep, Channel1, ReadsOk
<1>10. Channel1' BY <1>7, <1>8, <1>9, Servers DEF Channel1
<1> QED BY <1>2, <1>6, <1>10

(* Taking the peer's first packet and sending the second. *)
LEMMA InStepVerify2 ==
    ASSUME TypeInv, InStep, NEW s \in Server, Verify2(s)
    PROVE  InStep'
<1> USE DEF InStep
<1> DEFINE q == peer(s)
           c == next[s]
<1>0. /\ pc[s] = "verify2" /\ pc' = [pc EXCEPT ![s] = "isValid"] /\ net1[q] # <<>>
      /\ net1' = [net1 EXCEPT ![q] = Tail(@)] /\ Head(net1[q]).ok
      /\ net2' = [net2 EXCEPT ![s] = Append(@, [sub |-> c, p |-> p2'[s]])]
      /\ UNCHANGED <<delivery, next, nett, decision>>
    BY DEF Verify2
<1>1. /\ q \in Server /\ q # s /\ peer(q) = s /\ pc \in [Server -> Pc] /\ c \in Sub
      /\ net2 \in [Server -> Seq(Message2)] /\ p2'[q] = p2[q]
    BY <1>0, PeerType DEF Verify2, TypeInv, TypeOK, Progress
<1>2. /\ Channel1' /\ Head(net1[q]).ok = ReadsOk(q, c)
      /\ Took1(s) = c - 1 /\ Took1(s)' = c /\ Took1(q)' = Took1(q)
    BY <1>0, Take1
<1>3. \A r \in Server : Decided(r)' = Decided(r) BY <1>0, <1>1 DEF Decided
<1>4. BothRead(c)
    <2>1. ReadsOk(s, c) BY <1>0 DEF ReadFacts
    <2>2. ReadsOk(q, c) BY <1>0, <1>2
    <2> QED BY <2>1, <2>2, BothReadSym
<1>5. ReadFacts' BY <1>0, <1>1, <1>4 DEF ReadFacts, ReadsOk, BothRead
<1>6. next[q] = c /\ Decided(q) < c /\ Decided(q) = c - 1 /\ Decided(s) = c - 1
    <2>1. Decided(q) < c
        <3>1. c <= Decided(q) => c <= Took1(s) BY <1>1, <1>4 DEF Decisions
        <3> QED BY <1>1, <1>2, <3>1, CountersType
    <2>2. c <= Sent1(q)
        <3>1. Len(net1[q]) \in Nat \ {0} BY <1>0, <1>1, TailElems DEF TypeInv, TypeOK
        <3>2. Len(net1[q]) = Sent1(q) - Took1(s) BY <1>1 DEF Channel1
        <3> QED BY <1>1, <1>2, <3>1, <3>2, CountersType
    <2>3. c <= next[q] /\ next[q] - 1 <= Decided(q)
        BY <1>1, <2>2, CountersType DEF Sent1, Decided
    <2>4. Decided(s) = c - 1 BY <1>0 DEF Decided
    <2> QED BY <1>1, <2>1, <2>3, <2>4, CountersType
<1>7. Channel2'
    <2>1. net2[s] = <<>>
        <3>1. ~Awaited2(s) BY <1>1, <1>2, <1>6, CountersType DEF Awaited2
        <3> QED BY <3>1 DEF Channel2
    <2>2. net2'[s] = <<[sub |-> c, p |-> p2'[s]]>> BY <1>0, <1>1, <2>1
    <2>3. Awaited2(s)'
        BY <1>0, <1>1, <1>2, <1>3, <1>4, <1>6, CountersType DEF Awaited2, BothRead, ReadsOk
    <2>4. net2'[q] = net2[q] BY <1>0, <1>1
    <2>5. Awaited2(q)' <=> Awaited2(q)
        BY <1>0, <1>1, <1>2, <1>3 DEF Awaited2, BothRead, ReadsOk
    <2>6. net2[q] = IF Awaited2(q) THEN <<[sub |-> next[s], p |-> p2[q]]>> ELSE <<>>
        BY <1>1 DEF Channel2
    <2>7. net2'[q] = IF Awaited2(q)' THEN <<[sub |-> next'[s], p |-> p2'[q]]>> ELSE <<>>
        BY <1>0, <1>1, <2>4, <2>5, <2>6
    <2>8. net2'[s] = IF Awaited2(s)' THEN <<[sub |-> next'[q], p |-> p2'[s]]>> ELSE <<>>
        BY <1>0, <1>6, <2>2, <2>3
    <2> QED BY <1>1, <2>7, <2>8, Servers, SMTT(30) DEF Channel2
<1>8. ChannelT' BY <1>0, <1>1 DEF ChannelT
<1>9. Decisions'
    <2> SUFFICES ASSUME NEW r \in Server, NEW d \in Sub
                 PROVE  /\ decision'[r][d] = "pending" <=> Decided(r)' < d
                        /\ d <= Decided(r)' /\ BothRead(d)' => d <= Took1(peer(r))'
                        /\ ~(d <= Decided(r)' /\ Decided(peer(r))' < d)
        BY DEF Decisions
    <2>1. decision'[r][d] = "pending" <=> Decided(r)' < d BY <1>0, <1>3 DEF Decisions
    <2>2. \A x \in Server : Took1(x) <= Took1(x)' /\ Took1(x)' \in Int
        <3>1. Took1(s) <= Took1(s)' /\ Took1(s)' \in Int BY <1>2, CountersType
        <3>2. Took1(q) <= Took1(q)' /\ Took1(q)' \in Int BY <1>1, <1>2, CountersType
        <3> QED BY <3>1, <3>2, Servers
    <2>3. d <= Decided(r)' /\ BothRead(d)' => d <= Took1(peer(r))'
        <3>1. peer(r) \in Server /\ d \in Int BY PeerType, SubType
        <3>2. d <= Decided(r) /\ BothRead(d) => d <= Took1(peer(r)) BY DEF Decisions
        <3>3. Took1(peer(r))' \in Int /\ Took1(peer(r)) <= Took1(peer(r))' BY <2>2, <3>1
        <3>4. Decided(r)' = Decided(r) /\ (BothRead(d)' <=> BothRead(d))
            BY <1>0, <1>3 DEF BothRead, ReadsOk
        <3> QED BY <3>1, <3>2, <3>3, <3>4, CountersType
    <2>4. ~(d <= Decided(r)' /\ Decided(peer(r))' < d)
        <3>1. Decided(r) = c - 1 /\ Decided(peer(r)) = c - 1 BY <1>1, <1>6, Servers
        <3> QED BY <1>1, <1>3, <3>1, PeerType, SubType
    <2> QED BY <2>1, <2>3, <2>4
<1>10. Agreement' BY <1>0 DEF Agreement
<1> QED BY <1>2, <1>5, <1>7, <1>8, <1>9, <1>10

(* A decision of s about the submission it is at that is the one its peer  *)
(* made or will make.                                                      *)
LEMMA Decide ==
    ASSUME TypeInv, InStep, NEW s \in Server, NEW v \in {"counted", "ignored"},
           Decided(s) = next[s] - 1, Decided(s)' = next[s], next[s] \in Sub,
           Decided(peer(s))' = Decided(peer(s)),
           \A r \in Server : Took1(r) <= Took1(r)' /\ Took1(r)' \in Int,
           BothRead(next[s]) => next[s] <= Took1(peer(s)),
           v = IF BothRead(next[s]) /\ PrioVerifier_isValid(p2[PRIO_SERVER_A], p2[PRIO_SERVER_B])
               THEN "counted" ELSE "ignored",
           decision' = [decision EXCEPT ![s][next[s]] = v],
           UNCHANGED <<delivery, next, p2>>
    PROVE  Decisions' /\ Agreement'
<1> DEFINE q == peer(s)
           c == next[s]
<1>1. /\ q \in Server /\ q # s /\ peer(q) = s /\ c \in Int
      /\ decision \in [Server -> [Sub -> {"pending", "counted", "ignored"}]]
    BY PeerType, SubType DEF TypeInv, TypeOK
<1>2. /\ decision'[s][c] = v
      /\ \A d \in Sub : d # c => decision'[s][d] = decision[s][d]
      /\ \A d \in Sub : decision'[q][d] = decision[q][d]
    BY <1>1
<1>3. /\ Decided(s) \in Int /\ Decided(q) \in Int /\ Decided(s)' \in Int /\ Decided(q)' \in Int
      /\ \A d \in Sub : d \in Int
    BY <1>1, CountersType, SubType
<1>4. \A d : BothRead(d)' <=> BothRead(d) BY DEF BothRead, ReadsOk
<1>5. ASSUME NEW d \in Sub
      PROVE  /\ decision'[s][d] = "pending" <=> Decided(s)' < d
             /\ decision'[q][d] = "pending" <=> Decided(q)' < d
    <2>1. /\ decision[s][d] = "pending" <=> Decided(s) < d
          /\ decision[q][d] = "pending" <=> Decided(q) < d
        BY <1>1 DEF InStep, Decisions
    <2> QED BY <1>1, <1>2, <1>3, <2>1
<1>6. ASSUME NEW d \in Sub
      PROVE  /\ d <= Decided(s)' /\ BothRead(d)' => d <= Took1(q)'
             /\ d <= Decided(q)' /\ BothRead(d)' => d <= Took1(s)'
    <2>1. /\ d <= Decided(s) /\ BothRead(d) => d <= Took1(q)
          /\ d <= Decided(q) /\ BothRead(d) => d <= Took1(s)
        BY <1>1 DEF InStep, Decisions
    <2>2. Took1(q) <= Took1(q)' /\ Took1(q)' \in Int /\ Took1(s) <= Took1(s)' /\ Took1(s)' \in Int
        BY <1>1
    <2>3. Took1(s) \in Int /\ Took1(q) \in Int BY <1>1, CountersType
    <2>4. d <= Decided(s)' => d <= Decided(s) \/ d = c BY <1>1, <1>3
    <2>5. d <= Decided(s)' /\ BothRead(d) => d <= Took1(q) BY <2>1, <2>4
    <2> QED BY <1>1, <1>3, <1>4, <2>1, <2>2, <2>3, <2>5
<1>7. ASSUME NEW d \in Sub
      PROVE  /\ d <= Decided(s)' /\ Decided(q)' < d =>
                    decision'[s][d] = IF BothRead(d)' /\ PrioVerifier_isValid(p2[PRIO_SERVER_A], p2[PRIO_SERVER_B])'
                                      THEN "counted" ELSE "ignored"
             /\ d <= Decided(q)' /\ Decided(s)' < d =>
                    decision'[q][d] = IF BothRead(d)' /\ PrioVerifier_isValid(p2[PRIO_SERVER_A], p2[PRIO_SERVER_B])'
                                      THEN "counted" ELSE "ignored"
    <2> DEFINE valid == PrioVerifier_isValid(p2[PRIO_SERVER_A], p2[PRIO_SERVER_B])
               verdict(x) == IF BothRead(x) /\ valid THEN "counted" ELSE "ignored"
    <2>1. /\ d <= Decided(s) /\ Decided(q) < d => decision[s][d] = verdict(d)
          /\ d <= Decided(q) /\ Decided(s) < d => decision[q][d] = verdict(d)
        BY <1>1 DEF InStep, Decisions
    <2>2. valid' <=> valid BY DEF PrioVerifier_isValid
    <2>3. v = verdict(c) OBVIOUS
    <2> HIDE DEF valid
    <2>4. d <= Decided(s)' => d <= Decided(s) \/ d = c BY <1>1, <1>3
    <2>5. d <= Decided(s)' /\ Decided(q)' < d => decision'[s][d] = verdict(d)
        <3>1. CASE d = c BY <1>2, <2>3, <3>1
        <3>2. CASE d # c BY <1>2, <2>1, <2>4, <3>2
        <3> QED BY <3>1, <3>2
    <2>6. Decided(s)' < d => Decided(s) < d BY <1>1, <1>3
    <2>7. d <= Decided(q)' /\ Decided(s)' < d => decision'[q][d] = verdict(d)
        BY <1>2, <2>1, <2>6
    <2> QED BY <1>4, <2>2, <2>5, <2>7 DEF valid
<1>8. Decisions'
    BY <1>1, <1>5, <1>6, <1>7, Servers DEF Decisions
<1>9. ASSUME NEW d \in Sub, decision'[s][d] # "pending", decision'[q][d] # "pending"
      PROVE  decision'[s][d] = decision'[q][d]
    <2>1. CASE d = c
        <3>1. c <= Decided(q) /\ Decided(s) < c
            <4>1. ~(Decided(q)' < c) BY <1>5, <1>9, <2>1
            <4> QED BY <1>1, <1>3, <4>1
        <3>2. decision[q][c] = v BY <1>1, <3>1 DEF InStep, Decisions
        <3> QED BY <1>2, <2>1, <3>2
    <2>2. CASE d # c
        <3>1. decision[s][d] # "pending" /\ decision[q][d] # "pending" BY <1>2, <1>9, <2>2
        <3>2. decision[s][d] = decision[q][d]
            BY <3>1 DEF InStep, Agreement, peer, Server, PRIO_SERVER_A, PRIO_SERVER_B
        <3> QED BY <1>2, <2>2, <3>2
    <2> QED BY <2>1, <2>2
<1>10. Agreement'
    BY <1>9 DEF Agreement, peer, Server, PRIO_SERVER_A, PRIO_SERVER_B
<1> QED BY <1>8, <1>10

(* Ignoring a submission that one of the servers cannot read. *)
LEMMA InStepSkip ==
    ASSUME TypeInv, InStep, NEW s \in Server, Skip(s)
    PROVE  InStep'
<1> USE DEF InStep
<1> DEFINE q == peer(s)
           c == next[s]
<1>0. /\ pc[s] \in {"refused", "verify2"} /\ pc' = [pc EXCEPT ![s] = "total"] /\ net1[q] # <<>>
      /\ pc[s] = "verify2" => ~Head(net1[q]).ok
      /\ net1' = [net1 EXCEPT ![q] = Tail(@)]
      /\ decision' = [decision EXCEPT ![s][c] = "ignored"]
      /\ UNCHANGED <<delivery, next, p2, net2, nett>>
    BY DEF Skip
<1>1. q \in Server /\ q # s /\ peer(q) = s /\ pc \in [Server -> Pc] /\ c \in Sub /\ c \in Int
    BY <1>0, PeerType, SubType DEF TypeInv, TypeOK, Progress
<1>2. /\ Channel1' /\ Head(net1[q]).ok = ReadsOk(q, c)
      /\ Took1(s) = c - 1 /\ Took1(s)' = c /\ Took1(q)' = Took1(q)
    BY <1>0, Take1
<1>3. Decided(s) = c - 1 /\ Decided(s)' = c /\ Decided(q)' = Decided(q)
    BY <1>0, <1>1 DEF Decided
<1>4. ~BothRead(c)
    <2>1. ~ReadsOk(s, c) \/ ~ReadsOk(q, c) BY <1>0, <1>2 DEF ReadFacts
    <2> QED BY <2>1, BothReadSym
<1>5. ReadFacts' BY <1>0, <1>1 DEF ReadFacts, ReadsOk, BothRead
<1>6. Channel2'
    <2>1. \A d : BothRead(d)' <=> BothRead(d) BY <1>0 DEF BothRead, ReadsOk
    <2>2. ~Awaited2(q) /\ ~Awaited2(q)' BY <1>0, <1>1, <1>4, <2>1 DEF Awaited2
    <2>3. Awaited2(s)' <=> Awaited2(s)
        <3>1. next[q] # c => (next[q] <= c <=> next[q] <= c - 1) BY <1>1, CountersType
        <3> QED BY <1>0, <1>1, <1>2, <1>3, <1>4, <2>1, <3>1 DEF Awaited2
    <2>4. net2'[s] = net2[s] /\ net2'[q] = net2[q] /\ next'[q] = next[q] /\ p2'[s] = p2[s]
        BY <1>0
    <2>5. net2[q] = <<>> BY <1>1, <2>2 DEF Channel2
    <2>6. net2[s] = IF Awaited2(s) THEN <<[sub |-> next[q], p |-> p2[s]]>> ELSE <<>>
        BY DEF Channel2
    <2>7. net2'[s] = IF Awaited2(s)' THEN <<[sub |-> next'[q], p |-> p2'[s]]>> ELSE <<>>
        BY <2>3, <2>4, <2>6
    <2>8. net2'[q] = IF Awaited2(q)' THEN <<[sub |-> next'[s], p |-> p2'[q]]>> ELSE <<>>
        BY <2>2, <2>4, <2>5
    <2> QED BY <1>1, <2>7, <2>8, Servers DEF Channel2
<1>7. ChannelT' BY <1>0, <1>1 DEF ChannelT
<1>8. \A r \in Server : Took1(r) <= Took1(r)' /\ Took1(r)' \in Int
    <2>1. Took1(s) <= Took1(s)' /\ Took1(s)' \in Int BY <1>1, <1>2
    <2>2. Took1(q) <= Took1(q)' /\ Took1(q)' \in Int BY <1>1, <1>2, CountersType
    <2> QED BY <2>1, <2>2, Servers
<1>9. Decisions' /\ Agreement' BY <1>0, <1>1, <1>3, <1>4, <1>8, Decide
<1> QED BY <1>2, <1>5, <1>6, <1>7, <1>9

(* Taking the peer's second packet and deciding. *)
LEMMA InStepIsValid ==
    ASSUME TypeInv, InStep, NEW s \in Server, Aggregate(s) \/ Reject(s)
    PROVE  InStep'
<1> USE DEF InStep
<1> DEFINE q == peer(s)
           c == next[s]
           v == IF Accepts(s) THEN "counted" ELSE "ignored"
<1>0. /\ pc[s] = "isValid" /\ pc' = [pc EXCEPT ![s] = "total"] /\ net2[q] # <<>>
      /\ net2' = [net2 EXCEPT ![q] = Tail(@)]
      /\ decision' = [decision EXCEPT ![s][c] = v]
      /\ UNCHANGED <<delivery, next, p2, net1, nett>>
    BY DEF Aggregate, Reject
<1>1. /\ q \in Server /\ q # s /\ peer(q) = s /\ pc \in [Server -> Pc] /\ c \in Sub /\ c \in Int
      /\ net2 \in [Server -> Seq(Message2)]
    BY <1>0, PeerType, SubType DEF TypeInv, TypeOK, Progress
<1>2. \A r \in Server : Sent1(r)' = Sent1(r) /\ Took1(r)' = Took1(r)
    BY <1>0, <1>1 DEF Sent1, Took1
<1>3. Decided(s) = c - 1 /\ Decided(s)' = c /\ Decided(q)' = Decided(q)
    BY <1>0, <1>1 DEF Decided
<1>4. BothRead(c) BY <1>0 DEF ReadFacts
<1>5. Awaited2(q) /\ net2[q] = <<[sub |-> c, p |-> p2[q]]>> BY <1>0, <1>1 DEF Channel2
<1>6. Accepts(s) <=> PrioVerifier_isValid(p2[PRIO_SERVER_A], p2[PRIO_SERVER_B])
    <2>1. Head(net2[q]).p = p2[q] BY <1>5
    <2> QED BY <2>1 DEF Accepts, OfA, OfB, Server, peer, PRIO_SERVER_A, PRIO_SERVER_B
<1>7. c <= Took1(q) BY <1>1, <1>5 DEF Awaited2
<1>8. ReadFacts' BY <1>0, <1>1 DEF ReadFacts, ReadsOk, BothRead
<1>9. Channel1' BY <1>0, <1>2, PeerType DEF Channel1, ReadsOk
<1>10. Channel2'
    <2>1. \A d : BothRead(d)' <=> BothRead(d) BY <1>0 DEF BothRead, ReadsOk
    <2>2. net2'[q] = <<>> BY <1>0, <1>1, <1>5
    <2>3. ~Awaited2(q)' BY <1>0, <1>1, <1>3 DEF Awaited2
    <2>4. net2'[s] = net2[s] /\ next'[q] = next[q] /\ p2'[s] = p2[s] BY <1>0, <1>1
    <2>5. Awaited2(s)' <=> Awaited2(s) BY <1>1, <1>2, <1>3, <2>1, <2>4 DEF Awaited2
    <2>6. net2[s] = IF Awaited2(s) THEN <<[sub |-> next[q], p |-> p2[s]]>> ELSE <<>>
        BY DEF Channel2
    <2>7. net2'[s] = IF Awaited2(s)' THEN <<[sub |-> next'[q], p |-> p2'[s]]>> ELSE <<>>
        BY <2>4, <2>5, <2>6
    <2>8. net2'[q] = IF Awaited2(q)' THEN <<[sub |-> next'[s], p |-> p2'[q]]>> ELSE <<>>
        BY <2>2, <2>3
    <2> QED BY <1>1, <2>7, <2>8, Servers, SMTT(30) DEF Channel2
<1>11. ChannelT' BY <1>0, <1>1 DEF ChannelT
<1>12. \A r \in Server : Took1(r) <= Took1(r)' /\ Took1(r)' \in Int BY <1>2, CountersType
<1>13. /\ v \in {"counted", "ignored"}
       /\ v = IF BothRead(c) /\ PrioVerifier_isValid(p2[PRIO_SERVER_A], p2[PRIO_SERVER_B])
              THEN "counted" ELSE "ignored"
    BY <1>4, <1>6
<1> HIDE DEF v
<1>14. Decisions' /\ Agreement' BY <1>0, <1>1, <1>3, <1>7, <1>12, <1>13, Decide
<1> QED BY <1>8, <1>9, <1>10, <1>11, <1>14

(* A server that goes on to its next submission has the same counters. *)
LEMMA Advance ==
    ASSUME TypeInv, InStep, NEW s \in Server, pc[s] \in {"total", "final"},
           pc' = [pc EXCEPT ![s] = "set_data"], next' = [next EXCEPT ![s] = @ + 1],
           UNCHANGED <<delivery, p2, net1, net2, decision>>
    PROVE  ReadFacts' /\ Channel1' /\ Channel2' /\ Decisions' /\ Agreement'
<1> USE DEF InStep
<1> DEFINE q == peer(s)
<1>1. /\ q \in Server /\ q # s /\ peer(q) = s /\ pc \in [Server -> Pc]
      /\ next \in [Server -> 1 .. Len(Stored) + 1] /\ next[s] \in Nat /\ Len(Stored) \in Nat
    BY PeerType, SubType DEF TypeInv, TypeOK
<1>2. \A r \in Server : Sent1(r)' = Sent1(r) /\ Took1(r)' = Took1(r) /\ Decided(r)' = Decided(r)
    BY <1>1 DEF Sent1, Took1, Decided
<1>3. \A d : BothRead(d)' <=> BothRead(d) BY DEF BothRead, ReadsOk
<1>4. ReadFacts' BY <1>1 DEF ReadFacts, ReadsOk, BothRead
<1>5. Channel1' BY <1>2, PeerType DEF Channel1, ReadsOk
<1>6. Channel2'
    <2>1. Decided(s) = next[s] BY DEF Decided
    <2>2. ~Awaited2(q) BY <1>1, <2>1 DEF Awaited2
    <2>3. net2[q] = <<>> BY <1>1, <2>2 DEF Channel2
    <2>4. next'[s] = next[s] + 1 /\ next'[q] = next[q] BY <1>1
    <2>5. ~Awaited2(q)'
        <3>1. Took1(q) <= Sent1(s) BY <1>1, Distance
        <3>2. Sent1(s) = next[s] BY DEF Sent1
        <3>3. ~(next[s] + 1 <= Took1(q)) BY <1>1, <3>1, <3>2, CountersType
        <3> QED BY <1>1, <1>2, <2>4, <3>3 DEF Awaited2
    <2>6. Awaited2(s)' <=> Awaited2(s) BY <1>1, <1>2, <1>3, <2>4 DEF Awaited2
    <2>7. net2[s] = IF Awaited2(s) THEN <<[sub |-> next[q], p |-> p2[s]]>> ELSE <<>>
        BY DEF Channel2
    <2>8. net2'[s] = IF Awaited2(s)' THEN <<[sub |-> next'[q], p |-> p2'[s]]>> ELSE <<>>
        BY <2>4, <2>6, <2>7
    <2>9. net2'[q] = IF Awaited2(q)' THEN <<[sub |-> next'[s], p |-> p2'[q]]>> ELSE <<>>
        BY <2>3, <2>5
    <2> QED BY <1>1, <2>8, <2>9, Servers DEF Channel2
<1>7. Decisions' BY <1>2, <1>3, PeerType DEF Decisions
<1>8. Agreement' BY DEF Agreement
<1> QED BY <1>4, <1>5, <1>6, <1>7, <1>8

(* Taking a copy of the total, and publishing it at server A. *)
LEMMA InStepTotal ==
    ASSUME TypeInv, InStep, NEW s \in Server, TotalShare(s) \/ Final(s)
    PROVE  InStep'
<1> USE DEF InStep
<1> DEFINE A == PRIO_SERVER_A
           B == PRIO_SERVER_B
<1>1. /\ A \in Server /\ B \in Server /\ A # B /\ peer(A) = B /\ pc \in [Server -> Pc]
      /\ nett \in [Server -> Seq(MessageT)] /\ next \in [Server -> 1 .. Len(Stored) + 1]
      /\ next[A] \in Nat /\ next[B] \in Nat
    BY SubType DEF Server, peer, PRIO_SERVER_A, PRIO_SERVER_B, TypeInv, TypeOK
<1>2. CASE TotalShare(s) /\ s = A
    <2>1. /\ pc[s] = "total" /\ pc' = [pc EXCEPT ![s] = "final"]
          /\ UNCHANGED <<delivery, next, p2, net1, net2, nett, decision>>
        BY <1>2 DEF TotalShare
    <2>2. \A r \in Server : Sent1(r)' = Sent1(r) /\ Took1(r)' = Took1(r) /\ Decided(r)' = Decided(r)
        BY <1>1, <2>1 DEF Sent1, Took1, Decided
    <2>3. ReadFacts' BY <1>1, <2>1 DEF ReadFacts, ReadsOk, BothRead
    <2>4. Channel1' BY <2>1, <2>2, PeerType DEF Channel1, ReadsOk
    <2>5. Channel2' BY <2>1, <2>2, PeerType DEF Channel2, Awaited2, BothRead, ReadsOk
    <2>6. ChannelT' BY <1>1, <1>2, <2>1 DEF ChannelT
    <2>7. Decisions' BY <2>1, <2>2, PeerType DEF Decisions, BothRead, ReadsOk
    <2>8. Agreement' BY <2>1 DEF Agreement
    <2> QED BY <2>3, <2>4, <2>5, <2>6, <2>7, <2>8
<1>3. CASE TotalShare(s) /\ s = B
    <2> DEFINE m == [sub |-> next[B], t |-> tshare'[B]]
    <2>1. /\ pc[B] = "total" /\ pc' = [pc EXCEPT ![B] = "set_data"]
          /\ next' = [next EXCEPT ![B] = @ + 1] /\ nett' = [nett EXCEPT ![B] = Append(@, m)]
          /\ UNCHANGED <<delivery, p2, net1, net2, decision>>
        BY <1>1, <1>3 DEF TotalShare
    <2>2. ReadFacts' /\ Channel1' /\ Channel2' /\ Decisions' /\ Agreement'
        BY <1>1, <2>1, Advance
    <2>3. ChannelT'
        <3>1. m \in MessageT
            <4>1. TypeOK' BY TypeTotal DEF TypeInv
            <4>2. tshare'[B] = data_shares[B] BY <1>1, <1>3 DEF TotalShare, TypeInv, TypeOK
            <4> QED BY <1>1, <2>1, <4>2 DEF MessageT, TypeInv, TypeOK, Progress
        <3>2. m.sub = next[B] OBVIOUS
        <3> HIDE DEF m
        <3>3. nett'[B] = Append(nett[B], m) /\ nett'[A] = nett[A] BY <1>1, <2>1
        <3>4. /\ Len(nett'[B]) = Len(nett[B]) + 1
              /\ \A i \in 1 .. Len(nett[B]) : nett'[B][i] = nett[B][i]
              /\ nett'[B][Len(nett[B]) + 1] = m
            BY <1>1, <3>1, <3>3, AppendElems
        <3>5. next'[B] = next[B] + 1 /\ next'[A] = next[A] /\ pc'[B] = "set_data"
            BY <1>1, <2>1
        <3>6. /\ nett[A] = <<>> /\ Len(nett[B]) = next[B] - next[A] /\ Len(nett[B]) \in Nat
              /\ \A i \in 1 .. Len(nett[B]) : nett[B][i].sub = next[A] - 1 + i
            BY <1>1 DEF ChannelT
        <3>7. ASSUME NEW i \in 1 .. Len(nett'[B]) PROVE nett'[B][i].sub = next'[A] - 1 + i
            <4>1. CASE i \in 1 .. Len(nett[B]) BY <3>4, <3>5, <3>6, <4>1
            <4>2. CASE i = Len(nett[B]) + 1
                <5>1. nett'[B][i].sub = next[B] BY <3>2, <3>4, <4>2
                <5>2. next[B] = next'[A] - 1 + i BY <1>1, <3>5, <3>6, <4>2
                <5> QED BY <5>1, <5>2
            <4> QED BY <3>4, <3>6, <4>1, <4>2
        <3> QED BY <1>1, <3>3, <3>4, <3>5, <3>6, <3>7, SMTT(30) DEF ChannelT
    <2> QED BY <2>2, <2>3
<1>4. CASE Final(s)
    <2>1. s = A BY <1>4 DEF Final, TypeInv, Progress
    <2>2. /\ pc[A] = "final" /\ pc' = [pc EXCEPT ![A] = "set_data"]
          /\ next' = [next EXCEPT ![A] = @ + 1] /\ nett' = [nett EXCEPT ![B] = Tail(@)]
          /\ nett[B] # <<>> /\ UNCHANGED <<delivery, p2, net1, net2, decision>>
        BY <1>1, <1>4, <2>1 DEF Final
    <2>3. ReadFacts' /\ Channel1' /\ Channel2' /\ Decisions' /\ Agreement'
        BY <1>1, <2>2, Advance
    <2>4. ChannelT'
        <3>1. nett'[B] = Tail(nett[B]) /\ nett'[A] = nett[A] BY <1>1, <2>2
        <3>2. /\ Len(nett[B]) \in Nat \ {0} /\ Len(nett'[B]) = Len(nett[B]) - 1
              /\ \A i \in 1 .. Len(nett[B]) - 1 : nett'[B][i] = nett[B][i + 1]
            BY <1>1, <2>2, <3>1, TailElems
        <3>3. next'[B] = next[B] /\ next'[A] = next[A] + 1 /\ pc'[B] = pc[B] BY <1>1, <2>2
        <3>4. /\ nett[A] = <<>> /\ Len(nett[B]) = next[B] - next[A] /\ pc[B] # "final"
              /\ \A i \in 1 .. Len(nett[B]) : nett[B][i].sub = next[A] - 1 + i
            BY <1>1 DEF ChannelT
        <3>5. ASSUME NEW i \in 1 .. Len(nett'[B]) PROVE nett'[B][i].sub = next'[A] - 1 + i
            <4>1. i \in 1 .. Len(nett[B]) - 1 /\ i + 1 \in 1 .. Len(nett[B]) BY <3>2
            <4>2. nett'[B][i] = nett[B][i + 1] BY <3>2, <4>1
            <4>3. nett[B][i + 1].sub = next[A] - 1 + (i + 1) BY <3>4, <4>1
            <4>4. next[A] - 1 + (i + 1) = next'[A] - 1 + i BY <1>1, <3>3, <4>1
            <4> QED BY <4>2, <4>3, <4>4
        <3>6. Len(nett'[B]) = next'[B] - next'[A] BY <1>1, <3>2, <3>3, <3>4
        <3> QED BY <3>1, <3>3, <3>4, <3>5, <3>6 DEF ChannelT
    <2> QED BY <2>3, <2>4
<1> QED BY <1>2, <1>3, <1>4 DEF Server

(* Every step of the two servers keeps them in step. *)
LEMMA InStepStep == TypeInv /\ InStep /\ [Next]_vars => InStep'
<1> SUFFICES ASSUME TypeInv, InStep, [Next]_vars PROVE InStep' OBVIOUS
<1>1. ASSUME NEW s \in Server, Step(s) PROVE InStep'
    BY <1>1, InStepSetData, InStepSend1, InStepVerify2, InStepSkip, InStepIsValid, InStepTotal
    DEF Step
<1>2. CASE UNCHANGED vars
    BY <1>2 DEF vars, InStep, ReadFacts, Channel1, Channel2, ChannelT, Decisions, Agreement,
                Awaited2, Sent1, Took1, Decided, BothRead, ReadsOk, PrioVerifier_isValid
<1> QED BY <1>1, <1>2 DEF Next, Finished

(* The inductive invariant implies that a server only takes packets of the *)
(* submission it is at, and that the channels hold no more.                *)
LEMMA InStepPackets ==
    ASSUME TypeInv, InStep
    PROVE  PacketsMatch /\ ChannelBound
<1>1. ASSUME NEW s \in Server
      PROVE  /\ pc[s] \in {"refused", "verify2"} /\ net1[peer(s)] # <<>>
                    => Head(net1[peer(s)]).sub = next[s]
             /\ pc[s] = "isValid" /\ net2[peer(s)] # <<>> => Head(net2[peer(s)]).sub = next[s]
             /\ pc[s] = "final" /\ nett[peer(s)] # <<>> => Head(nett[peer(s)]).sub = next[s]
    <2> DEFINE q == peer(s)
    <2>1. q \in Server /\ peer(q) = s /\ next[s] \in Nat BY PeerType, CountersType
    <2>2. /\ net1[q] \in Seq(Message1) /\ net2[q] \in Seq(Message2) /\ nett[q] \in Seq(MessageT)
        BY <2>1 DEF TypeInv, TypeOK
    <2>3. ASSUME pc[s] \in {"refused", "verify2"}, net1[q] # <<>>
          PROVE  Head(net1[q]).sub = next[s]
        <3>1. Head(net1[q]) = net1[q][1] /\ 1 \in 1 .. Len(net1[q]) BY <2>2, <2>3, TailElems
        <3>2. net1[q][1].sub = Took1(s) + 1 BY <2>1, <3>1 DEF InStep, Channel1
        <3> QED BY <2>1, <2>3, <3>1, <3>2 DEF Took1
    <2>4. ASSUME pc[s] = "isValid", net2[q] # <<>>
          PROVE  Head(net2[q]).sub = next[s]
        <3>1. net2[q] = <<[sub |-> next[s], p |-> p2[q]]>> BY <2>1, <2>4 DEF InStep, Channel2
        <3> QED BY <3>1
    <2>5. ASSUME pc[s] = "final", nett[q] # <<>>
          PROVE  Head(nett[q]).sub = next[s]
        <3>1. s = PRIO_SERVER_A /\ q = PRIO_SERVER_B
            BY <2>5 DEF TypeInv, Progress, peer, PRIO_SERVER_A, PRIO_SERVER_B
        <3>2. Head(nett[q]) = nett[q][1] /\ 1 \in 1 .. Len(nett[q]) BY <2>2, <2>5, TailElems
        <3>3. nett[q][1].sub = next[s] - 1 + 1 BY <3>1, <3>2 DEF InStep, ChannelT
        <3> QED BY <2>1, <3>2, <3>3
    <2> QED BY <2>3, <2>4, <2>5
<1>2. ASSUME NEW s \in Server
      PROVE  Len(net1[s]) <= 2 /\ Len(net2[s]) <= 1 /\ Len(nett[s]) <= 1
    <2> DEFINE q == peer(s)
    <2>1. q \in Server /\ peer(q) = s BY PeerType
    <2>2. /\ next[s] <= next[q] + 1 /\ Sent1(s) <= next[s] /\ next[q] - 1 <= Took1(q)
          /\ Took1(s) <= Sent1(q)
        BY <2>1, Distance, CountersType DEF Sent1, Took1
    <2>3. Len(net1[s]) = Sent1(s) - Took1(q) BY <2>1 DEF InStep, Channel1
    <2>4. Len(net1[s]) <= 2
        BY <2>1, <2>2, <2>3, CountersType
    <2>5. Len(net2[s]) <= 1
        <3>1. net2[s] = <<>> \/ net2[s] = <<[sub |-> next[q], p |-> p2[s]]>>
            BY DEF InStep, Channel2
        <3>2. CASE net2[s] = <<>> BY <3>2
        <3>3. CASE net2[s] = <<[sub |-> next[q], p |-> p2[s]]>> BY <3>3
        <3> QED BY <3>1, <3>2, <3>3
    <2>6. Len(nett[s]) <= 1
        <3>1. CASE s = PRIO_SERVER_A BY <3>1 DEF InStep, ChannelT
        <3>2. CASE s = PRIO_SERVER_B
            <4>1. q = PRIO_SERVER_A BY <3>2 DEF peer, PRIO_SERVER_A, PRIO_SERVER_B
            <4>2. Len(nett[s]) = next[s] - next[q] BY <3>2, <4>1 DEF InStep, ChannelT
            <4> QED BY <2>1, <2>2, <4>2, CountersType
        <3> QED BY <3>1, <3>2 DEF Server
    <2> QED BY <2>4, <2>5, <2>6
<1> QED BY <1>1, <1>2 DEF PacketsMatch, ChannelBound

(* The two servers are always in step. *)
LEMMA InStepAlways == Spec => [](TypeInv /\ InStep)
<1>1. Init => TypeInv /\ InStep BY TypeInit, InStepInit
<1>2. TypeInv /\ InStep /\ [Next]_vars => (TypeInv /\ InStep)' BY TypeStep, InStepStep
<1> QED BY <1>1, <1>2, PTL DEF Spec

(* The servers never decide a submission differently: neither counts one    *)
(* that the other ignores, for any number of submissions, whatever each    *)
(* server can read and however the packets between them are delayed.       *)
THEOREM AgreementHolds == Spec => []Agreement
<1>1. InStep => Agreement BY DEF InStep
<1> QED BY <1>1, InStepAlways, PTL

(* Although packets do not say which submission they are about, a server   *)
(* never takes a packet of one submission for that of another.             *)
THEOREM PacketsMatchHolds == Spec => []PacketsMatch
<1>1. TypeInv /\ InStep => PacketsMatch BY InStepPackets
<1> QED BY <1>1, InStepAlways, PTL

(* At most two first packets, one second packet and one total share of a   *)
(* server wait for its peer.                                               *)
THEOREM ChannelBoundHolds == Spec => []ChannelBound
<1>1. TypeInv /\ InStep => ChannelBound BY InStepPackets
<1> QED BY <1>1, InStepAlways, PTL
-----------------------------------------------------------------------------
(* What the servers compute *)

Vector == Array1(NumFields)

Zero == MPArray_new(NumFields)

(* The recursion of SumBelow, unfolded. *)
LEMMA SumBelowStep ==
    ASSUME NEW chosen, NEW f, \A c \in chosen : f[c] \in Vector, NEW k \in Nat \ {0}
    PROVE  /\ SumBelow(k, chosen, f) \in Vector
           /\ k = 1 => SumBelow(k, chosen, f) = Zero
           /\ k \in chosen => SumBelow(k + 1, chosen, f) = MPArray_addmod(SumBelow(k, chosen, f), f[k])
           /\ k \notin chosen => SumBelow(k + 1, chosen, f) = SumBelow(k, chosen, f)
<1> DEFINE Body(h) == [c \in Nat |->
               IF c = 0 THEN MPArray_new(NumFields)
               ELSE IF c \in chosen THEN MPArray_addmod(h[c - 1], f[c]) ELSE h[c - 1]]
           S == CHOOSE h : h = Body(h)
           g == [x \in Vector \X Nat |->
                    IF x[2] \in chosen THEN MPArray_addmod(x[1], f[x[2]]) ELSE x[1]]
<1>1. g \in [Vector \X Nat -> Vector] BY AddType DEF Vector
<1>2. Zero \in Vector BY ZeroType DEF Zero, Vector
<1>3. \A v \in Vector, n \in Nat :
        g[<<v, n>>] = IF n \in chosen THEN MPArray_addmod(v, f[n]) ELSE v
    OBVIOUS
<1> HIDE DEF g
<1>4. PICK h \in [Nat -> Vector] : RecursesDown(h, Zero, g) BY <1>1, <1>2, NatRecursion
<1>5. ASSUME NEW n \in Nat
      PROVE  h[n] = IF n = 0 THEN MPArray_new(NumFields)
                    ELSE IF n \in chosen THEN MPArray_addmod(h[n - 1], f[n]) ELSE h[n - 1]
    <2>1. CASE n = 0 BY <1>4, <2>1 DEF RecursesDown, Zero
    <2>2. CASE n # 0
        <3>1. n - 1 \in Nat /\ h[n - 1] \in Vector BY <2>2
        <3>2. h[n] = g[<<h[n - 1], n>>] BY <1>4, <2>2 DEF RecursesDown
        <3> QED BY <1>3, <2>2, <3>1, <3>2
    <2> QED BY <2>1, <2>2
<1>6. h = Body(h) BY <1>5
<1>7. S = Body(S) BY <1>6
<1>8. SumBelow(k, chosen, f) = S[k - 1] /\ SumBelow(k + 1, chosen, f) = S[(k + 1) - 1]
    BY DEF SumBelow
<1> HIDE DEF S
<1>9. S[0] = Zero BY <1>7 DEF Zero
<1>10. ASSUME NEW n \in Nat \ {0}
       PROVE  S[n] = IF n \in chosen THEN MPArray_addmod(S[n - 1], f[n]) ELSE S[n - 1]
    BY <1>7
<1>11. S[k - 1] \in Vector
    <2> DEFINE T == {n \in Nat : S[n] \in Vector}
    <2>1. 0 \in T BY <1>2, <1>9
    <2>2. ASSUME NEW n \in Nat, n \in T PROVE n + 1 \in T
        <3>1. n + 1 \in Nat \ {0} /\ (n + 1) - 1 = n OBVIOUS
        <3>2. n + 1 \in chosen => MPArray_addmod(S[n], f[n + 1]) \in Vector
            BY <2>2, AddType DEF Vector
        <3> QED BY <1>10, <2>2, <3>1, <3>2
    <2> HIDE DEF T
    <2>3. k - 1 \in Nat OBVIOUS
    <2>4. k - 1 \in T BY <2>1, <2>2, <2>3, NatInduct
    <2> QED BY <2>4 DEF T
<1> HIDE DEF Body
<1>12. (k + 1) - 1 = k /\ (k = 1 => k - 1 = 0) OBVIOUS
<1> QED BY <1>8, <1>9, <1>10, <1>11, <1>12

(* Between k and m nothing is chosen: nothing is added. *)
LEMMA SumFlat ==
    ASSUME NEW chosen, NEW f, \A c \in chosen : f[c] \in Vector,
           NEW k \in Nat \ {0}, NEW m \in Nat, k <= m, \A c \in k .. m - 1 : c \notin chosen
    PROVE  SumBelow(m, chosen, f) = SumBelow(k, chosen, f)
<1> DEFINE T == {i \in Nat : k + i <= m => SumBelow(k + i, chosen, f) = SumBelow(k, chosen, f)}
<1>1. 0 \in T
    <2>1. k + 0 = k OBVIOUS
    <2> QED BY <2>1
<1>2. ASSUME NEW i \in Nat, i \in T PROVE i + 1 \in T
    <2> SUFFICES ASSUME k + (i + 1) <= m
                 PROVE  SumBelow(k + (i + 1), chosen, f) = SumBelow(k, chosen, f)
        OBVIOUS
    <2>1. /\ k + i \in Nat \ {0} /\ k + i \in k .. m - 1 /\ (k + i) + 1 = k + (i + 1)
          /\ k + i <= m /\ k + i \notin chosen
        OBVIOUS
    <2> DEFINE j == k + i
    <2>2. j \in Nat \ {0} /\ j \notin chosen BY <2>1
    <2>3. SumBelow(j, chosen, f) = SumBelow(k, chosen, f) BY <1>2, <2>1
    <2>4. j + 1 = k + (i + 1) BY <2>1
    <2> HIDE DEF j
    <2>5. SumBelow(j + 1, chosen, f) = SumBelow(j, chosen, f) BY <2>2, SumBelowStep
    <2> QED BY <2>3, <2>4, <2>5
<1> HIDE DEF T
<1>3. m - k \in T
    <2>1. m - k \in Nat OBVIOUS
    <2> QED BY <1>1, <1>2, <2>1, NatInduct
<1>4. k + (m - k) = m OBVIOUS
<1> QED BY <1>3, <1>4 DEF T

(* Only what is chosen below k matters. *)
LEMMA SumAgree ==
    ASSUME NEW C, NEW D, NEW f, \A c \in C : f[c] \in Vector, \A c \in D : f[c] \in Vector,
           NEW k \in Nat \ {0}, \A c \in 1 .. k - 1 : c \in C <=> c \in D
    PROVE  SumBelow(k, C, f) = SumBelow(k, D, f)
<1> DEFINE T == {i \in Nat : i < k => SumBelow(i + 1, C, f) = SumBelow(i + 1, D, f)}
<1>1. 0 \in T
    <2>1. 0 + 1 = 1 OBVIOUS
    <2>2. SumBelow(1, C, f) = Zero /\ SumBelow(1, D, f) = Zero BY SumBelowStep
    <2> QED BY <2>1, <2>2
<1>2. ASSUME NEW i \in Nat, i \in T PROVE i + 1 \in T
    <2> SUFFICES ASSUME i + 1 < k
                 PROVE  SumBelow((i + 1) + 1, C, f) = SumBelow((i + 1) + 1, D, f)
        OBVIOUS
    <2> DEFINE j == i + 1
    <2>1. j \in Nat \ {0} /\ j \in 1 .. k - 1 /\ i < k OBVIOUS
    <2>2. j \in C <=> j \in D BY <2>1
    <2>3. SumBelow(j, C, f) = SumBelow(j, D, f) BY <1>2, <2>1
    <2> HIDE DEF j
    <2>4. /\ j \in C => SumBelow(j + 1, C, f) = MPArray_addmod(SumBelow(j, C, f), f[j])
          /\ j \notin C => SumBelow(j + 1, C, f) = SumBelow(j, C, f)
        BY <2>1, SumBelowStep
    <2>5. /\ j \in D => SumBelow(j + 1, D, f) = MPArray_addmod(SumBelow(j, D, f), f[j])
          /\ j \notin D => SumBelow(j + 1, D, f) = SumBelow(j, D, f)
        BY <2>1, SumBelowStep
    <2> QED BY <2>2, <2>3, <2>4, <2>5 DEF j
<1> HIDE DEF T
<1>3. k - 1 \in T
    <2>1. k - 1 \in Nat OBVIOUS
    <2> QED BY <1>1, <1>2, <2>1, NatInduct
<1>4. (k - 1) + 1 = k /\ k - 1 < k OBVIOUS
<1> QED BY <1>3, <1>4 DEF T

(* Addition in the field: zero, and regrouping four terms. *)
LEMMA AddZero ==
    ASSUME NEW x \in Field
    PROVE  addmod(x, 0) = x /\ addmod(0, x) = x
    BY ModulusAssumption DEF addmod, Field

(* Both groupings are congruent to the integer sum. *)
LEMMA AddSwap ==
    ASSUME NEW x \in Field, NEW y \in Field, NEW z \in Field, NEW w \in Field
    PROVE  addmod(addmod(x, y), addmod(z, w)) = addmod(addmod(x, z), addmod(y, w))
<1>1. x \in Int /\ y \in Int /\ z \in Int /\ w \in Int BY FieldInt
<1> DEFINE a == addmod(x, y)
           b == addmod(z, w)
           c == addmod(x, z)
           d == addmod(y, w)
<1>2. /\ a \in Int /\ Cong(a, x + y) /\ b \in Int /\ Cong(b, z + w)
      /\ c \in Int /\ Cong(c, x + z) /\ d \in Int /\ Cong(d, y + w)
    BY <1>1, OpsCong, FieldInt, Zenon
<1> HIDE DEF a, b, c, d
<1>3. x + y \in Int /\ z + w \in Int /\ x + z \in Int /\ y + w \in Int BY <1>1
<1>4. /\ addmod(a, b) \in Field /\ addmod(c, d) \in Field
    BY <1>2, OpsCong, Zenon
<1>5. Cong(addmod(a, b), (x + y) + (z + w)) /\ Cong(addmod(c, d), (x + z) + (y + w))
    BY <1>2, <1>3, OpsCong2, Zenon
<1>6. (x + y) + (z + w) = (x + z) + (y + w) /\ (x + y) + (z + w) \in Int BY <1>1
<1>7. addmod(a, b) \in Int /\ addmod(c, d) \in Int BY <1>4, FieldInt
<1>8. Cong((x + y) + (z + w), addmod(c, d)) BY <1>5, <1>6, <1>7, CongSym
<1>9. Cong(addmod(a, b), addmod(c, d)) BY <1>5, <1>6, <1>7, <1>8, CongTrans
<1> QED BY <1>4, <1>9, FieldCongEq DEF a, b, c, d

(* The same for vectors. *)
LEMMA VectorAdd ==
    ASSUME NEW x \in Vector, NEW y \in Vector, NEW z \in Vector, NEW w \in Vector
    PROVE  /\ MPArray_addmod(x, y) \in Vector
           /\ MPArray_addmod(x, Zero) = x
           /\ MPArray_addmod(MPArray_addmod(x, y), MPArray_addmod(z, w))
                = MPArray_addmod(MPArray_addmod(x, z), MPArray_addmod(y, w))
<1>1. /\ DOMAIN x = 1 .. NumFields /\ DOMAIN y = 1 .. NumFields /\ DOMAIN z = 1 .. NumFields
      /\ x = [i \in 1 .. NumFields |-> x[i]]
    BY DEF Vector, Array1
<1>2. \A i \in 1 .. NumFields : x[i] \in Field /\ y[i] \in Field /\ z[i] \in Field /\ w[i] \in Field
    BY DEF Vector, Array1
<1>3. MPArray_addmod(x, y) \in Vector BY AddType DEF Vector
<1>4. MPArray_addmod(x, Zero) = x
    <2>1. \A i \in 1 .. NumFields : addmod(x[i], Zero[i]) = x[i]
        BY <1>2, AddZero DEF Zero, MPArray_new
    <2>2. MPArray_addmod(x, Zero) = [i \in 1 .. NumFields |-> addmod(x[i], Zero[i])]
        BY <1>1 DEF MPArray_addmod
    <2> QED BY <1>1, <2>1, <2>2
<1>5. /\ MPArray_addmod(x, y) = [i \in 1 .. NumFields |-> addmod(x[i], y[i])]
      /\ MPArray_addmod(z, w) = [i \in 1 .. NumFields |-> addmod(z[i], w[i])]
      /\ MPArray_addmod(x, z) = [i \in 1 .. NumFields |-> addmod(x[i], z[i])]
      /\ MPArray_addmod(y, w) = [i \in 1 .. NumFields |-> addmod(y[i], w[i])]
    BY <1>1 DEF MPArray_addmod
<1>6. \A i \in 1 .. NumFields : addmod(addmod(x[i], y[i]), addmod(z[i], w[i]))
                                  = addmod(addmod(x[i], z[i]), addmod(y[i], w[i]))
    BY <1>2, AddSwap
<1>7. /\ MPArray_addmod(MPArray_addmod(x, y), MPArray_addmod(z, w))
           = [i \in 1 .. NumFields |-> addmod(addmod(x[i], y[i]), addmod(z[i], w[i]))]
      /\ MPArray_addmod(MPArray_addmod(x, z), MPArray_addmod(y, w))
           = [i \in 1 .. NumFields |-> addmod(addmod(x[i], z[i]), addmod(y[i], w[i]))]
    BY <1>5 DEF MPArray_addmod
<1> QED BY <1>3, <1>4, <1>6, <1>7

(* Regrouping four vectors, by itself. *)
LEMMA VectorSwap ==
    \A x, y, z, w \in Vector :
        MPArray_addmod(MPArray_addmod(x, y), MPArray_addmod(z, w))
            = MPArray_addmod(MPArray_addmod(x, z), MPArray_addmod(y, w))
    BY VectorAdd

(* A sum of sums, term by term. *)
LEMMA SumAdd ==
    ASSUME NEW chosen, NEW f, NEW g, NEW h,
           \A c \in chosen : /\ f[c] \in Vector /\ g[c] \in Vector
                             /\ h[c] = MPArray_addmod(f[c], g[c]),
           NEW k \in Nat \ {0}
    PROVE  SumBelow(k, chosen, h) = MPArray_addmod(SumBelow(k, chosen, f), SumBelow(k, chosen, g))
<1> DEFINE F(i) == SumBelow(i + 1, chosen, f)
           G(i) == SumBelow(i + 1, chosen, g)
           H(i) == SumBelow(i + 1, chosen, h)
           T == {i \in Nat : H(i) = MPArray_addmod(F(i), G(i))}
<1>0. \A c \in chosen : h[c] \in Vector BY AddType DEF Vector
<1>1. ASSUME NEW i \in Nat
      PROVE  /\ F(i) \in Vector /\ G(i) \in Vector /\ H(i) \in Vector
             /\ F(i + 1) = IF i + 1 \in chosen THEN MPArray_addmod(F(i), f[i + 1]) ELSE F(i)
             /\ G(i + 1) = IF i + 1 \in chosen THEN MPArray_addmod(G(i), g[i + 1]) ELSE G(i)
             /\ H(i + 1) = IF i + 1 \in chosen THEN MPArray_addmod(H(i), h[i + 1]) ELSE H(i)
    <2> DEFINE j == i + 1
    <2>1. j \in Nat \ {0} OBVIOUS
    <2> HIDE DEF j
    <2>2. /\ SumBelow(j, chosen, f) \in Vector
          /\ SumBelow(j + 1, chosen, f) =
                IF j \in chosen THEN MPArray_addmod(SumBelow(j, chosen, f), f[j])
                ELSE SumBelow(j, chosen, f)
        BY <2>1, SumBelowStep
    <2>3. /\ SumBelow(j, chosen, g) \in Vector
          /\ SumBelow(j + 1, chosen, g) =
                IF j \in chosen THEN MPArray_addmod(SumBelow(j, chosen, g), g[j])
                ELSE SumBelow(j, chosen, g)
        BY <2>1, SumBelowStep
    <2>4. /\ SumBelow(j, chosen, h) \in Vector
          /\ SumBelow(j + 1, chosen, h) =
                IF j \in chosen THEN MPArray_addmod(SumBelow(j, chosen, h), h[j])
                ELSE SumBelow(j, chosen, h)
        BY <1>0, <2>1, SumBelowStep
    <2> QED BY <2>2, <2>3, <2>4 DEF j
<1>2. 0 \in T
    <2>1. 0 + 1 = 1 OBVIOUS
    <2>2. F(0) = Zero /\ G(0) = Zero /\ H(0) = Zero BY <1>0, <2>1, SumBelowStep
    <2>3. Zero \in Vector BY ZeroType DEF Zero, Vector
    <2> QED BY <2>2, <2>3, VectorAdd
<1> HIDE DEF F, G, H
<1>3. ASSUME NEW i \in Nat, i \in T PROVE i + 1 \in T
    <2>1. CASE i + 1 \notin chosen BY <1>1, <1>3, <2>1
    <2>2. CASE i + 1 \in chosen
        <3>1. /\ F(i + 1) = MPArray_addmod(F(i), f[i + 1])
              /\ G(i + 1) = MPArray_addmod(G(i), g[i + 1])
              /\ H(i + 1) = MPArray_addmod(H(i), h[i + 1])
            BY <1>1, <2>2
        <3>2. H(i) = MPArray_addmod(F(i), G(i)) BY <1>3
        <3>3. /\ f[i + 1] \in Vector /\ g[i + 1] \in Vector
              /\ h[i + 1] = MPArray_addmod(f[i + 1], g[i + 1])
            BY <2>2
        <3>4. MPArray_addmod(MPArray_addmod(F(i), G(i)), MPArray_addmod(f[i + 1], g[i + 1]))
                = MPArray_addmod(MPArray_addmod(F(i), f[i + 1]), MPArray_addmod(G(i), g[i + 1]))
            <4>1. F(i) \in Vector /\ G(i) \in Vector BY <1>1
            <4> QED BY <3>3, <4>1, VectorSwap
        <3> QED BY <3>1, <3>2, <3>3, <3>4
    <2> QED BY <2>1, <2>2
<1> HIDE DEF T
<1>4. k - 1 \in T
    <2>1. k - 1 \in Nat OBVIOUS
    <2> QED BY <1>2, <1>3, <2>1, NatInduct
<1>5. (k - 1) + 1 = k OBVIOUS
<1> QED BY <1>4, <1>5 DEF T, F, G, H

-----------------------------------------------------------------------------
(* What the servers do with a submission is fixed before they start, by    *)
(* the packets and by what each server can read (d stands for delivery).   *)

Reads(d, s, c) == d[c][s] = "ok"

Both(d, c) == Reads(d, PRIO_SERVER_A, c) /\ Reads(d, PRIO_SERVER_B, c)

(* The points server s has drawn after the first c submissions. *)
Draws(d, s, c) == Cardinality({k \in 1 .. c : Reads(d, s, k)})

TripleOf(s, c) == packet_of(s, Stored[c]).triple
SharesOf(d, s, c) == SharesAt[s][c][Draws(d, s, c)]

(* The packets the servers exchange about a submission that both can read. *)
P1(d, s, c) == PrioPacketVerify1_set_data(SharesOf(d, s, c), TripleOf(s, c))
P2(d, s, c) == PrioPacketVerify2_set_data(SharesOf(d, s, c), TripleOf(s, c),
                                          P1(d, PRIO_SERVER_A, c), P1(d, PRIO_SERVER_B, c))

Accepted(d) ==
    {c \in Sub : /\ Both(d, c)
                 /\ PrioVerifier_isValid(P2(d, PRIO_SERVER_A, c), P2(d, PRIO_SERVER_B, c))}

Verdict(d, c) == IF c \in Accepted(d) THEN "counted" ELSE "ignored"

ViewOf(s) == [c \in Sub |-> View(s, c)]

(* The shares server s has added up after the first c submissions. *)
Running(d, s, c) == SumBelow(c + 1, Accepted(d), ViewOf(s))

(* The last submission server s has begun to read. *)
Begun(s) == IF pc[s] = "set_data" THEN next[s] - 1 ELSE next[s]

(* The first packets on a channel are those of the submissions they name. *)
Genuine(d, s, q) == \A i \in 1 .. Len(q) : q[i].ok => q[i].p = P1(d, s, q[i].sub)

(* The verifier and the packets hold what belongs to the submission at hand, *)
(* whatever an earlier packet that could not be read has left there.        *)
Held(s) ==
    /\ prg[s] = Draws(delivery, s, Begun(s))
    /\ pc[s] \in {"verify1", "verify2", "isValid"} =>
           verifier[s] = [triple |-> TripleOf(s, next[s]), data |-> View(s, next[s]),
                          shares |-> SharesOf(delivery, s, next[s])]
    /\ pc[s] = "verify2" => p1[s] = P1(delivery, s, next[s])
    /\ Genuine(delivery, s, net1[s])
    /\ Took1(s) \in Sub /\ Both(delivery, Took1(s)) => p2[s] = P2(delivery, s, Took1(s))

(* Every decision made is the verdict. *)
Verdicts ==
    \A s \in Server, c \in Sub : c <= Decided(s) => decision[s][c] = Verdict(delivery, c)

(* The totals are the sums over the submissions decided so far. *)
Totals ==
    /\ \A s \in Server : data_shares[s] = Running(delivery, s, Decided(s))
    /\ pc[PRIO_SERVER_A] = "final" =>
           tshare[PRIO_SERVER_A] = Running(delivery, PRIO_SERVER_A, next[PRIO_SERVER_A])
    /\ \A i \in 1 .. Len(nett[PRIO_SERVER_B]) :
           nett[PRIO_SERVER_B][i].t = Running(delivery, PRIO_SERVER_B, nett[PRIO_SERVER_B][i].sub)
    /\ final.rv = "success" =>
           final.output = SumBelow(next[PRIO_SERVER_A], Accepted(delivery), Value)

Exact == (\A s \in Server : Held(s)) /\ Verdicts /\ Totals

(* Counting the points drawn, one submission at a time. *)
LEMMA DrawsStep ==
    ASSUME NEW d, NEW s, NEW c \in Nat
    PROVE  /\ Draws(d, s, c) \in 0 .. c
           /\ Draws(d, s, 0) = 0
           /\ Reads(d, s, c + 1) => Draws(d, s, c + 1) = Draws(d, s, c) + 1
           /\ ~Reads(d, s, c + 1) => Draws(d, s, c + 1) = Draws(d, s, c)
<1> DEFINE S(n) == {k \in 1 .. n : Reads(d, s, k)}
<1>1. ASSUME NEW n \in Nat PROVE IsFiniteSet(S(n)) /\ Cardinality(S(n)) \in 0 .. n
    <2>1. IsFiniteSet(1 .. n) /\ Cardinality(1 .. n) = n BY FS_Interval
    <2>2. S(n) \subseteq 1 .. n OBVIOUS
    <2>3. IsFiniteSet(S(n)) /\ Cardinality(S(n)) <= n BY <2>1, <2>2, FS_Subset
    <2> QED BY <2>3, FS_CardinalityType
<1>2. S(0) = {} OBVIOUS
<1>3. Cardinality(S(0)) = 0 BY <1>2, FS_EmptySet
<1>4. CASE Reads(d, s, c + 1)
    <2>1. S(c + 1) = S(c) \cup {c + 1} BY <1>4
    <2>2. c + 1 \notin S(c) OBVIOUS
    <2> HIDE DEF S
    <2>3. Cardinality(S(c + 1)) = Cardinality(S(c)) + 1 BY <1>1, <2>1, <2>2, FS_AddElement
    <2> QED BY <1>1, <1>3, <1>4, <2>3 DEF Draws, S
<1>5. CASE ~Reads(d, s, c + 1)
    <2>1. S(c + 1) = S(c) BY <1>5
    <2> QED BY <1>1, <1>3, <1>5, <2>1 DEF Draws
<1> QED BY <1>4, <1>5

(* What a server adds up: types and one step. *)
LEMMA RunningStep ==
    ASSUME NEW d, NEW s \in Server, NEW c \in Nat
    PROVE  /\ Running(d, s, c) \in Vector
           /\ Running(d, s, 0) = Zero
           /\ c + 1 \in Accepted(d) =>
                  Running(d, s, c + 1) = MPArray_addmod(Running(d, s, c), View(s, c + 1))
           /\ c + 1 \notin Accepted(d) => Running(d, s, c + 1) = Running(d, s, c)
<1>1. \A k \in Accepted(d) : k \in Sub /\ ViewOf(s)[k] = View(s, k) /\ ViewOf(s)[k] \in Vector
    BY PacketType DEF Accepted, ViewOf, View, Vector
<1> DEFINE j == c + 1
<1>2. j \in Nat \ {0} /\ 0 + 1 = 1 /\ 1 \in Nat \ {0} OBVIOUS
<1> HIDE DEF j
<1>3. SumBelow(1, Accepted(d), ViewOf(s)) = Zero BY <1>1, <1>2, SumBelowStep
<1>4. /\ SumBelow(j, Accepted(d), ViewOf(s)) \in Vector
      /\ j \in Accepted(d) => SumBelow(j + 1, Accepted(d), ViewOf(s)) =
                                MPArray_addmod(SumBelow(j, Accepted(d), ViewOf(s)), ViewOf(s)[j])
      /\ j \notin Accepted(d) => SumBelow(j + 1, Accepted(d), ViewOf(s)) =
                                   SumBelow(j, Accepted(d), ViewOf(s))
    BY <1>1, <1>2, SumBelowStep
<1> QED BY <1>1, <1>2, <1>3, <1>4 DEF Running, j

LEMMA RunningType ==
    ASSUME NEW d, NEW s \in Server, NEW c \in Nat
    PROVE  Running(d, s, c) \in Vector
BY RunningStep

(* The same at a submission and the one before it. *)
LEMMA RunningAt ==
    ASSUME NEW d, NEW s \in Server, NEW c \in Sub
    PROVE  /\ c \in Accepted(d) =>
                  Running(d, s, c) = MPArray_addmod(Running(d, s, c - 1), View(s, c))
           /\ c \notin Accepted(d) => Running(d, s, c) = Running(d, s, c - 1)
<1> DEFINE b == c - 1
<1>1. b \in Nat /\ c = b + 1 BY SubType
<1> HIDE DEF b
<1>2. /\ b + 1 \in Accepted(d) =>
             Running(d, s, b + 1) = MPArray_addmod(Running(d, s, b), View(s, b + 1))
      /\ b + 1 \notin Accepted(d) => Running(d, s, b + 1) = Running(d, s, b)
    BY <1>1, RunningStep
<1> QED BY <1>1, <1>2 DEF b

(* Genuine packets stay so when one is taken and when one is added. *)
LEMMA GenuineStep ==
    ASSUME NEW d, NEW s, NEW q \in Seq(Message1), Genuine(d, s, q)
    PROVE  /\ q # <<>> => Genuine(d, s, Tail(q))
           /\ \A m \in Message1 :
                  (m.ok => m.p = P1(d, s, m.sub)) => Genuine(d, s, Append(q, m))
<1>1. ASSUME q # <<>> PROVE Genuine(d, s, Tail(q))
    <2>1. /\ Len(q) \in Nat \ {0} /\ Len(Tail(q)) = Len(q) - 1
          /\ \A i \in 1 .. Len(q) - 1 : Tail(q)[i] = q[i + 1]
        BY <1>1, TailElems
    <2>2. ASSUME NEW i \in 1 .. Len(Tail(q)), Tail(q)[i].ok
          PROVE  Tail(q)[i].p = P1(d, s, Tail(q)[i].sub)
        <3>1. i + 1 \in 1 .. Len(q) /\ Tail(q)[i] = q[i + 1] BY <2>1
        <3> QED BY <2>2, <3>1 DEF Genuine
    <2> QED BY <2>2 DEF Genuine
<1>2. ASSUME NEW m \in Message1, m.ok => m.p = P1(d, s, m.sub)
      PROVE  Genuine(d, s, Append(q, m))
    <2>1. /\ Len(Append(q, m)) = Len(q) + 1 /\ Len(q) \in Nat
          /\ \A i \in 1 .. Len(q) : Append(q, m)[i] = q[i]
          /\ Append(q, m)[Len(q) + 1] = m
        BY AppendElems
    <2>2. ASSUME NEW i \in 1 .. Len(Append(q, m)), Append(q, m)[i].ok
          PROVE  Append(q, m)[i].p = P1(d, s, Append(q, m)[i].sub)
        <3>1. CASE i \in 1 .. Len(q) BY <2>1, <2>2, <3>1 DEF Genuine
        <3>2. CASE i = Len(q) + 1 BY <1>2, <2>1, <2>2, <3>2
        <3> QED BY <2>1, <3>1, <3>2
    <2> QED BY <2>2 DEF Genuine
<1> QED BY <1>1, <1>2

(* A server that does not move keeps what it holds, whether or not its     *)
(* peer takes one of its packets.                                          *)
LEMMA HeldFrame ==
    ASSUME TypeInv, NEW r \in Server, Held(r), delivery' = delivery,
           pc'[r] = pc[r], next'[r] = next[r], prg'[r] = prg[r], verifier'[r] = verifier[r],
           p1'[r] = p1[r], p2'[r] = p2[r],
           net1'[r] = net1[r] \/ (net1[r] # <<>> /\ net1'[r] = Tail(net1[r]))
    PROVE  Held(r)'
<1>1. net1[r] \in Seq(Message1) BY DEF TypeInv, TypeOK
<1>2. Genuine(delivery, r, net1[r]) BY DEF Held
<1>3. Genuine(delivery', r, net1'[r]) BY <1>1, <1>2, GenuineStep
<1>4. Begun(r)' = Begun(r) /\ Took1(r)' = Took1(r) BY DEF Begun, Took1
<1> QED BY <1>3, <1>4 DEF Held

(* Before the first submission. *)
LEMMA ExactInit == Init => Exact
<1> SUFFICES ASSUME Init PROVE Exact OBVIOUS
<1>0. \A r \in Server : /\ pc[r] = "set_data" /\ next[r] = 1 /\ net1[r] = <<>> /\ nett[r] = <<>>
                        /\ prg[r] = 0 /\ data_shares[r] = Zero
                        /\ Begun(r) = 0 /\ Took1(r) = 0 /\ Decided(r) = 0
    BY DEF Init, Begun, Took1, Decided, Zero
<1>1. ASSUME NEW r \in Server PROVE Held(r)
    <2>1. Draws(delivery, r, 0) = 0 BY DrawsStep
    <2>2. Took1(r) \notin Sub BY <1>0, SubType
    <2>3. Genuine(delivery, r, net1[r]) BY <1>0 DEF Genuine
    <2> QED BY <1>0, <2>1, <2>2, <2>3 DEF Held
<1>2. Verdicts BY <1>0, SubType DEF Verdicts
<1>3. Totals
    <2>1. \A r \in Server : Running(delivery, r, 0) = Zero BY RunningStep
    <2>2. final.rv = "none" BY DEF Init
    <2>3. nett[PRIO_SERVER_B] = <<>> /\ pc[PRIO_SERVER_A] = "set_data" BY <1>0 DEF Server
    <2> QED BY <1>0, <2>1, <2>2, <2>3 DEF Totals
<1> QED BY <1>1, <1>2, <1>3 DEF Exact

(* Reading a packet. *)
LEMMA ExactSetData ==
    ASSUME TypeInv, Exact, NEW s \in Server, SetData(s)
    PROVE  Exact'
<1> DEFINE c == next[s]
<1>1. /\ pc \in [Server -> Pc] /\ pc[s] = "set_data" /\ pc' = [pc EXCEPT ![s] = "verify1"]
      /\ prg' = [prg EXCEPT ![s] = @ + 1] /\ c \in Sub /\ ReadsOk(s, c)
      /\ verifier' = [verifier EXCEPT ![s] =
             [triple |-> TripleOf(s, c), data |-> View(s, c), shares |-> SharesAt[s][c][prg[s] + 1]]]
      /\ UNCHANGED <<delivery, next, data_shares, p1, p2, tshare, net1, net2, nett, decision, final>>
    BY DEF SetData, TypeInv, TypeOK, TripleOf, View
<1>2. /\ next \in [Server -> 1 .. Len(Stored) + 1] /\ prg \in [Server -> 0 .. Len(Stored)]
      /\ verifier \in [Server -> Verifier]
    BY DEF TypeInv, TypeOK
<1>3. \A r \in Server : Took1(r)' = Took1(r) /\ Decided(r)' = Decided(r)
    BY <1>1 DEF Took1, Decided
<1>4. ASSUME NEW r \in Server PROVE Held(r)'
    <2>1. CASE r # s BY <1>1, <1>2, <2>1, HeldFrame DEF Exact
    <2>2. CASE r = s
        <3>1. Held(s) BY DEF Exact
        <3>2. c - 1 \in Nat /\ (c - 1) + 1 = c BY <1>1, SubType
        <3>3. Reads(delivery, s, (c - 1) + 1) BY <1>1, <3>2 DEF ReadsOk, Reads
        <3>4. Draws(delivery, s, (c - 1) + 1) = Draws(delivery, s, c - 1) + 1 BY <3>2, <3>3, DrawsStep
        <3>5. prg[s] = Draws(delivery, s, c - 1) BY <1>1, <3>1 DEF Held, Begun
        <3>6. prg'[s] = Draws(delivery, s, c) /\ prg'[s] = prg[s] + 1 BY <1>1, <1>2, <3>2, <3>4, <3>5
        <3>7. verifier'[s] = [triple |-> TripleOf(s, c), data |-> View(s, c),
                              shares |-> SharesOf(delivery, s, c)]
            BY <1>1, <1>2, <3>6 DEF SharesOf
        <3>8. Begun(s)' = c BY <1>1 DEF Begun
        <3>9. pc'[s] = "verify1" /\ Took1(s)' = Took1(s) BY <1>1, <1>3
        <3> QED BY <1>1, <2>2, <3>1, <3>6, <3>7, <3>8, <3>9 DEF Held
    <2> QED BY <2>1, <2>2
<1>5. Verdicts' BY <1>1, <1>3 DEF Exact, Verdicts
<1>6. Totals' BY <1>1, <1>3 DEF Exact, Totals
<1> QED BY <1>4, <1>5, <1>6 DEF Exact

(* A packet that cannot be read: no point is drawn, nothing is held. *)
LEMMA ExactSetDataFails ==
    ASSUME TypeInv, Exact, NEW s \in Server, SetDataFails(s)
    PROVE  Exact'
<1> DEFINE c == next[s]
           m == [sub |-> c, ok |-> FALSE, p |-> p1[s]]
<1>1. /\ pc \in [Server -> Pc] /\ pc[s] = "set_data" /\ pc' = [pc EXCEPT ![s] = "refused"]
      /\ c \in Sub /\ ~ReadsOk(s, c) /\ net1' = [net1 EXCEPT ![s] = Append(@, m)]
      /\ \A r \in Server : r # s => verifier'[r] = verifier[r]
      /\ UNCHANGED <<delivery, next, prg, data_shares, p1, p2, tshare, net2, nett, decision, final>>
    BY DEF SetDataFails, TypeInv, TypeOK
<1>2. net1 \in [Server -> Seq(Message1)] /\ m \in Message1 /\ m.ok = FALSE
    BY <1>1 DEF TypeInv, TypeOK, Message1
<1>3. \A r \in Server : Took1(r)' = Took1(r) /\ Decided(r)' = Decided(r)
    BY <1>1 DEF Took1, Decided
<1> HIDE DEF m
<1>4. ASSUME NEW r \in Server PROVE Held(r)'
    <2>1. CASE r # s BY <1>1, <1>2, <2>1, HeldFrame DEF Exact
    <2>2. CASE r = s
        <3>1. Held(s) BY DEF Exact
        <3>2. c - 1 \in Nat /\ (c - 1) + 1 = c BY <1>1, SubType
        <3>3. ~Reads(delivery, s, (c - 1) + 1) BY <1>1, <3>2 DEF ReadsOk, Reads
        <3>4. Draws(delivery, s, (c - 1) + 1) = Draws(delivery, s, c - 1) BY <3>2, <3>3, DrawsStep
        <3>5. prg[s] = Draws(delivery, s, c - 1) BY <1>1, <3>1 DEF Held, Begun
        <3>6. prg'[s] = Draws(delivery', s, Begun(s)') BY <1>1, <3>2, <3>4, <3>5 DEF Begun
        <3>7. net1'[s] = Append(net1[s], m) BY <1>1, <1>2
        <3>8. Genuine(delivery, s, net1[s]) /\ net1[s] \in Seq(Message1) BY <1>2, <3>1 DEF Held
        <3>9. Genuine(delivery', s, net1'[s]) BY <1>1, <1>2, <3>7, <3>8, GenuineStep
        <3>10. pc'[s] = "refused" /\ Took1(s)' = Took1(s) BY <1>1, <1>3
        <3> QED BY <1>1, <2>2, <3>1, <3>6, <3>9, <3>10 DEF Held
    <2> QED BY <2>1, <2>2
<1>5. Verdicts' BY <1>1, <1>3 DEF Exact, Verdicts
<1>6. Totals' BY <1>1, <1>3 DEF Exact, Totals
<1> QED BY <1>4, <1>5, <1>6 DEF Exact

(* The first packet is computed and sent. *)
LEMMA ExactVerify1 ==
    ASSUME TypeInv, Exact, NEW s \in Server, Verify1(s)
    PROVE  Exact'
<1> DEFINE c == next[s]
           m == [sub |-> c, ok |-> TRUE, p |-> p1'[s]]
<1>1. /\ pc \in [Server -> Pc] /\ pc[s] = "verify1" /\ pc' = [pc EXCEPT ![s] = "verify2"]
      /\ p1' = [p1 EXCEPT ![s] = PrioPacketVerify1_set_data(verifier[s].shares, verifier[s].triple)]
      /\ net1' = [net1 EXCEPT ![s] = Append(@, m)]
      /\ UNCHANGED <<delivery, next, prg, data_shares, verifier, p2, tshare,
                     net2, nett, decision, final>>
    BY DEF Verify1, TypeInv, TypeOK
<1>2. net1 \in [Server -> Seq(Message1)] /\ m \in Message1 /\ p1 \in [Server -> Packet1]
    <2>1. TypeOK' BY TypeVerify DEF TypeInv
    <2> QED BY <1>1, <2>1 DEF TypeInv, TypeOK, Progress, Message1
<1>3. \A r \in Server : /\ Took1(r)' = Took1(r) /\ Decided(r)' = Decided(r)
                        /\ Begun(r)' = Begun(r)
    BY <1>1 DEF Took1, Decided, Begun
<1>4. m.sub = c /\ m.p = p1'[s] OBVIOUS
<1> HIDE DEF m
<1>5. ASSUME NEW r \in Server PROVE Held(r)'
    <2>1. CASE r # s BY <1>1, <1>2, <2>1, HeldFrame DEF Exact
    <2>2. CASE r = s
        <3>1. Held(s) BY DEF Exact
        <3>2. verifier[s].shares = SharesOf(delivery, s, c) /\ verifier[s].triple = TripleOf(s, c)
            BY <1>1, <3>1 DEF Held
        <3>3. p1'[s] = P1(delivery, s, c) BY <1>1, <1>2, <3>2 DEF P1
        <3>4. net1'[s] = Append(net1[s], m) BY <1>1, <1>2
        <3>5. Genuine(delivery, s, net1[s]) /\ net1[s] \in Seq(Message1) BY <1>2, <3>1 DEF Held
        <3>6. Genuine(delivery', s, net1'[s])
            BY <1>1, <1>2, <1>4, <3>3, <3>4, <3>5, GenuineStep
        <3>7. pc'[s] = "verify2" BY <1>1
        <3> QED BY <1>1, <1>3, <2>2, <3>1, <3>3, <3>6, <3>7 DEF Held
    <2> QED BY <2>1, <2>2
<1>6. Verdicts' BY <1>1, <1>3 DEF Exact, Verdicts
<1>7. Totals' BY <1>1, <1>3 DEF Exact, Totals
<1> QED BY <1>5, <1>6, <1>7 DEF Exact

(* The second packet is computed from both first ones. *)
LEMMA ExactVerify2 ==
    ASSUME TypeInv, InStep, Exact, NEW s \in Server, Verify2(s)
    PROVE  Exact'
<1> DEFINE c == next[s]
           q == peer(s)
           theirs == Head(net1[q]).p
<1>1. /\ pc \in [Server -> Pc] /\ pc[s] = "verify2" /\ pc' = [pc EXCEPT ![s] = "isValid"]
      /\ net1[q] # <<>> /\ Head(net1[q]).ok
      /\ net1' = [net1 EXCEPT ![q] = Tail(@)]
      /\ p2' = [p2 EXCEPT ![s] = PrioPacketVerify2_set_data(verifier[s].shares, verifier[s].triple,
                                     OfA(s, p1[s], theirs), OfB(s, p1[s], theirs))]
      /\ UNCHANGED <<delivery, next, prg, data_shares, verifier, p1, tshare,
                     nett, decision, final>>
    BY DEF Verify2, TypeInv, TypeOK
<1>2. /\ q \in Server /\ q # s /\ net1 \in [Server -> Seq(Message1)] /\ p2 \in [Server -> Field]
    BY PeerType DEF TypeInv, TypeOK
<1>3. /\ \A r \in Server : Decided(r)' = Decided(r) /\ Begun(r)' = Begun(r)
      /\ Took1(s)' = c
    BY <1>1 DEF Took1, Decided, Begun
<1>4. Held(s) /\ Held(q) BY <1>2 DEF Exact
<1>5. theirs = P1(delivery, q, c)
    <2>1. PacketsMatch BY InStepPackets
    <2>2. Head(net1[q]).sub = c BY <1>1, <2>1 DEF PacketsMatch
    <2>3. Head(net1[q]) = net1[q][1] /\ 1 \in 1 .. Len(net1[q]) BY <1>1, <1>2, TailElems
    <2>4. net1[q][1].ok => net1[q][1].p = P1(delivery, q, net1[q][1].sub)
        BY <1>4, <2>3 DEF Held, Genuine
    <2> QED BY <1>1, <2>2, <2>3, <2>4
<1> HIDE DEF theirs
<1>6. Held(s)'
    <2>1. p1[s] = P1(delivery, s, c) BY <1>1, <1>4 DEF Held
    <2>2. verifier[s].shares = SharesOf(delivery, s, c) /\ verifier[s].triple = TripleOf(s, c)
        BY <1>1, <1>4 DEF Held
    <2>3. /\ OfA(s, p1[s], theirs) = P1(delivery, PRIO_SERVER_A, c)
          /\ OfB(s, p1[s], theirs) = P1(delivery, PRIO_SERVER_B, c)
        BY <1>5, <2>1 DEF OfA, OfB, Server, peer, PRIO_SERVER_A, PRIO_SERVER_B
    <2>4. p2'[s] = P2(delivery, s, c) BY <1>1, <1>2, <2>2, <2>3 DEF P2
    <2>5. pc'[s] = "isValid" /\ net1'[s] = net1[s] BY <1>1, <1>2
    <2> QED BY <1>1, <1>3, <1>4, <2>4, <2>5 DEF Held
<1>7. Held(q)'
    <2>1. /\ pc'[q] = pc[q] /\ p2'[q] = p2[q] /\ net1'[q] = Tail(net1[q])
        BY <1>1, <1>2
    <2> QED BY <1>1, <1>2, <1>4, <2>1, HeldFrame
<1>8. \A r \in Server : Held(r)' BY <1>6, <1>7, Servers
<1>9. Verdicts' BY <1>1, <1>3 DEF Exact, Verdicts
<1>10. Totals' BY <1>1, <1>3 DEF Exact, Totals
<1> QED BY <1>8, <1>9, <1>10 DEF Exact

(* Deciding a submission as the verdict says, and adding it accordingly. *)
LEMMA ExactDecide ==
    ASSUME TypeInv, Exact, NEW s \in Server, pc[s] \in {"refused", "verify2", "isValid"},
           pc' = [pc EXCEPT ![s] = "total"],
           decision' = [decision EXCEPT ![s][next[s]] = Verdict(delivery, next[s])],
           next[s] \in Accepted(delivery) =>
               data_shares' = [data_shares EXCEPT ![s] = MPArray_addmod(@, View(s, next[s]))],
           next[s] \notin Accepted(delivery) => data_shares' = data_shares,
           UNCHANGED <<delivery, next, tshare, nett, final>>
    PROVE  Verdicts' /\ Totals'
<1> DEFINE c == next[s]
<1>1. /\ c \in Sub /\ c - 1 \in Nat /\ (c - 1) + 1 = c /\ pc \in [Server -> Pc]
      /\ decision \in [Server -> [Sub -> {"pending", "counted", "ignored"}]]
      /\ data_shares \in [Server -> Array1(NumFields)]
    BY SubType DEF TypeInv, TypeOK, Progress
<1>2. Decided(s) = c - 1 /\ Decided(s)' = c BY <1>1 DEF Decided
<1>3. \A r \in Server : r # s => Decided(r)' = Decided(r) /\ Decided(r) \in Int
    BY <1>1, CountersType DEF Decided
<1>4. Verdicts'
    <2>1. ASSUME NEW r \in Server, NEW k \in Sub, k <= Decided(r)'
          PROVE  decision'[r][k] = Verdict(delivery, k)
        <3>1. CASE r # s
            <4>1. decision'[r] = decision[r] BY <1>1, <3>1
            <4> QED BY <1>3, <2>1, <3>1, <4>1 DEF Exact, Verdicts
        <3>2. CASE r = s /\ k # c
            <4>1. decision'[s][k] = decision[s][k] BY <1>1, <3>2
            <4>2. k <= Decided(s) BY <1>1, <1>2, <2>1, <3>2, SubType
            <4> QED BY <3>2, <4>1, <4>2 DEF Exact, Verdicts
        <3>3. CASE r = s /\ k = c BY <1>1, <3>3
        <3> QED BY <3>1, <3>2, <3>3
    <2> QED BY <2>1 DEF Verdicts
<1>5. ASSUME NEW r \in Server PROVE data_shares'[r] = Running(delivery, r, Decided(r)')
    <2>1. data_shares[r] = Running(delivery, r, Decided(r)) BY DEF Exact, Totals
    <2>2. CASE r # s
        <3>1. data_shares'[r] = data_shares[r] BY <1>1, <2>2
        <3> QED BY <1>3, <2>1, <2>2, <3>1
    <2>3. CASE r = s
        <3>1. data_shares[s] = Running(delivery, s, c - 1) BY <1>2, <2>1, <2>3
        <3>2. CASE c \in Accepted(delivery)
            <4>1. Running(delivery, s, c) = MPArray_addmod(Running(delivery, s, c - 1), View(s, c))
                BY <1>1, <3>2, RunningAt
            <4>2. data_shares'[s] = MPArray_addmod(data_shares[s], View(s, c)) BY <1>1, <3>2
            <4> QED BY <1>1, <1>2, <2>3, <3>1, <4>1, <4>2
        <3>3. CASE c \notin Accepted(delivery)
            <4>1. Running(delivery, s, c) = Running(delivery, s, c - 1)
                BY <1>1, <3>3, RunningAt
            <4> QED BY <1>1, <1>2, <2>3, <3>1, <3>3, <4>1
        <3> QED BY <3>2, <3>3
    <2> QED BY <2>2, <2>3
<1>6. pc'[PRIO_SERVER_A] = "final" => pc[PRIO_SERVER_A] = "final" BY <1>1 DEF Server
<1>7. Totals' BY <1>5, <1>6 DEF Exact, Totals
<1> QED BY <1>4, <1>7

(* A submission that one of the servers cannot read. *)
LEMMA ExactSkip ==
    ASSUME TypeInv, InStep, Exact, NEW s \in Server, Skip(s)
    PROVE  Exact'
<1> DEFINE c == next[s]
           q == peer(s)
<1>1. /\ pc \in [Server -> Pc] /\ pc[s] \in {"refused", "verify2"}
      /\ pc[s] = "verify2" => ~Head(net1[q]).ok
      /\ pc' = [pc EXCEPT ![s] = "total"] /\ net1[q] # <<>>
      /\ net1' = [net1 EXCEPT ![q] = Tail(@)]
      /\ decision' = [decision EXCEPT ![s][c] = "ignored"]
      /\ UNCHANGED <<delivery, next, prg, data_shares, verifier, p1, p2, tshare, net2, nett, final>>
    BY DEF Skip, TypeInv, TypeOK
<1>2. q \in Server /\ q # s /\ net1 \in [Server -> Seq(Message1)]
    BY PeerType DEF TypeInv, TypeOK
<1>3. Head(net1[q]).ok = ReadsOk(q, c) BY <1>1, Take1
<1>4. ~Both(delivery, c)
    <2>1. ~ReadsOk(s, c) \/ ~ReadsOk(q, c) BY <1>1, <1>3 DEF InStep, ReadFacts
    <2> QED BY <2>1 DEF Both, Reads, ReadsOk, Server, peer, PRIO_SERVER_A, PRIO_SERVER_B
<1>5. c \notin Accepted(delivery) /\ Verdict(delivery, c) = "ignored"
    BY <1>4 DEF Accepted, Verdict
<1>6. Verdicts' /\ Totals' BY <1>1, <1>5, ExactDecide
<1>7. Held(s) /\ Held(q) BY <1>2 DEF Exact
<1>8. Held(s)'
    <2>1. pc'[s] = "total" /\ net1'[s] = net1[s] BY <1>1, <1>2
    <2>2. Begun(s)' = Begun(s) /\ Took1(s)' = c BY <1>1, <2>1 DEF Begun, Took1
    <2> QED BY <1>1, <1>4, <1>7, <2>1, <2>2 DEF Held
<1>9. Held(q)'
    <2>1. pc'[q] = pc[q] /\ net1'[q] = Tail(net1[q]) BY <1>1, <1>2
    <2> QED BY <1>1, <1>2, <1>7, <2>1, HeldFrame
<1>10. \A r \in Server : Held(r)' BY <1>8, <1>9, Servers
<1> QED BY <1>6, <1>10 DEF Exact

(* What a server computes from the two second packets is the verdict. *)
LEMMA AcceptsVerdict ==
    ASSUME TypeInv, InStep, Exact, NEW s \in Server, pc[s] = "isValid", net2[peer(s)] # <<>>
    PROVE  Accepts(s) <=> next[s] \in Accepted(delivery)
<1> DEFINE c == next[s]
           q == peer(s)
<1>1. q \in Server /\ peer(q) = s /\ c \in Sub /\ c \in Nat /\ Held(s) /\ Held(q)
    BY PeerType, SubType DEF TypeInv, TypeOK, Progress, Exact
<1>2. Both(delivery, c) BY DEF InStep, ReadFacts, BothRead, ReadsOk, Both, Reads
<1>3. Awaited2(q) /\ net2[q] = <<[sub |-> c, p |-> p2[q]]>> BY <1>1 DEF InStep, Channel2
<1>4. Took1(s) = c BY DEF Took1
<1>5. Took1(q) = c
    <2>1. c <= Took1(q) BY <1>1, <1>3 DEF Awaited2
    <2>2. Took1(q) <= Sent1(s) BY <1>1, Distance
    <2>3. Sent1(s) = c BY DEF Sent1
    <2> QED BY <1>1, <2>1, <2>2, <2>3, CountersType
<1>6. p2[s] = P2(delivery, s, c) /\ p2[q] = P2(delivery, q, c) BY <1>1, <1>2, <1>4, <1>5 DEF Held
<1>7. Head(net2[q]).p = p2[q] BY <1>3
<1>8. /\ OfA(s, p2[s], Head(net2[q]).p) = P2(delivery, PRIO_SERVER_A, c)
      /\ OfB(s, p2[s], Head(net2[q]).p) = P2(delivery, PRIO_SERVER_B, c)
    BY <1>6, <1>7 DEF OfA, OfB, Server, peer, PRIO_SERVER_A, PRIO_SERVER_B
<1> QED BY <1>1, <1>2, <1>8 DEF Accepts, Accepted

(* The servers aggregate what they accept. *)
LEMMA ExactIsValid ==
    ASSUME TypeInv, InStep, Exact, NEW s \in Server, Aggregate(s) \/ Reject(s)
    PROVE  Exact'
<1> DEFINE c == next[s]
           q == peer(s)
<1>1. /\ pc \in [Server -> Pc] /\ pc[s] = "isValid" /\ pc' = [pc EXCEPT ![s] = "total"]
      /\ net2[q] # <<>>
      /\ decision' = [decision EXCEPT ![s][c] = IF Accepts(s) THEN "counted" ELSE "ignored"]
      /\ Accepts(s) => data_shares' = [data_shares EXCEPT ![s] = MPArray_addmod(@, verifier[s].data)]
      /\ ~Accepts(s) => data_shares' = data_shares
      /\ UNCHANGED <<delivery, next, prg, verifier, p1, p2, tshare, net1, nett, final>>
    BY DEF Aggregate, Reject, TypeInv, TypeOK
<1>2. Accepts(s) <=> c \in Accepted(delivery) BY <1>1, AcceptsVerdict
<1>3. verifier[s].data = View(s, c)
    <2>1. verifier[s] = [triple |-> TripleOf(s, c), data |-> View(s, c),
                         shares |-> SharesOf(delivery, s, c)]
        BY <1>1 DEF Exact, Held
    <2> QED BY <2>1
<1>4. decision' = [decision EXCEPT ![s][c] = Verdict(delivery, c)]
    BY <1>1, <1>2 DEF Verdict
<1>5. Verdicts' /\ Totals' BY <1>1, <1>2, <1>3, <1>4, ExactDecide
<1>6. ASSUME NEW r \in Server PROVE Held(r)'
    <2>1. CASE r # s BY <1>1, <2>1, HeldFrame DEF Exact
    <2>2. CASE r = s
        <3>1. pc'[s] = "total" BY <1>1
        <3>2. Begun(s)' = Begun(s) /\ Took1(s)' = Took1(s) BY <1>1, <3>1 DEF Begun, Took1
        <3>3. Held(s) BY DEF Exact
        <3> QED BY <1>1, <2>2, <3>1, <3>2, <3>3 DEF Held
    <2> QED BY <2>1, <2>2
<1> QED BY <1>5, <1>6 DEF Exact

(* The data of a submission, and its sum over the accepted ones. *)
LEMMA SumValue ==
    ASSUME NEW d, NEW c \in Nat
    PROVE  /\ SumBelow(c + 1, Accepted(d), Value)
                = MPArray_addmod(Running(d, PRIO_SERVER_A, c), Running(d, PRIO_SERVER_B, c))
           /\ SumBelow(c + 1, Accepted(d), Value) \in Vector
<1>1. PRIO_SERVER_A \in Server /\ PRIO_SERVER_B \in Server BY DEF Server
<1>2. ASSUME NEW k \in Accepted(d)
      PROVE  /\ ViewOf(PRIO_SERVER_A)[k] \in Vector /\ ViewOf(PRIO_SERVER_B)[k] \in Vector
             /\ Value[k] = MPArray_addmod(ViewOf(PRIO_SERVER_A)[k], ViewOf(PRIO_SERVER_B)[k])
    <2>1. k \in Sub BY DEF Accepted
    <2>2. View(PRIO_SERVER_A, k) \in Vector /\ View(PRIO_SERVER_B, k) \in Vector
        BY <1>1, <2>1, PacketType DEF View, Vector
    <2> QED BY <2>1, <2>2 DEF ViewOf, Value
<1> DEFINE j == c + 1
<1>3. j \in Nat \ {0} OBVIOUS
<1> HIDE DEF j
<1>4. SumBelow(j, Accepted(d), Value)
        = MPArray_addmod(SumBelow(j, Accepted(d), ViewOf(PRIO_SERVER_A)),
                         SumBelow(j, Accepted(d), ViewOf(PRIO_SERVER_B)))
    BY <1>2, <1>3, SumAdd
<1>5. Running(d, PRIO_SERVER_A, c) \in Vector /\ Running(d, PRIO_SERVER_B, c) \in Vector
    BY <1>1, RunningStep
<1> QED BY <1>4, <1>5, AddType DEF Running, j, Vector

(* A server goes on to its next submission: what it holds is the same. *)
LEMMA HeldAdvance ==
    ASSUME TypeInv, NEW s \in Server, Held(s), pc[s] \in {"total", "final"},
           \/ pc'[s] = "final" /\ next'[s] = next[s]
           \/ pc'[s] = "set_data" /\ next'[s] = next[s] + 1,
           UNCHANGED <<delivery, prg, verifier, p1, p2, net1>>
    PROVE  Held(s)'
<1>1. next[s] \in Nat BY CountersType
<1>2. Begun(s)' = Begun(s) /\ Took1(s)' = Took1(s) BY <1>1 DEF Begun, Took1
<1> QED BY <1>2 DEF Held

(* A copy of the total is taken, and server B sends its own. *)
LEMMA ExactTotalShare ==
    ASSUME TypeInv, Exact, NEW s \in Server, TotalShare(s)
    PROVE  Exact'
<1> DEFINE A == PRIO_SERVER_A
           B == PRIO_SERVER_B
<1>1. /\ A \in Server /\ B \in Server /\ A # B /\ pc \in [Server -> Pc]
      /\ next \in [Server -> 1 .. Len(Stored) + 1] /\ next[s] \in Nat
      /\ nett \in [Server -> Seq(MessageT)] /\ tshare \in [Server -> {<<>>} \cup Array1(NumFields)]
    BY CountersType, SMTT(30) DEF Server, PRIO_SERVER_A, PRIO_SERVER_B, TypeInv, TypeOK
<1>2. /\ pc[s] = "total" /\ tshare' = [tshare EXCEPT ![s] = data_shares[s]]
      /\ s = A => pc' = [pc EXCEPT ![s] = "final"] /\ UNCHANGED <<next, nett>>
      /\ s # A => /\ nett' = [nett EXCEPT ![s] = Append(@, [sub |-> next[s], t |-> tshare'[s]])]
                  /\ pc' = [pc EXCEPT ![s] = "set_data"]
                  /\ next' = [next EXCEPT ![s] = @ + 1]
      /\ UNCHANGED <<delivery, prg, data_shares, verifier, p1, p2, net1, net2, decision, final>>
    BY DEF TotalShare
<1>3. ASSUME NEW r \in Server PROVE Held(r)'
    <2>1. CASE r # s
        <3>1. pc'[r] = pc[r] /\ next'[r] = next[r] BY <1>1, <1>2, <2>1
        <3> QED BY <1>2, <3>1, HeldFrame DEF Exact
    <2>2. CASE r = s
        <3>1. \/ pc'[s] = "final" /\ next'[s] = next[s]
              \/ pc'[s] = "set_data" /\ next'[s] = next[s] + 1
            BY <1>1, <1>2
        <3>2. Held(s) BY DEF Exact
        <3> QED BY <1>2, <2>2, <3>1, <3>2, HeldAdvance
    <2> QED BY <2>1, <2>2
<1>4. \A r \in Server : Decided(r)' = Decided(r) BY <1>1, <1>2 DEF Decided
<1>5. Verdicts' BY <1>2, <1>4 DEF Exact, Verdicts
<1>6. data_shares[s] = Running(delivery, s, next[s]) /\ tshare'[s] = data_shares[s]
    BY <1>1, <1>2 DEF Exact, Totals, Decided
<1>7. \A r \in Server : data_shares'[r] = Running(delivery', r, Decided(r)')
    BY <1>2, <1>4 DEF Exact, Totals
<1>8. CASE s = A
    <2>1. tshare'[A] = Running(delivery', A, next'[A]) BY <1>2, <1>6, <1>8
    <2>2. Totals' BY <1>2, <1>7, <1>8, <2>1 DEF Exact, Totals
    <2> QED BY <1>3, <1>5, <2>2 DEF Exact
<1>9. CASE s = B
    <2> DEFINE m == [sub |-> next[B], t |-> tshare'[B]]
    <2>1. m.sub = next[B] /\ m.t = Running(delivery, B, m.sub) BY <1>6, <1>9
    <2>2. m \in MessageT
        <3>1. TypeOK' BY TypeTotal DEF TypeInv
        <3>2. tshare'[B] \in Array1(NumFields) /\ next[B] \in Sub
            BY <1>2, <1>6, <1>9 DEF TypeInv, TypeOK, Progress
        <3> QED BY <3>2 DEF MessageT
    <2>3. nett'[B] = Append(nett[B], m) /\ nett[B] \in Seq(MessageT) BY <1>1, <1>2, <1>9
    <2> HIDE DEF m
    <2>4. /\ Len(nett'[B]) = Len(nett[B]) + 1 /\ Len(nett[B]) \in Nat
          /\ \A i \in 1 .. Len(nett[B]) : nett'[B][i] = nett[B][i]
          /\ nett'[B][Len(nett[B]) + 1] = m
        BY <2>2, <2>3, AppendElems
    <2>5. ASSUME NEW i \in 1 .. Len(nett'[B])
          PROVE  nett'[B][i].t = Running(delivery', B, nett'[B][i].sub)
        <3>1. CASE i \in 1 .. Len(nett[B]) BY <1>2, <2>4, <3>1 DEF Exact, Totals
        <3>2. CASE i = Len(nett[B]) + 1 BY <1>2, <2>1, <2>4, <3>2
        <3> QED BY <2>4, <3>1, <3>2
    <2>6. pc'[A] = pc[A] /\ next'[A] = next[A] /\ tshare'[A] = tshare[A] BY <1>1, <1>2, <1>9
    <2>7. Totals' BY <1>2, <1>7, <2>5, <2>6 DEF Exact, Totals
    <2> QED BY <1>3, <1>5, <2>7 DEF Exact
<1> QED BY <1>8, <1>9 DEF Server

(* What PrioTotalShare_final returns when it succeeds. *)
LEMMA FinalSuccess ==
    ASSUME NEW out, NEW tA \in Vector, NEW tB \in Vector
    PROVE  LET res == PrioTotalShare_final(out, tA, tB)
               sum == MPArray_addmod(tA, tB)
           IN  /\ res.rv = IF \A i \in 1 .. NumFields : sum[i] < DigitBound
                           THEN "success" ELSE "failure"
               /\ res.rv = "success" => res.output = sum
               /\ \A i \in 1 .. NumFields : res.output[i] \in {sum[i], out[i]}
<1> DEFINE sum == MPArray_addmod(tA, tB)
           res == PrioTotalShare_final(out, tA, tB)
           fits(i) == \A j \in 1 .. i : sum[j] < DigitBound
<1>1. sum \in Vector BY AddType DEF Vector
<1>2. sum = [i \in 1 .. NumFields |-> sum[i]] BY <1>1 DEF Vector, Array1
<1>3. /\ res.rv = IF fits(NumFields) THEN "success" ELSE "failure"
      /\ res.output = [i \in 1 .. NumFields |-> IF fits(i) THEN sum[i] ELSE out[i]]
    BY DEF PrioTotalShare_final
<1> HIDE DEF sum, res
<1>4. ASSUME fits(NumFields) PROVE res.output = sum
    <2>1. \A i \in 1 .. NumFields : fits(i) BY <1>4, NumFieldsAssumption
    <2> QED BY <1>2, <1>3, <2>1
<1>5. \A i \in 1 .. NumFields : res.output[i] \in {sum[i], out[i]} BY <1>3
<1> QED BY <1>3, <1>4, <1>5 DEF sum, res

(* Server A adds the shares both servers held after the same submission. *)
LEMMA ExactFinal ==
    ASSUME TypeInv, InStep, Exact, NEW s \in Server, Final(s)
    PROVE  Exact'
<1> DEFINE A == PRIO_SERVER_A
           B == PRIO_SERVER_B
           c == next[A]
           t == Head(nett[B]).t
<1>1. /\ A \in Server /\ B \in Server /\ A # B /\ peer(A) = B /\ pc \in [Server -> Pc]
      /\ next \in [Server -> 1 .. Len(Stored) + 1] /\ c \in Nat /\ nett \in [Server -> Seq(MessageT)]
    BY CountersType DEF Server, peer, PRIO_SERVER_A, PRIO_SERVER_B, TypeInv, TypeOK
<1>2. s = A BY DEF Final, TypeInv, Progress
<1>3. /\ pc[A] = "final" /\ pc' = [pc EXCEPT ![A] = "set_data"]
      /\ next' = [next EXCEPT ![A] = @ + 1] /\ nett' = [nett EXCEPT ![B] = Tail(@)]
      /\ nett[B] # <<>> /\ final' = PrioTotalShare_final(final.output, tshare[A], t)
      /\ UNCHANGED <<delivery, prg, data_shares, verifier, p1, p2, tshare, net1, net2, decision>>
    BY <1>1, <1>2 DEF Final
<1>4. \A r \in Server : Held(r)'
    <2>1. pc'[A] = "set_data" /\ next'[A] = next[A] + 1 /\ pc'[B] = pc[B] /\ next'[B] = next[B]
        BY <1>1, <1>3
    <2>2. Held(A)' BY <1>1, <1>3, <2>1, HeldAdvance DEF Exact
    <2>3. Held(B)' BY <1>1, <1>3, <2>1, HeldFrame DEF Exact
    <2> QED BY <2>2, <2>3 DEF Server
<1>5. \A r \in Server : Decided(r)' = Decided(r) BY <1>1, <1>3 DEF Decided
<1>6. Verdicts' BY <1>3, <1>5 DEF Exact, Verdicts
<1>7. /\ Len(nett[B]) \in Nat \ {0} /\ Len(nett'[B]) = Len(nett[B]) - 1
      /\ Head(nett[B]) = nett[B][1]
      /\ \A i \in 1 .. Len(nett[B]) - 1 : nett'[B][i] = nett[B][i + 1]
    BY <1>1, <1>3, TailElems
<1>8. t = Running(delivery, B, c) /\ tshare[A] = Running(delivery, A, c)
    <2>1. 1 \in 1 .. Len(nett[B]) BY <1>7
    <2>2. nett[B][1].sub = c - 1 + 1 BY <2>1 DEF InStep, ChannelT
    <2>3. c - 1 + 1 = c BY <1>1
    <2> QED BY <1>3, <1>7, <2>1, <2>2, <2>3 DEF Exact, Totals
<1>9. final'.rv = "success" => final'.output = SumBelow(next'[A], Accepted(delivery'), Value)
    <2>1. t \in Vector /\ tshare[A] \in Vector
        <3>1. A \in Server /\ B \in Server /\ c \in Nat BY <1>1 DEF Server
        <3> HIDE DEF t
        <3>2. Running(delivery, B, c) \in Vector /\ Running(delivery, A, c) \in Vector
            BY <3>1, RunningType
        <3> QED BY <1>8, <3>2
    <2>2. final'.rv = "success" => final'.output = MPArray_addmod(tshare[A], t)
        BY <1>3, <2>1, FinalSuccess
    <2>3. MPArray_addmod(tshare[A], t) = SumBelow(c + 1, Accepted(delivery), Value)
        BY <1>1, <1>8, SumValue
    <2>4. next'[A] = c + 1 BY <1>1, <1>3
    <2> QED BY <1>3, <2>2, <2>3, <2>4
<1>10. ASSUME NEW i \in 1 .. Len(nett'[B])
       PROVE  nett'[B][i].t = Running(delivery', B, nett'[B][i].sub)
    <2>1. i \in 1 .. Len(nett[B]) - 1 /\ i + 1 \in 1 .. Len(nett[B]) BY <1>7
    <2> QED BY <1>3, <1>7, <2>1 DEF Exact, Totals
<1>11. pc'[A] = "set_data" BY <1>1, <1>3
<1>12. Totals' BY <1>3, <1>5, <1>9, <1>10, <1>11 DEF Exact, Totals
<1> QED BY <1>4, <1>6, <1>12 DEF Exact

(* Every step keeps the totals exact. *)
LEMMA ExactStep == TypeInv /\ InStep /\ Exact /\ [Next]_vars => Exact'
<1> SUFFICES ASSUME TypeInv, InStep, Exact, [Next]_vars PROVE Exact' OBVIOUS
<1>1. ASSUME NEW s \in Server, Step(s) PROVE Exact'
    BY <1>1, ExactSetData, ExactSetDataFails, ExactVerify1, ExactVerify2, ExactSkip, ExactIsValid,
       ExactTotalShare, ExactFinal
    DEF Step
<1>2. CASE UNCHANGED vars
    BY <1>2 DEF vars, Exact, Held, Verdicts, Totals, Begun, Took1, Decided
<1> QED BY <1>1, <1>2 DEF Next, Finished

(* In every reachable state the servers are in step and the totals exact. *)
LEMMA ExactAlways == Spec => [](TypeInv /\ InStep /\ Exact)
<1>1. Init => Exact BY ExactInit
<1>2. TypeInv /\ InStep /\ Exact /\ [Next]_vars => Exact' BY ExactStep
<1> QED BY <1>1, <1>2, InStepAlways, PTL DEF Spec
-----------------------------------------------------------------------------
(* What a server has counted, in terms of the verdicts. *)
LEMMA CountedIs ==
    ASSUME TypeInv, InStep, Exact, NEW s \in Server
    PROVE  \A c \in Sub : c \in Counted(s) <=> c \in Accepted(delivery) /\ c <= Decided(s)
<1>1. ASSUME NEW c \in Sub PROVE decision[s][c] = "pending" <=> Decided(s) < c
    BY DEF InStep, Decisions
<1>2. ASSUME NEW c \in Sub, c <= Decided(s) PROVE decision[s][c] = Verdict(delivery, c)
    BY <1>2 DEF Exact, Verdicts
<1>3. Decided(s) \in Int /\ \A c \in Sub : c \in Int BY CountersType, SubType
<1> QED BY <1>1, <1>2, <1>3 DEF Counted, Verdict

(* Each server's shares are the sum of its shares of what it counted. *)
LEMMA ExactShares ==
    ASSUME TypeInv, InStep, Exact, NEW s \in Server
    PROVE  data_shares[s] = SumBelow(Len(Stored) + 1, Counted(s), ViewOf(s))
<1> DEFINE k == Decided(s) + 1
           m == Len(Stored) + 1
<1>1. k \in Nat \ {0} /\ m \in Nat /\ k <= m
    BY SubType DEF Decided, TypeInv, TypeOK, Progress
<1>2. \A c \in Sub : ViewOf(s)[c] \in Vector BY PacketType DEF ViewOf, View, Vector
<1>3. \A c \in Counted(s) : ViewOf(s)[c] \in Vector BY <1>2 DEF Counted
<1>4. \A c \in Accepted(delivery) : ViewOf(s)[c] \in Vector BY <1>2 DEF Accepted
<1>5. \A c \in Sub : c \in Counted(s) <=> c \in Accepted(delivery) /\ c <= Decided(s)
    BY CountedIs
<1>6. Counted(s) \subseteq Sub /\ Accepted(delivery) \subseteq Sub BY DEF Counted, Accepted
<1>7. \A c \in 1 .. k - 1 : c \in Counted(s) <=> c \in Accepted(delivery)
    BY <1>1, <1>5, <1>6, CountersType
<1>8. \A c \in k .. m - 1 : c \notin Counted(s) BY <1>1, <1>5, <1>6, CountersType
<1>9. data_shares[s] = SumBelow(k, Accepted(delivery), ViewOf(s)) BY DEF Exact, Totals, Running
<1> HIDE DEF k, m
<1>10. SumBelow(k, Counted(s), ViewOf(s)) = SumBelow(k, Accepted(delivery), ViewOf(s))
    BY <1>1, <1>3, <1>4, <1>7, SumAgree
<1>11. SumBelow(m, Counted(s), ViewOf(s)) = SumBelow(k, Counted(s), ViewOf(s))
    BY <1>1, <1>3, <1>8, SumFlat
<1> QED BY <1>9, <1>10, <1>11 DEF m

(* Each server's running total is, at every moment, the field sum of its   *)
(* own shares of exactly the submissions it counted: what a packet that    *)
(* was read only in part left in the verifier is never aggregated.         *)
THEOREM SharesExactHolds == Spec => []SharesExact
<1>1. TypeInv /\ InStep /\ Exact => SharesExact BY ExactShares DEF SharesExact, ViewOf
<1> QED BY <1>1, ExactAlways, PTL

(* The published output is the sum of the data of what was counted. *)
LEMMA ExactOutput ==
    ASSUME TypeInv, InStep, Exact
    PROVE  OutputExact
<1> DEFINE A == PRIO_SERVER_A
           k == next[A]
<1>1. A \in Server BY DEF Server
<1>2. k \in Nat \ {0} /\ k - 1 <= Decided(A) BY <1>1, SubType DEF Decided, TypeInv, TypeOK
<1>3. \A c \in Sub : Value[c] \in Vector
    BY PacketType, AddType DEF Value, View, Vector, Server
<1>4. \A c \in Counted(A) : Value[c] \in Vector BY <1>3 DEF Counted
<1>5. \A c \in Accepted(delivery) : Value[c] \in Vector BY <1>3 DEF Accepted
<1>6. \A c \in Sub : c \in Counted(A) <=> c \in Accepted(delivery) /\ c <= Decided(A)
    BY <1>1, CountedIs
<1>7. Counted(A) \subseteq Sub /\ Accepted(delivery) \subseteq Sub BY DEF Counted, Accepted
<1>8. \A c \in 1 .. k - 1 : c \in Counted(A) <=> c \in Accepted(delivery)
    BY <1>1, <1>2, <1>6, <1>7, CountersType
<1>9. final.rv = "success" => final.output = SumBelow(k, Accepted(delivery), Value)
    BY DEF Exact, Totals
<1> HIDE DEF k
<1>10. SumBelow(k, Counted(A), Value) = SumBelow(k, Accepted(delivery), Value)
    BY <1>2, <1>4, <1>5, <1>8, SumAgree
<1> QED BY <1>9, <1>10 DEF OutputExact, k

(* Whenever PrioTotalShare_final succeeds, its output is the sum in the    *)
(* field of the data of exactly the submissions counted so far, however    *)
(* far apart the two servers are.                                          *)
THEOREM OutputExactHolds == Spec => []OutputExact
<1>1. TypeInv /\ InStep /\ Exact => OutputExact BY ExactOutput
<1> QED BY <1>1, ExactAlways, PTL

(* Servers that read the same submissions have drawn equally many points. *)
LEMMA DrawsAlike ==
    ASSUME NEW d, NEW c \in Nat,
           \A k \in 1 .. c : Reads(d, PRIO_SERVER_A, k) <=> Reads(d, PRIO_SERVER_B, k)
    PROVE  Draws(d, PRIO_SERVER_A, c) = Draws(d, PRIO_SERVER_B, c)
<1>1. {k \in 1 .. c : Reads(d, PRIO_SERVER_A, k)} = {k \in 1 .. c : Reads(d, PRIO_SERVER_B, k)}
    OBVIOUS
<1> QED BY <1>1 DEF Draws

(* The verdict on a well-formed submission checked at one point. *)
LEMMA CountableAccepted ==
    ASSUME NEW c \in Sub, Countable(c)
    PROVE  c \in Accepted(delivery)
<1> DEFINE A == PRIO_SERVER_A
           B == PRIO_SERVER_B
           b == c - 1
           k == Draws(delivery, A, c)
           sA == compute_shares(A, Stored[c], Draw[k])
           sB == compute_shares(B, Stored[c], Draw[k])
           tA == Stored[c].A.triple
           tB == Stored[c].B.triple
<1>1. A \in Server /\ B \in Server /\ A # B BY DEF Server, PRIO_SERVER_A, PRIO_SERVER_B
<1>2. Both(delivery, c) BY DEF Countable, Both, Reads, ReadsOk
<1>3. b \in Nat /\ b + 1 = c /\ c \in Nat /\ c <= Len(Stored) BY SubType
<1>4. \A j \in 1 .. c : Reads(delivery, A, j) <=> Reads(delivery, B, j)
    <2>1. \A j \in 1 .. c - 1 : ReadsOk(A, j) <=> ReadsOk(B, j) BY DEF Countable, DrewAlike
    <2> QED BY <1>2, <1>3, <2>1 DEF Both, Reads, ReadsOk
<1>5. Draws(delivery, B, c) = k BY <1>3, <1>4, DrawsAlike
<1>6. k \in Sub
    <2> HIDE DEF b
    <2>1. Reads(delivery, A, b + 1) BY <1>2, <1>3 DEF Both
    <2>2. Draws(delivery, A, b) \in 0 .. b /\ Draws(delivery, A, b + 1) = Draws(delivery, A, b) + 1
        BY <1>3, <2>1, DrawsStep
    <2> QED BY <1>3, <2>2, SubType
<1>7. Draw[k] \in EvalPoints BY <1>6, SubmissionAssumption
<1>8. SharesOf(delivery, A, c) = sA /\ SharesOf(delivery, B, c) = sB
    BY <1>1, <1>5, <1>6 DEF SharesOf, SharesAt
<1>9. TripleOf(A, c) = tA /\ TripleOf(B, c) = tB
    BY DEF TripleOf, packet_of, PRIO_SERVER_A, PRIO_SERVER_B
<1>10. sA \in SharesType /\ sB \in SharesType
    <2>1. sA \in Shares /\ sB \in Shares BY <1>1, <1>7, ComputeSharesType
    <2> QED BY <2>1 DEF Shares, SharesType
<1>11. tA \in TripleType /\ tB \in TripleType
    <2>1. /\ packet_of(A, Stored[c]).triple \in Triple /\ packet_of(B, Stored[c]).triple \in Triple
        BY <1>1, PacketType
    <2> QED BY <1>9, <2>1 DEF TripleOf, Triple, TripleType
<1>12. Multiplies(tA, tB) /\ Proves(sA, sB)
    BY <1>7 DEF Countable, WellFormed
<1> HIDE DEF sA, sB, tA, tB, k
<1>13. mulmod(addmod(tA.a, tB.a), addmod(tA.b, tB.b)) = addmod(tA.c, tB.c)
    BY <1>12 DEF Multiplies
<1>14. mulmod(addmod(sA.fR, sB.fR), addmod(sA.gR, sB.gR)) = addmod(sA.hR, sB.hR)
    BY <1>12 DEF Proves
<1>15. LET p1A == PrioPacketVerify1_set_data(sA, tA)
           p1B == PrioPacketVerify1_set_data(sB, tB)
           p2A == PrioPacketVerify2_set_data(sA, tA, p1A, p1B)
           p2B == PrioPacketVerify2_set_data(sB, tB, p1A, p1B)
       IN  PrioVerifier_isValid(p2A, p2B)
    BY <1>10, <1>11, <1>13, <1>14, BeaverIdentity, Zenon
<1>16. PrioVerifier_isValid(P2(delivery, A, c), P2(delivery, B, c))
    BY <1>8, <1>9, <1>15 DEF P1, P2
<1> QED BY <1>2, <1>16 DEF Accepted

(* A well-formed submission that both servers can read is never ignored as *)
(* long as they failed together on the earlier ones: they then check it at *)
(* one point, where the identity of the two rounds decides.                *)
THEOREM AlignedCountedHolds == Spec => []AlignedCounted
<1>1. ASSUME TypeInv, InStep, Exact PROVE AlignedCounted
    <2> SUFFICES ASSUME NEW s \in Server, NEW c \in Sub, Countable(c)
                 PROVE  decision[s][c] # "ignored"
        BY DEF AlignedCounted
    <2>1. c \in Accepted(delivery) BY CountableAccepted
    <2>2. CASE c <= Decided(s)
        <3>1. decision[s][c] = Verdict(delivery, c) BY <1>1, <2>2 DEF Exact, Verdicts
        <3> QED BY <2>1, <3>1 DEF Verdict
    <2>3. CASE Decided(s) < c
        <3>1. decision[s][c] = "pending" BY <1>1, <2>3 DEF InStep, Decisions
        <3> QED BY <3>1
    <2>4. c <= Decided(s) \/ Decided(s) < c BY <1>1, CountersType, SubType
    <2> QED BY <2>2, <2>3, <2>4
<1> QED BY <1>1, ExactAlways, PTL
-----------------------------------------------------------------------------
(* Refinement: the single party of PrioIdeal has decided what either       *)
(* server has decided.                                                     *)
Top == IF Decided(PRIO_SERVER_A) < Decided(PRIO_SERVER_B)
       THEN Decided(PRIO_SERVER_B) ELSE Decided(PRIO_SERVER_A)

(* A server that is behind is at the very submission its peer has decided. *)
LEMMA TopFacts ==
    ASSUME TypeInv, InStep, NEW s \in Server
    PROVE  /\ Top \in 0 .. Len(Stored)
           /\ Decided(s) = Top \/ (Decided(s) = Top - 1 /\ next[s] = Top)
           /\ Decided(s) <= Top
           /\ Decided(s) = Top \/ Decided(peer(s)) = Top
<1> DEFINE q == peer(s)
<1>1. q \in Server /\ peer(q) = s BY PeerType
<1>2. ASSUME NEW r \in Server PROVE Decided(r) \in 0 .. Len(Stored)
    <2>1. next[r] \in 1 .. Len(Stored) + 1 /\ Len(Stored) \in Nat BY SubType DEF TypeInv, TypeOK
    <2>2. pc[r] \in {"total", "final"} => next[r] \in 1 .. Len(Stored)
        BY SubType DEF TypeInv, Progress
    <2> QED BY <2>1, <2>2 DEF Decided
<1>3. \A r \in Server : /\ Decided(r) <= Took1(r) /\ Took1(r) <= Sent1(peer(r))
                        /\ Sent1(r) <= next[r] /\ next[r] - 1 <= Decided(r)
                        /\ next[r] \in Nat /\ Took1(r) \in Int /\ Sent1(r) \in Int
    BY Distance, CountersType DEF Decided, Took1, Sent1
<1>4. Top = IF Decided(s) < Decided(q) THEN Decided(q) ELSE Decided(s)
    BY <1>2 DEF Top, Server, peer, PRIO_SERVER_A, PRIO_SERVER_B
<1>5. /\ Decided(q) <= Took1(q) /\ Took1(q) <= Sent1(s) /\ Sent1(s) <= next[s]
      /\ next[s] - 1 <= Decided(s)
      /\ next[s] \in Nat /\ Took1(q) \in Int /\ Sent1(s) \in Int
      /\ Decided(s) \in 0 .. Len(Stored) /\ Decided(q) \in 0 .. Len(Stored) /\ Len(Stored) \in Nat
    BY <1>1, <1>2, <1>3, SubType
<1> QED BY <1>4, <1>5

(* The refinement mapping, in terms of Top. *)
Mapped ==
    /\ Total = SumBelow(Top + 1, Accepted(delivery), Value)
    /\ Status = [c \in Sub |-> IF c <= Top THEN Verdict(delivery, c) ELSE "pending"]

(* What a server has added, with the share it still has to add. *)
LEMMA LagIs ==
    ASSUME TypeInv, InStep, Exact, NEW s \in Server
    PROVE  MPArray_addmod(data_shares[s], LagShare(s)) = Running(delivery, s, Top)
<1> DEFINE q == peer(s)
<1>1. /\ q \in Server /\ peer(q) = s /\ Top \in 0 .. Len(Stored) /\ Len(Stored) \in Nat
      /\ Decided(s) \in Int /\ Decided(q) \in Int
      /\ Decided(s) = Top \/ (Decided(s) = Top - 1 /\ next[s] = Top)
      /\ Decided(q) <= Top /\ (Decided(s) = Top \/ Decided(q) = Top)
    BY PeerType, TopFacts, SubType, CountersType
<1>2. data_shares[s] = Running(delivery, s, Decided(s)) /\ data_shares[s] \in Vector
    BY DEF Exact, Totals, TypeInv, TypeOK, Vector
<1>3. \A r \in Server, c \in Sub :
        /\ decision[r][c] = "pending" <=> Decided(r) < c
        /\ c <= Decided(r) => decision[r][c] = Verdict(delivery, c)
    BY DEF InStep, Decisions, Exact, Verdicts
<1>4. CASE Decided(s) = Top
    <2>1. LagShare(s) = Zero
        <3>1. ASSUME next[s] \in Sub, decision[s][next[s]] = "pending",
                     decision[q][next[s]] = "counted"
              PROVE  FALSE
            <4>1. Top < next[s] BY <1>3, <1>4, <3>1
            <4>2. Decided(q) < next[s] BY <1>1, <3>1, <4>1, SubType
            <4>3. decision[q][next[s]] = "pending" BY <1>1, <1>3, <3>1, <4>2
            <4> QED BY <3>1, <4>3
        <3> QED BY <3>1 DEF LagShare, Zero
    <2>2. Zero \in Vector BY ZeroType DEF Zero, Vector
    <2> QED BY <1>2, <1>4, <2>1, <2>2, VectorAdd
<1>5. CASE Decided(s) # Top
    <2>1. Decided(s) = Top - 1 /\ next[s] = Top /\ Decided(q) = Top BY <1>1, <1>5
    <2>2. Top \in Sub
        <3>1. Top # 0 BY <1>1, <2>1 DEF TypeInv, TypeOK
        <3> QED BY <1>1, <3>1, SubType
    <2>3. decision[s][Top] = "pending" /\ decision[q][Top] = Verdict(delivery, Top)
        BY <1>1, <1>3, <2>1, <2>2
    <2>4. CASE Top \in Accepted(delivery)
        <3>1. LagShare(s) = View(s, Top) BY <2>1, <2>2, <2>3, <2>4 DEF LagShare, Verdict
        <3>2. Running(delivery, s, Top) = MPArray_addmod(Running(delivery, s, Top - 1), View(s, Top))
            BY <2>2, <2>4, RunningAt
        <3> QED BY <1>2, <2>1, <3>1, <3>2
    <2>5. CASE Top \notin Accepted(delivery)
        <3>1. LagShare(s) = Zero BY <2>1, <2>2, <2>3, <2>5 DEF LagShare, Verdict, Zero
        <3>2. Running(delivery, s, Top) = Running(delivery, s, Top - 1)
            BY <2>2, <2>5, RunningAt
        <3>3. Zero \in Vector BY ZeroType DEF Zero, Vector
        <3> QED BY <1>2, <2>1, <3>1, <3>2, <3>3, VectorAdd
    <2> QED BY <2>4, <2>5
<1> QED BY <1>4, <1>5

(* The mapped state is determined by how far the faster server is. *)
LEMMA MappedAlways == TypeInv /\ InStep /\ Exact => Mapped
<1> SUFFICES ASSUME TypeInv, InStep, Exact PROVE Mapped OBVIOUS
<1> DEFINE A == PRIO_SERVER_A
           B == PRIO_SERVER_B
<1>1. A \in Server /\ B \in Server /\ peer(A) = B /\ peer(B) = A
    BY DEF Server, peer, PRIO_SERVER_A, PRIO_SERVER_B
<1>2. Top \in Nat /\ Top \in 0 .. Len(Stored) BY <1>1, TopFacts, SubType
<1>3. Total = SumBelow(Top + 1, Accepted(delivery), Value)
    <2>1. /\ MPArray_addmod(data_shares[A], LagShare(A)) = Running(delivery, A, Top)
          /\ MPArray_addmod(data_shares[B], LagShare(B)) = Running(delivery, B, Top)
        BY <1>1, LagIs
    <2>2. SumBelow(Top + 1, Accepted(delivery), Value)
            = MPArray_addmod(Running(delivery, A, Top), Running(delivery, B, Top))
        BY <1>2, SumValue
    <2> QED BY <2>1, <2>2 DEF Total
<1>4. ASSUME NEW c \in Sub
      PROVE  Status[c] = IF c <= Top THEN Verdict(delivery, c) ELSE "pending"
    <2>1. \A r \in Server :
            /\ decision[r][c] = "pending" <=> Decided(r) < c
            /\ c <= Decided(r) => decision[r][c] = Verdict(delivery, c)
        BY DEF InStep, Decisions, Exact, Verdicts
    <2>2. Status[c] = IF decision[A][c] = "pending" THEN decision[B][c] ELSE decision[A][c]
        BY DEF Status
    <2>3. Decided(A) \in Int /\ Decided(B) \in Int /\ c \in Int BY <1>1, CountersType, SubType
    <2>4. Decided(A) <= Top /\ Decided(B) <= Top /\ (Decided(A) = Top \/ Decided(B) = Top)
        BY <1>1, TopFacts
    <2> QED BY <1>1, <1>2, <2>1, <2>2, <2>3, <2>4
<1> QED BY <1>3, <1>4 DEF Mapped, Status

(* The field operations of PrioIdeal are those of the protocol. *)
LEMMA IdealOps ==
    /\ \A x, y : Ideal!MPArray_addmod(x, y) = MPArray_addmod(x, y)
    /\ Ideal!MPArray_new(NumFields) = MPArray_new(NumFields)
    /\ DOMAIN Value = Sub
    BY DEF Ideal!MPArray_addmod, Ideal!addmod, Ideal!MPArray_new, MPArray_addmod, addmod,
           MPArray_new, Value

(* The initial states map to the initial state of the single party. *)
LEMMA IdealInit == Init => Ideal!Init
<1> SUFFICES ASSUME Init PROVE Ideal!Init OBVIOUS
<1>1. TypeInv /\ InStep /\ Exact BY TypeInit, InStepInit, ExactInit
<1>2. Mapped BY <1>1, MappedAlways
<1>3. Top = 0 BY DEF Init, Top, Decided, Server
<1>4. Total = MPArray_new(NumFields)
    <2>1. \A c \in Accepted(delivery) : Value[c] \in Vector
        BY PacketType, AddType DEF Accepted, Value, View, Vector, Server
    <2>2. SumBelow(1, Accepted(delivery), Value) = Zero BY <2>1, SumBelowStep
    <2> QED BY <1>2, <1>3, <2>2 DEF Mapped, Zero
<1>5. Status = [c \in Sub |-> "pending"] BY <1>2, <1>3, SubType DEF Mapped
<1>6. final = [rv |-> "none", output |-> MPArray_new(NumFields)] BY DEF Init
<1> QED BY <1>4, <1>5, <1>6, IdealOps DEF Ideal!Init

(* A step after which the faster server is where it was maps to a stutter  *)
(* of the status and the total.                                            *)
LEMMA IdealStutter ==
    ASSUME Mapped, Mapped', delivery' = delivery, Top' = Top
    PROVE  Status' = Status /\ Total' = Total
    BY DEF Mapped

(* A step with which the faster server decides maps to Count or Ignore. *)
LEMMA IdealDecide ==
    ASSUME Mapped, Mapped', delivery' = delivery, final' = final,
           Top \in Nat, Top' = Top + 1, Top + 1 \in Sub
    PROVE  Ideal!Next
<1> DEFINE c == Top + 1
<1>1. /\ Status = [k \in Sub |-> IF k <= Top THEN Verdict(delivery, k) ELSE "pending"]
      /\ Status' = [k \in Sub |-> IF k <= c THEN Verdict(delivery, k) ELSE "pending"]
    BY DEF Mapped
<1>2. /\ Total = SumBelow(c, Accepted(delivery), Value)
      /\ Total' = SumBelow(c + 1, Accepted(delivery), Value)
    BY DEF Mapped
<1>3. c \in Sub /\ c \in Nat \ {0} /\ \A k \in Sub : k \in Nat /\ (k <= c <=> k <= Top \/ k = c)
    BY SubType
<1> HIDE DEF c
<1>4. Status[c] = "pending" /\ Status' = [Status EXCEPT ![c] = Verdict(delivery, c)]
    <2>1. Status[c] = "pending" BY <1>1, <1>3 DEF c
    <2>2. \A k \in Sub : Status'[k] = [Status EXCEPT ![c] = Verdict(delivery, c)][k]
        BY <1>1, <1>3 DEF c
    <2> QED BY <1>1, <2>1, <2>2
<1>5. \A k \in Accepted(delivery) : Value[k] \in Vector
    BY PacketType, AddType DEF Accepted, Value, View, Vector, Server
<1>6. CASE c \in Accepted(delivery)
    <2>1. Total' = MPArray_addmod(Total, Value[c]) BY <1>2, <1>3, <1>5, <1>6, SumBelowStep
    <2>2. Status' = [Status EXCEPT ![c] = "counted"] BY <1>4, <1>6 DEF Verdict
    <2>3. Ideal!Count(c) BY <1>4, <2>1, <2>2, IdealOps DEF Ideal!Count
    <2> QED BY <1>3, <2>3, IdealOps DEF Ideal!Next
<1>7. CASE c \notin Accepted(delivery)
    <2>1. Total' = Total BY <1>2, <1>3, <1>5, <1>7, SumBelowStep
    <2>2. Status' = [Status EXCEPT ![c] = "ignored"] BY <1>4, <1>7 DEF Verdict
    <2>3. Ideal!Ignore(c) BY <1>4, <2>1, <2>2 DEF Ideal!Ignore
    <2> QED BY <1>3, <2>3, IdealOps DEF Ideal!Next
<1> QED BY <1>6, <1>7

(* When server A publishes, it is the faster server and server B has sent  *)
(* its total after the same submission.                                    *)
LEMMA IdealPublish ==
    ASSUME TypeInv, InStep, Exact, Mapped, Mapped', NEW s \in Server, Final(s)
    PROVE  Ideal!Publish
<1> DEFINE A == PRIO_SERVER_A
           B == PRIO_SERVER_B
           c == next[A]
           t == Head(nett[B]).t
<1>1. /\ A \in Server /\ B \in Server /\ A # B /\ peer(A) = B /\ peer(B) = A /\ pc \in [Server -> Pc]
      /\ next \in [Server -> 1 .. Len(Stored) + 1] /\ c \in Nat /\ nett \in [Server -> Seq(MessageT)]
    BY CountersType DEF Server, peer, PRIO_SERVER_A, PRIO_SERVER_B, TypeInv, TypeOK
<1>2. s = A BY DEF Final, TypeInv, Progress
<1>3. /\ pc[A] = "final" /\ pc' = [pc EXCEPT ![A] = "set_data"]
      /\ next' = [next EXCEPT ![A] = @ + 1] /\ nett[B] # <<>>
      /\ final' = PrioTotalShare_final(final.output, tshare[A], t) /\ delivery' = delivery
    BY <1>1, <1>2 DEF Final
<1>4. Decided(A)' = Decided(A) /\ Decided(B)' = Decided(B) /\ Decided(A) = c
    <2>1. pc'[A] = "set_data" /\ next'[A] = c + 1 /\ pc'[B] = pc[B] /\ next'[B] = next[B]
        BY <1>1, <1>3
    <2> QED BY <1>1, <1>3, <2>1 DEF Decided
<1>5. Top' = Top BY <1>4 DEF Top
<1>6. Status' = Status /\ Total' = Total BY <1>3, <1>5, IdealStutter
<1>7. Top = c
    <2>1. Took1(B) <= Sent1(A) BY <1>1, Distance
    <2>2. Sent1(A) = c BY <1>3 DEF Sent1
    <2>3. Decided(B) <= Took1(B) BY <1>1, CountersType DEF Decided, Took1
    <2>4. Decided(B) <= c BY <1>1, <2>1, <2>2, <2>3, CountersType
    <2> QED BY <1>1, <1>4, <2>4, CountersType DEF Top
<1>8. t = Running(delivery, B, c) /\ tshare[A] = Running(delivery, A, c)
    <2>1. Head(nett[B]) = nett[B][1] /\ 1 \in 1 .. Len(nett[B]) BY <1>1, <1>3, TailElems
    <2>2. nett[B][1].sub = c - 1 + 1 BY <2>1 DEF InStep, ChannelT
    <2>3. c - 1 + 1 = c BY <1>1
    <2> QED BY <1>3, <2>1, <2>2, <2>3 DEF Exact, Totals
<1>9. t \in Vector /\ tshare[A] \in Vector
    <2>1. A \in Server /\ B \in Server /\ c \in Nat BY <1>1 DEF Server
    <2> HIDE DEF t
    <2>2. Running(delivery, B, c) \in Vector /\ Running(delivery, A, c) \in Vector
        BY <2>1, RunningType
    <2> QED BY <1>8, <2>2
<1>10. Total = MPArray_addmod(tshare[A], t)
    BY <1>1, <1>7, <1>8, SumValue DEF Mapped
<1> HIDE DEF t
<1>11. /\ final'.rv = IF \A i \in 1 .. NumFields : Total[i] < DigitBound
                      THEN "success" ELSE "failure"
       /\ final'.rv = "success" => final'.output = Total
       /\ \A i \in 1 .. NumFields : final'.output[i] \in {Total[i], final.output[i]}
    <2> DEFINE out == final.output
               ta  == tshare[A]
    <2>1. final' = PrioTotalShare_final(out, ta, t) /\ ta \in Vector /\ Total = MPArray_addmod(ta, t)
        BY <1>3, <1>9, <1>10
    <2> HIDE DEF out, ta
    <2>2. LET res == PrioTotalShare_final(out, ta, t)
              sum == MPArray_addmod(ta, t)
          IN  /\ res.rv = IF \A i \in 1 .. NumFields : sum[i] < DigitBound
                          THEN "success" ELSE "failure"
              /\ res.rv = "success" => res.output = sum
              /\ \A i \in 1 .. NumFields : res.output[i] \in {sum[i], out[i]}
        BY <1>9, <2>1, FinalSuccess
    <2> QED BY <2>1, <2>2 DEF out
<1> QED BY <1>6, <1>11 DEF Ideal!Publish

(* Every step of the two servers is one of the single party, or none. *)
LEMMA IdealStep ==
    ASSUME TypeInv, InStep, Exact, Mapped, Mapped', [Next]_vars
    PROVE  [Ideal!Next]_(Ideal!ivars)
<1>1. ASSUME NEW s \in Server, Final(s) PROVE Ideal!Next
    BY <1>1, IdealPublish DEF Ideal!Next
<1>2. ASSUME NEW s \in Server, SetData(s) \/ SetDataFails(s) \/ Verify1(s) \/ Verify2(s) \/ TotalShare(s)
      PROVE  UNCHANGED Ideal!ivars
    <2>1. delivery' = delivery /\ final' = final
        BY <1>2 DEF SetData, SetDataFails, Verify1, Verify2, TotalShare
    <2>2. pc \in [Server -> Pc] /\ next \in [Server -> 1 .. Len(Stored) + 1] /\ next[s] \in Nat
        BY CountersType DEF TypeInv, TypeOK
    <2>3. ASSUME NEW r \in Server PROVE Decided(r)' = Decided(r)
        <3>1. CASE SetData(s) \/ SetDataFails(s) \/ Verify1(s) \/ Verify2(s)
            <4>1. /\ pc[s] \in {"set_data", "verify1", "verify2"} /\ next' = next
                  /\ \E to \in {"verify1", "refused", "verify2", "isValid"} :
                         pc' = [pc EXCEPT ![s] = to]
                BY <3>1 DEF SetData, SetDataFails, Verify1, Verify2
            <4> QED BY <2>2, <4>1 DEF Decided
        <3>2. CASE TotalShare(s)
            <4>1. /\ pc[s] = "total"
                  /\ \/ pc' = [pc EXCEPT ![s] = "final"] /\ next' = next
                     \/ pc' = [pc EXCEPT ![s] = "set_data"] /\ next' = [next EXCEPT ![s] = @ + 1]
                BY <3>2 DEF TotalShare
            <4> QED BY <2>2, <4>1 DEF Decided
        <3> QED BY <1>2, <3>1, <3>2
    <2>4. Top' = Top BY <2>3 DEF Top, Server
    <2> QED BY <2>1, <2>4, IdealStutter DEF Ideal!ivars
<1>3. ASSUME NEW s \in Server, Skip(s) \/ Aggregate(s) \/ Reject(s)
      PROVE  Ideal!Next \/ UNCHANGED Ideal!ivars
    <2> DEFINE q == peer(s)
    <2>1. /\ delivery' = delivery /\ final' = final /\ next' = next
          /\ pc' = [pc EXCEPT ![s] = "total"] /\ pc[s] \in {"refused", "verify2", "isValid"}
        BY <1>3 DEF Skip, Aggregate, Reject
    <2>2. pc \in [Server -> Pc] /\ next[s] \in Sub /\ next[s] \in Nat /\ q \in Server /\ q # s
        BY <2>1, PeerType, SubType DEF TypeInv, TypeOK, Progress
    <2>3. Decided(s) = next[s] - 1 /\ Decided(s)' = next[s] /\ Decided(q)' = Decided(q)
        BY <2>1, <2>2 DEF Decided
    <2>4. Top \in Nat /\ Decided(q) \in Int /\ Decided(s) <= Top
        BY <2>2, TopFacts, CountersType, SubType
    <2>5. /\ Top = IF Decided(s) < Decided(q) THEN Decided(q) ELSE Decided(s)
          /\ Top' = IF next[s] < Decided(q) THEN Decided(q) ELSE next[s]
        BY <2>2, <2>3, <2>4 DEF Top, Server, peer, PRIO_SERVER_A, PRIO_SERVER_B
    <2>6. Top' = Top \/ (Top' = Top + 1 /\ Top + 1 \in Sub) BY <2>2, <2>3, <2>4, <2>5
    <2>7. CASE Top' = Top BY <2>1, <2>7, IdealStutter DEF Ideal!ivars
    <2>8. CASE Top' = Top + 1 /\ Top + 1 \in Sub BY <2>1, <2>4, <2>8, IdealDecide
    <2> QED BY <2>6, <2>7, <2>8
<1>4. CASE UNCHANGED vars
    <2>1. delivery' = delivery /\ final' = final /\ Top' = Top BY <1>4 DEF vars, Top, Decided
    <2> QED BY <2>1, IdealStutter DEF Ideal!ivars
<1> QED BY <1>1, <1>2, <1>3, <1>4 DEF Next, Finished, Step

(* The two servers together implement one trusted party that counts or     *)
(* ignores each submission once and publishes the sums of what it counted, *)
(* for every interleaving of the servers and every delivery.               *)
THEOREM ServersImplementIdeal == Spec => ImplementsIdeal
<1> DEFINE Inv == TypeInv /\ InStep /\ Exact /\ Mapped
<1>1. Init => Ideal!Init BY IdealInit
<1>2. Spec => []Inv BY ExactAlways, MappedAlways, PTL
<1>3. Inv /\ Inv' /\ [Next]_vars => [Ideal!Next]_(Ideal!ivars) BY IdealStep
<1> QED BY <1>1, <1>2, <1>3, PTL DEF Spec, ImplementsIdeal, Ideal!Spec
=============================================================================
