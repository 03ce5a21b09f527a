---------------------------- MODULE PrioProtocol ----------------------------
(***************************************************************************)
(* The two servers that validate and aggregate a batch of submissions:     *)
(* the server side of prio/server.c driven by the loop of pclient/main.c,  *)
(* with the servers as two processes that exchange PrioPacketVerify1,      *)
(* PrioPacketVerify2 and PrioTotalShare packets.                           *)
(*                                                                         *)
(* Both servers go through the same list of submissions.  A submission     *)
(* reaches each server in a state of its own (delivery): intact, or such   *)
(* that PrioVerifier_set_data fails at a given stage.  A server that       *)
(* cannot read its packet says so to its peer and both ignore the          *)
(* submission (pclient/main.c, "ill-formed (in which case they ignore      *)
(* it)").  Packets travel on authenticated channels that keep their order  *)
(* and may delay them; no packet carries the submission it is about: `sub` *)
(* is there for the properties and no action tests it.                     *)
(***************************************************************************)
EXTENDS PrioSnip

CONSTANTS
    Submission,   \* the packets of each client, a sequence of [A |-> ..., B |-> ...]
    Draw,         \* Draw[k]: the k-th point the PRG seeded with the shared secret yields
    Delivery,     \* the ways a submission may reach the two servers
    DigitBound    \* 2^MP_DIGIT_BIT: the least value that does not fit one mp_digit

VARIABLES
    delivery,     \* what set_data will meet, per submission and server
    pc,           \* where each server is in the loop body
    next,         \* the submission each server is at
    prg,          \* s->prg: how many points have been drawn from it
    data_shares,  \* s->data_shares
    verifier,     \* v: the triple, the data shares and the shares of f(r), g(r), h(r)
    p1, p2,       \* the server's own packet objects
    tshare,       \* the server's own PrioTotalShare
    net1, net2, nett,  \* packets of each kind sent by a server and not yet received
    decision,     \* what each server did with each submission
    final         \* at server A: the result of the last PrioTotalShare_final

vars == <<delivery, pc, next, prg, data_shares, verifier, p1, p2, tshare,
          net1, net2, nett, decision, final>>

(* The packets as the servers find them.  (A name of its own: TLC evaluates *)
(* it once.)                                                               *)
Stored == Submission

Sub == 1 .. Len(Stored)

(* How far PrioVerifier_set_data gets: "decrypt" fails before the verifier *)
(* is touched (ciphertext or batch id), "fields" after the triple and the  *)
(* constant terms are read (wrong server id), "shares" in the part that    *)
(* holds the shares (for server A after its data shares are read).         *)
Stage == {"ok", "decrypt", "fields", "shares"}

Triple == [a : Field, b : Field, c : Field]
Array1(len) == [1 .. len -> Field]

Packets == [A : [triple : Triple, f0 : Field, g0 : Field, h0 : Field,
                 data_shares : Array1(NumFields), h_points : Array1(N)],
            B : [triple : Triple, f0 : Field, g0 : Field, h0 : Field,
                 seed : Array1(NumFields + N)]]

ASSUME SubmissionAssumption ==
    /\ Submission \in Seq(Packets)
    /\ Draw \in [Sub -> EvalPoints]
    /\ Delivery \subseteq [Server -> Stage]
    /\ DigitBound \in Nat

Shares == [fR : Field, gR : Field, hR : Field]

(* What server s computes from submission c at the k-th point drawn. *)
SharesAt == [s \in Server |-> [c \in Sub |-> [k \in Sub |->
                compute_shares(s, Stored[c], Draw[k])]]]

peer(s) == 1 - s

(* The packet of server A, and that of server B, of the pair that server s *)
(* holds: its own and the one it received.                                 *)
OfA(s, mine, theirs) == IF s = PRIO_SERVER_A THEN mine ELSE theirs
OfB(s, mine, theirs) == IF s = PRIO_SERVER_A THEN theirs ELSE mine

ReadsOk(s, c) == delivery[c][s] = "ok"

ZeroTriple == [a |-> 0, b |-> 0, c |-> 0]

PrioVerifier_new == [triple |-> ZeroTriple, data |-> MPArray_new(NumFields),
                     shares |-> [fR |-> 0, gR |-> 0, hR |-> 0]]

Init ==
    /\ delivery \in [Sub -> Delivery]
    /\ pc = [s \in Server |-> "set_data"]
    /\ next = [s \in Server |-> 1]
    /\ prg = [s \in Server |-> 0]
    /\ data_shares = [s \in Server |-> MPArray_new(NumFields)]
    /\ verifier = [s \in Server |-> PrioVerifier_new]
    /\ p1 = [s \in Server |-> [d |-> 0, e |-> 0]]
    /\ p2 = [s \in Server |-> 0]
    /\ tshare = [s \in Server |-> <<>>]
    /\ net1 = [s \in Server |-> <<>>]
    /\ net2 = [s \in Server |-> <<>>]
    /\ nett = [s \in Server |-> <<>>]
    /\ decision = [s \in Server |-> [c \in Sub |-> "pending"]]
    /\ final = [rv |-> "none", output |-> MPArray_new(NumFields)]

-----------------------------------------------------------------------------
(* Mutant: server B evaluates at the same point again and again. *)
SetData_BKeepsPoint(s) ==
    /\ pc[s] = "set_data"
    /\ next[s] \in Sub
    /\ ReadsOk(s, next[s])
    /\ LET packets == Stored[next[s]]
       IN  verifier' = [verifier EXCEPT ![s] =
               [triple |-> packet_of(s, packets).triple,
                data   |-> data_share(s, packets),
                shares |-> SharesAt[s][next[s]][prg[s] + 1]]]
    /\ prg' = [prg EXCEPT ![PRIO_SERVER_A] = IF s = PRIO_SERVER_A THEN @ + 1 ELSE @]
    /\ pc' = [pc EXCEPT ![s] = "verify1"]
    /\ UNCHANGED <<delivery, next, data_shares, p1, p2, tshare,
                   net1, net2, nett, decision, final>>

(* PrioVerifier_set_data succeeds: the packet is read, server B expands    *)
(* its seed, and compute_shares draws the next point from the server's PRG *)
(* and evaluates the shares of f, g and h there.                           *)
SetData(s) ==
    /\ pc[s] = "set_data"
    /\ next[s] \in Sub
    /\ ReadsOk(s, next[s])
    /\ LET packets == Stored[next[s]]
       IN  verifier' = [verifier EXCEPT ![s] =
               [triple |-> packet_of(s, packets).triple,
                data   |-> data_share(s, packets),
                shares |-> SharesAt[s][next[s]][prg[s] + 1]]]
    /\ prg' = [prg EXCEPT ![s] = @ + 1]
    /\ pc' = [pc EXCEPT ![s] = "verify1"]
    /\ UNCHANGED <<delivery, next, data_shares, p1, p2, tshare,
                   net1, net2, nett, decision, final>>

(* What a failing set_data leaves in the verifier: every field read before *)
(* the failure is already overwritten.                                     *)
PartlyRead(s, v, packets, stage) ==
    [triple |-> IF stage = "decrypt" THEN v.triple ELSE packet_of(s, packets).triple,
     data   |-> IF stage = "shares" /\ s = PRIO_SERVER_A
                THEN data_share(s, packets) ELSE v.data,
     shares |-> v.shares]

(* Mutant: the server tries the same packet again. *)
SetDataFails_Retries(s) ==
    /\ pc[s] = "set_data"
    /\ next[s] \in Sub
    /\ ~ReadsOk(s, next[s])
    /\ verifier' = [verifier EXCEPT ![s] =
           PartlyRead(s, @, Stored[next[s]], delivery[next[s]][s])]
    /\ UNCHANGED <<delivery, pc, next, prg, data_shares, p1, p2, tshare,
                   net1, net2, nett, decision, final>>

(* PrioVerifier_set_data fails before it draws from the PRG, and the       *)
(* server tells its peer that it cannot use the submission.                *)
SetDataFails(s) ==
    /\ pc[s] = "set_data"
    /\ next[s] \in Sub
    /\ ~ReadsOk(s, next[s])
    /\ verifier' = [verifier EXCEPT ![s] =
           PartlyRead(s, @, Stored[next[s]], delivery[next[s]][s])]
    /\ net1' = [net1 EXCEPT ![s] = Append(@, [sub |-> next[s], ok |-> FALSE, p |-> p1[s]])]
    /\ pc' = [pc EXCEPT ![s] = "refused"]
    /\ UNCHANGED <<delivery, next, prg, data_shares, p1, p2, tshare,
                   net2, nett, decision, final>>

Verify1(s) ==
    /\ pc[s] = "verify1"
    /\ p1' = [p1 EXCEPT ![s] =
           PrioPacketVerify1_set_data(verifier[s].shares, verifier[s].triple)]
    /\ net1' = [net1 EXCEPT ![s] = Append(@, [sub |-> next[s], ok |-> TRUE, p |-> p1'[s]])]
    /\ pc' = [pc EXCEPT ![s] = "verify2"]
    /\ UNCHANGED <<delivery, next, prg, data_shares, verifier, p2, tshare,
                   net2, nett, decision, final>>

(* The server receives its peer's packet and computes the second one from  *)
(* both, always server A's first.                                          *)
Verify2(s) ==
    /\ pc[s] = "verify2"
    /\ net1[peer(s)] # <<>>
    /\ Head(net1[peer(s)]).ok
    /\ net1' = [net1 EXCEPT ![peer(s)] = Tail(@)]
    /\ p2' = [p2 EXCEPT ![s] =
           LET theirs == Head(net1[peer(s)]).p
           IN  PrioPacketVerify2_set_data(verifier[s].shares, verifier[s].triple,
                                          OfA(s, p1[s], theirs), OfB(s, p1[s], theirs))]
    /\ net2' = [net2 EXCEPT ![s] = Append(@, [sub |-> next[s], p |-> p2'[s]])]
    /\ pc' = [pc EXCEPT ![s] = "isValid"]
    /\ UNCHANGED <<delivery, next, prg, data_shares, verifier, p1, tshare,
                   nett, decision, final>>

(* Mutant: a server that refused does not wait for its peer's packet. *)
Skip_NoReceive(s) ==
    /\ \/ pc[s] = "refused" /\ UNCHANGED net1
       \/ /\ pc[s] = "verify2" /\ net1[peer(s)] # <<>> /\ ~Head(net1[peer(s)]).ok
          /\ net1' = [net1 EXCEPT ![peer(s)] = Tail(@)]
    /\ decision' = [decision EXCEPT ![s][next[s]] = "ignored"]
    /\ pc' = [pc EXCEPT ![s] = "total"]
    /\ UNCHANGED <<delivery, next, prg, data_shares, verifier, p1, p2, tshare,
                   net2, nett, final>>

(* One of the servers could not read its packet: the submission is ignored. *)
Skip(s) ==
    /\ net1[peer(s)] # <<>>
    /\ pc[s] = "refused" \/ (pc[s] = "verify2" /\ ~Head(net1[peer(s)]).ok)
    /\ net1' = [net1 EXCEPT ![peer(s)] = Tail(@)]
    /\ decision' = [decision EXCEPT ![s][next[s]] = "ignored"]
    /\ pc' = [pc EXCEPT ![s] = "total"]
    /\ UNCHANGED <<delivery, next, prg, data_shares, verifier, p1, p2, tshare,
                   net2, nett, final>>

(* What server s computes from both second packets. *)
Accepts(s) ==
    LET theirs == Head(net2[peer(s)]).p
    IN  PrioVerifier_isValid(OfA(s, p2[s], theirs), OfB(s, p2[s], theirs))

(* Mutant: only server A checks. *)
Aggregate_OnlyAChecks(s) ==
    /\ pc[s] = "isValid"
    /\ net2[peer(s)] # <<>>
    /\ s = PRIO_SERVER_B \/ Accepts(s)
    /\ net2' = [net2 EXCEPT ![peer(s)] = Tail(@)]
    /\ data_shares' = [data_shares EXCEPT ![s] = MPArray_addmod(@, verifier[s].data)]
    /\ decision' = [decision EXCEPT ![s][next[s]] = "counted"]
    /\ pc' = [pc EXCEPT ![s] = "total"]
    /\ UNCHANGED <<delivery, next, prg, verifier, p1, p2, tshare, net1, nett, final>>

(* Mutant: the shares replace the running total. *)
Aggregate_Overwrites(s) ==
    /\ pc[s] = "isValid"
    /\ net2[peer(s)] # <<>>
    /\ Accepts(s)
    /\ net2' = [net2 EXCEPT ![peer(s)] = Tail(@)]
    /\ data_shares' = [data_shares EXCEPT ![s] = verifier[s].data]
    /\ decision' = [decision EXCEPT ![s][next[s]] = "counted"]
    /\ pc' = [pc EXCEPT ![s] = "total"]
    /\ UNCHANGED <<delivery, next, prg, verifier, p1, p2, tshare, net1, nett, final>>

(* PrioVerifier_isValid accepts and PrioServer_aggregate adds the shares   *)
(* the verifier holds.                                                     *)
Aggregate(s) ==
    /\ pc[s] = "isValid"
    /\ net2[peer(s)] # <<>>
    /\ Accepts(s)
    /\ net2' = [net2 EXCEPT ![peer(s)] = Tail(@)]
    /\ data_shares' = [data_shares EXCEPT ![s] = MPArray_addmod(@, verifier[s].data)]
    /\ decision' = [decision EXCEPT ![s][next[s]] = "counted"]
    /\ pc' = [pc EXCEPT ![s] = "total"]
    /\ UNCHANGED <<delivery, next, prg, verifier, p1, p2, tshare, net1, nett, final>>

(* PrioVerifier_isValid rejects. *)
Reject(s) ==
    /\ pc[s] = "isValid"
    /\ net2[peer(s)] # <<>>
    /\ ~Accepts(s)
    /\ net2' = [net2 EXCEPT ![peer(s)] = Tail(@)]
    /\ decision' = [decision EXCEPT ![s][next[s]] = "ignored"]
    /\ pc' = [pc EXCEPT ![s] = "total"]
    /\ UNCHANGED <<delivery, next, prg, data_shares, verifier, p1, p2, tshare,
                   net1, nett, final>>

(* PrioTotalShare_set_data copies the server's shares.  Server B sends the *)
(* copy to server A and goes on to the next submission.                    *)
TotalShare(s) ==
    /\ pc[s] = "total"
    /\ tshare' = [tshare EXCEPT ![s] = data_shares[s]]
    /\ IF s = PRIO_SERVER_A
       THEN /\ pc' = [pc EXCEPT ![s] = "final"]
            /\ UNCHANGED <<next, nett>>
       ELSE /\ nett' = [nett EXCEPT ![s] = Append(@, [sub |-> next[s], t |-> tshare'[s]])]
            /\ pc' = [pc EXCEPT ![s] = "set_data"]
            /\ next' = [next EXCEPT ![s] = @ + 1]
    /\ UNCHANGED <<delivery, prg, data_shares, verifier, p1, p2, net1, net2,
                   decision, final>>

(* Mutant: the check that the sum takes one digit is missing. *)
PrioTotalShare_final_Truncates(output, tA, tB) ==
    [rv     |-> "success",
     output |-> [i \in 1 .. NumFields |-> addmod(tA[i], tB[i]) % DigitBound]]

(* Mutant: server A's shares are added to themselves. *)
PrioTotalShare_final_AddsA(output, tA, tB) ==
    [rv     |-> IF \A i \in 1 .. NumFields : addmod(tA[i], tA[i]) < DigitBound
                THEN "success" ELSE "failure",
     output |-> [i \in 1 .. NumFields |-> IF \A j \in 1 .. i : addmod(tA[j], tA[j]) < DigitBound
                                         THEN addmod(tA[i], tA[i]) ELSE output[i]]]

(* Field by field: the sum of the two shares is written to output unless   *)
(* it takes more than one digit; the fields written before that stay.      *)
PrioTotalShare_final(output, tA, tB) ==
    LET sum     == MPArray_addmod(tA, tB)
        fits(i) == \A j \in 1 .. i : sum[j] < DigitBound
    IN  [rv     |-> IF fits(NumFields) THEN "success" ELSE "failure",
         output |-> [i \in 1 .. NumFields |-> IF fits(i) THEN sum[i] ELSE output[i]]]

Final(s) ==
    /\ pc[s] = "final"
    /\ nett[peer(s)] # <<>>
    /\ final' = PrioTotalShare_final(final.output, tshare[s], Head(nett[peer(s)]).t)
    /\ nett' = [nett EXCEPT ![peer(s)] = Tail(@)]
    /\ pc' = [pc EXCEPT ![s] = "set_data"]
    /\ next' = [next EXCEPT ![s] = @ + 1]
    /\ UNCHANGED <<delivery, prg, data_shares, verifier, p1, p2, tshare,
                   net1, net2, decision>>

Step(s) ==
    \/ SetData(s) \/ SetDataFails(s)
    \/ Verify1(s) \/ Verify2(s) \/ Skip(s)
    \/ Aggregate(s) \/ Reject(s)
    \/ TotalShare(s) \/ Final(s)

(* The loop over the submissions ends. *)
Finished ==
    /\ \A s \in Server : next[s] = Len(Stored) + 1
    /\ UNCHANGED vars

Next == (\E s \in Server : Step(s)) \/ Finished

Spec == Init /\ [][Next]_vars

(* Each server keeps executing the loop, and the network between them      *)
(* delivers what was sent.                                                 *)
FairSpec == Spec /\ \A s \in Server : WF_vars(Step(s))

-----------------------------------------------------------------------------
(* Properties *)

View(s, c) == data_share(s, Stored[c])

Pc == {"set_data", "refused", "verify1", "verify2", "isValid", "total", "final"}

Verifier == [triple : Triple, data : Array1(NumFields), shares : Shares]
Packet1 == [d : Field, e : Field]
Message1 == [sub : Sub, ok : BOOLEAN, p : Packet1]
Message2 == [sub : Sub, p : Field]
MessageT == [sub : Sub, t : Array1(NumFields)]
Result == [rv : {"none", "success", "failure"}, output : Array1(NumFields)]

(* Every variable has the type its C counterpart has; every share is a     *)
(* reduced field element.                                                  *)
TypeOK ==
    /\ delivery \in [Sub -> Delivery]
    /\ pc \in [Server -> Pc]
    /\ next \in [Server -> 1 .. Len(Stored) + 1]
    /\ prg \in [Server -> 0 .. Len(Stored)]
    /\ data_shares \in [Server -> Array1(NumFields)]
    /\ verifier \in [Server -> Verifier]
    /\ p1 \in [Server -> Packet1]
    /\ p2 \in [Server -> Field]
    /\ tshare \in [Server -> {<<>>} \cup Array1(NumFields)]
    /\ net1 \in [Server -> Seq(Message1)]
    /\ net2 \in [Server -> Seq(Message2)]
    /\ nett \in [Server -> Seq(MessageT)]
    /\ decision \in [Server -> [Sub -> {"pending", "counted", "ignored"}]]
    /\ final \in Result

(* Both servers decide every submission alike: neither adds to its running *)
(* total a submission that the other one ignores, whatever reaches them.   *)
Agreement ==
    \A c \in Sub : \/ "pending" \in {decision[PRIO_SERVER_A][c], decision[PRIO_SERVER_B][c]}
                   \/ decision[PRIO_SERVER_A][c] = decision[PRIO_SERVER_B][c]

(* A server never takes the packet of one submission for that of another,  *)
(* although nothing in a packet says which submission it is about.         *)
PacketsMatch ==
    \A s \in Server :
        LET q == peer(s)
        IN  /\ pc[s] \in {"refused", "verify2"} /\ net1[q] # <<>> => Head(net1[q]).sub = next[s]
            /\ pc[s] = "isValid" /\ net2[q] # <<>> => Head(net2[q]).sub = next[s]
            /\ pc[s] = "final" /\ nett[q] # <<>> => Head(nett[q]).sub = next[s]

(* No channel holds more than this server's packet for the submission its  *)
(* peer is at and, for the first kind, the one after.                      *)
ChannelBound ==
    \A s \in Server : Len(net1[s]) <= 2 /\ Len(net2[s]) <= 1 /\ Len(nett[s]) <= 1

(* The sum of the vectors f[c] over the submissions c < k in the set chosen. *)
SumBelow(k, chosen, f) ==
    LET sum[c \in Nat] ==
            IF c = 0 THEN MPArray_new(NumFields)
            ELSE IF c \in chosen THEN MPArray_addmod(sum[c - 1], f[c]) ELSE sum[c - 1]
    IN  sum[k - 1]

Counted(s) == {c \in Sub : decision[s][c] = "counted"}

(* PrioServer_aggregate has added, to each server's shares, exactly its    *)
(* own shares of the submissions it counted, each once: nothing of a       *)
(* submission whose packet was read only in part.                          *)
SharesExact ==
    \A s \in Server :
        data_shares[s] = SumBelow(Len(Stored) + 1, Counted(s), [c \in Sub |-> View(s, c)])

(* The data of a submission: the sum of its two servers' shares. *)
Value == [c \in Sub |-> MPArray_addmod(View(PRIO_SERVER_A, c), View(PRIO_SERVER_B, c))]

(* When PrioTotalShare_final succeeds, the output is the sum (in the       *)
(* field) of the data of exactly the submissions counted before it,        *)
(* although the servers reach the end of a submission at different times.  *)
OutputExact ==
    final.rv = "success" =>
        final.output = SumBelow(next[PRIO_SERVER_A], Counted(PRIO_SERVER_A), Value)

(* Two shares of a multiplication triple, and of f(r), g(r) and h(r). *)
Multiplies(a, b) == mulmod(addmod(a.a, b.a), addmod(a.b, b.b)) = addmod(a.c, b.c)

Proves(a, b) == mulmod(addmod(a.fR, b.fR), addmod(a.gR, b.gR)) = addmod(a.hR, b.hR)

(* f(r) * g(r) = h(r) at every point r the servers may draw, and the       *)
(* triple is a multiplication triple: what an honest client sends.         *)
WellFormed == {c \in Sub :
    LET packets == Stored[c]
    IN  /\ Multiplies(packets.A.triple, packets.B.triple)
        /\ \A r \in EvalPoints : Proves(compute_shares(PRIO_SERVER_A, packets, r),
                                         compute_shares(PRIO_SERVER_B, packets, r))}

(* pclient/main.c: "Servers A and B can both determine whether the client's *)
(* data submission is well-formed (in which case they add it to their      *)
(* running total of aggregate statistics)".  A well-formed submission that *)
(* both servers can read is never ignored.                                 *)
WellFormedCounted ==
    \A s \in Server, c \in WellFormed :
        ReadsOk(PRIO_SERVER_A, c) /\ ReadsOk(PRIO_SERVER_B, c) => decision[s][c] # "ignored"

(* The servers have drawn equally many points before they come to c: each   *)
(* earlier submission was read by both, or by neither.                     *)
DrewAlike(c) ==
    \A k \in 1 .. c - 1 : ReadsOk(PRIO_SERVER_A, k) <=> ReadsOk(PRIO_SERVER_B, k)

Countable(c) ==
    /\ c \in WellFormed
    /\ ReadsOk(PRIO_SERVER_A, c) /\ ReadsOk(PRIO_SERVER_B, c)
    /\ DrewAlike(c)

(* A well-formed submission that both servers can read is never ignored as *)
(* long as they failed together on earlier ones: whatever the stages they  *)
(* failed at left behind in the verifiers, they still check at one point.  *)
AlignedCounted == \A s \in Server, c \in Sub : Countable(c) => decision[s][c] # "ignored"

(* Such a submission is, in the end, counted by both servers. *)
WellFormedServed ==
    \A c \in Sub : Countable(c) ~> \A s \in Server : decision[s][c] = "counted"

(* Both servers get through the whole list: neither waits for a packet     *)
(* that its peer will not send.                                            *)
BatchCompletes == <>(\A s \in Server : next[s] = Len(Stored) + 1)

-----------------------------------------------------------------------------
(* Refinement: the two servers implement the single trusted party.  A      *)
(* submission is decided when the first server decides it, so the share    *)
(* that the other one is still to add belongs to the total.                *)
LagShare(s) ==
    IF /\ next[s] \in Sub
       /\ decision[s][next[s]] = "pending"
       /\ decision[peer(s)][next[s]] = "counted"
    THEN View(s, next[s])
    ELSE MPArray_new(NumFields)

Total == MPArray_addmod(MPArray_addmod(data_shares[PRIO_SERVER_A], LagShare(PRIO_SERVER_A)),
                        MPArray_addmod(data_shares[PRIO_SERVER_B], LagShare(PRIO_SERVER_B)))

Status == [c \in Sub |-> IF decision[PRIO_SERVER_A][c] = "pending"
                         THEN decision[PRIO_SERVER_B][c] ELSE decision[PRIO_SERVER_A][c]]

Ideal == INSTANCE PrioIdeal WITH status <- Status, total <- Total, published <- final

(* Every behaviour of the two servers is one of the single party. *)
ImplementsIdeal == Ideal!Spec
=============================================================================
