----------------------------- MODULE MCProtocol -----------------------------
(***************************************************************************)
(* Instances of PrioProtocol over the field of 17 elements, in which 2     *)
(* generates the eight 8th roots of unity.                                 *)
(***************************************************************************)
EXTENDS PrioProtocol

(* The client's random values, different for each submission k. *)
Rnd(k) ==
    [triple |-> [a1 |-> (3 * k) % Modulus, b1 |-> (5 + k) % Modulus, a2 |-> 11,
                 b2 |-> (2 * k + 1) % Modulus, c2 |-> (7 * k) % Modulus],
     f0 |-> (4 + k) % Modulus, f0A |-> 6, g0 |-> (9 * k) % Modulus, g0A |-> 2,
     h0A |-> (16 + k) % Modulus,
     seed |-> Array(NumFields + N, LAMBDA i : (i * i * 3 + k) % Modulus)]

(* An honest submission, one with a data field that is not a bit, and      *)
(* another honest one.                                                     *)
MCData == <<<<1, 0>>, <<1, 5>>, <<1, 1>>>>

MCSubmission == Array(Len(MCData), LAMBDA k : PrioPacketClient_set_data(MCData[k], Rnd(k)))

MCDraw == <<6, 13, 9>>

(* Both servers read a packet, or neither can. *)
SameAtBoth == {[s \in Server |-> x] : x \in Stage}

Outcome(a, b) == [s \in Server |-> IF s = PRIO_SERVER_A THEN a ELSE b]

(* Or one of them cannot, or neither can, each at a stage of its own. *)
EachItsOwn == SameAtBoth \cup
              {Outcome("ok", "fields"), Outcome("shares", "ok"),
               Outcome("decrypt", "ok"), Outcome("fields", "decrypt")}

(* Server B's packet may be unreadable while server A's is intact. *)
LostAtB == {Outcome("ok", "ok"), Outcome("ok", "decrypt")}
=============================================================================
