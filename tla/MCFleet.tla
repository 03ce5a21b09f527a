------------------------------ MODULE MCFleet ------------------------------
(***************************************************************************)
(* An instance of PrioFleet: a main pair and three workers, which are      *)
(* merged or refused for different reasons.                                *)
(***************************************************************************)
EXTENDS PrioFleet

Cfg(a, b, n, id) == [server_a_pub |-> a, server_b_pub |-> b, num_data_fields |-> n,
                     modulus |-> Modulus, batch_id |-> id]

Honest(a, b) == [honest |-> TRUE, A |-> <<a>>, B |-> <<b>>]
Cheat(a, b)  == [honest |-> FALSE, A |-> <<a>>, B |-> <<b>>]

MCWorker == 0 .. 3

MCBatch == [w \in MCWorker |-> CASE w = 0 -> <<Honest(9, 9), Honest(4, 13)>>
                                 [] w = 1 -> <<Cheat(8, 1), Honest(16, 2)>>
                                 [] OTHER -> <<>>]

(* Worker 1 has another key for server A, which differs after a zero octet *)
(* and is taken for the same; worker 2 was configured for two fields;      *)
(* worker 3 has another key for server B, which differs before its zero.   *)
MCConfig == [w \in MCWorker |-> Cfg(IF w = 1 THEN <<7, 0, 9>> ELSE <<7, 0, 4>>,
                                    IF w = 3 THEN <<2, 8, 0>> ELSE <<2, 3, 0>>,
                                    IF w = 2 THEN 2 ELSE 1,
                                    <<1, 0>>)]

(* Both servers of a pair stop, or server B alone. *)
TogetherOrAlone == {Server, {PRIO_SERVER_B}}
=============================================================================
