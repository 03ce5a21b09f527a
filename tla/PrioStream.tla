----------------------------- MODULE PrioStream -----------------------------
(***************************************************************************)
(* Two parties that exchange the objects of the library as a stream of     *)
(* MessagePack objects: one writes objects one after the other, the other  *)
(* reads them into objects it has made before, and reads again into the    *)
(* same objects.  On the way the stream may be cut or altered.             *)
(***************************************************************************)
EXTENDS PrioSerial

CONSTANTS
    Sample,      \* Sample[k]: the objects of kind k that may be written
    BatchIds,    \* batch ids a configuration may be made with
    MaxWrites,   \* bound on the objects written
    MaxReads     \* bound on the calls of a reader

Kind == {"packetA", "packetB", "server", "verify1", "verify2", "total"}

(* An object that is written has the arrays of the configuration.          *)
Arrays(len) == [1 .. len -> Field]

Shape(k) ==
    CASE k = "packetA" -> [a : Field, b : Field, c : Field, f0 : Field, g0 : Field, h0 : Field,
                           for_server : {PRIO_SERVER_A}, data_shares : Arrays(NumFields),
                           h_points : Arrays(PrioConfig_hPoints)]
      [] k = "packetB" -> [a : Field, b : Field, c : Field, f0 : Field, g0 : Field, h0 : Field,
                           for_server : {PRIO_SERVER_B},
                           seed : [1 .. PRG_SEED_LENGTH -> 0 .. Radix - 1]]
      [] k = "server"  -> [data_shares : Arrays(NumFields)]
      [] k = "verify1" -> [share_d : Field, share_e : Field]
      [] k = "verify2" -> [share_out : Field]
      [] k = "total"   -> [idx : Server, data_shares : Arrays(NumFields)]

ASSUME StreamAssumption ==
    /\ DOMAIN Sample = Kind
    /\ \A k \in Kind : Sample[k] \subseteq Shape(k)
    /\ BatchIds \subseteq Seq(0 .. Radix - 1)
    /\ MaxWrites \in Nat /\ MaxReads \in Nat

VARIABLES
    stream,      \* the objects written and not yet read
    writerId,    \* the batch id the writer's configuration was made with
    readerId,    \* the batch id the reader's configuration was made with
    obj,         \* the reader's object of each kind
    state,       \* per kind: "new", or what the last read into it returned
    pending,     \* objects written and not yet read, while the stream is as written
    intact,      \* nothing was cut, altered or read as another kind
    last,        \* the last read: [kind, rv, want], want the object that was written
    writes, reads

streamVars == <<stream, writerId, readerId, obj, state, pending, intact, last, writes, reads>>

(* PrioPacketClient_new, PrioServer_new, ...: all numbers are zero.        *)
(* PrioTotalShare_new makes an empty array and leaves idx uninitialised.   *)
NoId == 2

Fresh(k) ==
    CASE k = "packetA" -> [a |-> 0, b |-> 0, c |-> 0, f0 |-> 0, g0 |-> 0, h0 |-> 0,
                           for_server |-> PRIO_SERVER_A, data_shares |-> MPArray_new(NumFields),
                           h_points |-> MPArray_new(PrioConfig_hPoints)]
      [] k = "packetB" -> [a |-> 0, b |-> 0, c |-> 0, f0 |-> 0, g0 |-> 0, h0 |-> 0,
                           for_server |-> PRIO_SERVER_B,
                           seed |-> [i \in 1 .. PRG_SEED_LENGTH |-> 0]]
      [] k = "server"  -> [data_shares |-> MPArray_new(NumFields)]
      [] k = "verify1" -> [share_d |-> 0, share_e |-> 0]
      [] k = "verify2" -> [share_out |-> 0]
      [] k = "total"   -> [idx |-> NoId, data_shares |-> <<>>]

NoRead == [kind |-> "none", rv |-> TRUE, want |-> <<>>]

StreamInit ==
    /\ stream = <<>>
    /\ writerId \in BatchIds /\ readerId \in BatchIds
    /\ obj = [k \in Kind |-> Fresh(k)]
    /\ state = [k \in Kind |-> "new"]
    /\ pending = <<>> /\ intact = TRUE
    /\ last = NoRead
    /\ writes = 0 /\ reads = 0

Written(k, x) ==
    CASE k \in {"packetA", "packetB"} -> serial_write_packet_client(x, cfg_batch_id(writerId))
      [] k = "server"  -> PrioServer_write(x)
      [] k = "verify1" -> PrioPacketVerify1_write(x)
      [] k = "verify2" -> PrioPacketVerify2_write(x)
      [] k = "total"   -> PrioTotalShare_write(x)

Write(k) ==
    /\ writes < MaxWrites
    /\ writes' = writes + 1
    /\ \E x \in Sample[k] :
           /\ stream' = stream \o Written(k, x)
           /\ pending' = Append(pending, [kind |-> k, p |-> x])
    /\ UNCHANGED <<writerId, readerId, obj, state, intact, last, reads>>

Result(k, c) ==
    CASE k \in {"packetA", "packetB"} -> serial_read_packet_client(c, cfg_batch_id(readerId))
      [] k = "server"  -> PrioServer_read(c)
      [] k = "verify1" -> PrioPacketVerify1_read(c)
      [] k = "verify2" -> PrioPacketVerify2_read(c)
      [] k = "total"   -> PrioTotalShare_read(c)

Read(k) ==
    LET res     == Result(k, Cursor(stream, obj[k]))
        matches == intact /\ pending # <<>> /\ pending[1].kind = k
    IN  /\ reads < MaxReads
        /\ reads' = reads + 1
        /\ stream' = res.in
        /\ obj' = [obj EXCEPT ![k] = res.p]
        /\ state' = [state EXCEPT ![k] = IF res.ok THEN "success" ELSE "failure"]
        /\ last' = [kind |-> k, rv |-> res.ok,
                    want |-> IF matches THEN <<pending[1].p>> ELSE <<>>]
        /\ intact' = (matches /\ res.ok)
        /\ pending' = IF matches THEN Tail(pending) ELSE <<>>
        /\ UNCHANGED <<writerId, readerId, writes>>

(* What may become of one object of the stream: another type, a string     *)
(* that is too large a number or the empty string, an integer past the     *)
(* range of int, an array one element shorter, or with its last element    *)
(* altered.                                                                *)
Altered(o) ==
    {Nil} \cup
    CASE o.type = "str"   -> {Str(mp_to_octets(Modulus)), Str(<<0>> \o o.str), Str(<<>>)}
      [] o.type = "int"   -> {PosInt(o.int + IntRange), PosInt(1 - o.int), PosInt(o.int + 2)}
      [] o.type = "array" /\ o.array # <<>> ->
                             {Arr(Front(o.array)),
                              Arr(Append(Front(o.array), Str(mp_to_octets(Modulus)))),
                              Arr(<<Nil>> \o Tail(o.array))}
      [] OTHER            -> {}

(* External: storage or network return something else than was written. *)
Tamper ==
    /\ intact /\ stream # <<>>
    /\ intact' = FALSE /\ pending' = <<>>
    /\ \/ stream' = Front(stream)
       \/ \E i \in DOMAIN stream : \E o \in Altered(stream[i]) :
              stream' = [stream EXCEPT ![i] = o]
    /\ UNCHANGED <<writerId, readerId, obj, state, last, writes, reads>>

(* External: both ends start over with an empty stream; the reader keeps   *)
(* the objects it has.                                                     *)
Reconnect ==
    /\ ~intact
    /\ stream' = <<>> /\ pending' = <<>> /\ intact' = TRUE
    /\ UNCHANGED <<writerId, readerId, obj, state, last, writes, reads>>

Done == writes = MaxWrites /\ reads = MaxReads /\ UNCHANGED streamVars

StreamNext == (\E k \in Kind : Write(k) \/ Read(k)) \/ Tamper \/ Reconnect \/ Done

StreamSpec == StreamInit /\ [][StreamNext]_streamVars

-----------------------------------------------------------------------------
(* Properties *)

SameBatch == cfg_batch_id(writerId) = cfg_batch_id(readerId)

(* Reading what was written, in the order it was written, succeeds and     *)
(* gives it back, whatever an earlier read, good or bad, left in the       *)
(* reader's object; a packet of another batch is refused.                  *)
RoundTrip ==
    last.want # <<>> =>
        IF SameBatch \/ last.kind \notin {"packetA", "packetB"}
        THEN last.rv /\ obj[last.kind] = last.want[1]
        ELSE ~last.rv

InField(arr, len) == Len(arr) = len /\ \A i \in 1 .. len : arr[i] \in Field

WellShaped(k) ==
    LET p == obj[k]
    IN  /\ \A f \in DOMAIN p \cap {"a", "b", "c", "f0", "g0", "h0", "share_d", "share_e",
                                   "share_out"} : p[f] \in Field
        /\ "h_points" \in DOMAIN p => InField(p.h_points, PrioConfig_hPoints)
        /\ "data_shares" \in DOMAIN p /\ state[k] = "success" => InField(p.data_shares, NumFields)
        /\ "seed" \in DOMAIN p => Len(p.seed) = PRG_SEED_LENGTH
        /\ k = "packetA" => p.for_server = PRIO_SERVER_A
        /\ k = "packetB" => p.for_server = PRIO_SERVER_B
        /\ k = "total" /\ state[k] = "success" => p.idx \in Server

(* What a reader accepts, of any stream whatever, is what the rest of the  *)
(* library relies on: arrays of the configured lengths, reduced numbers,   *)
(* an id of the right server.  After a failed read the object holds a mix  *)
(* of old and new, and numbers that were never compared with the modulus,  *)
(* until a later read succeeds.                                            *)
SoundUnlessFailed == \A k \in Kind : state[k] # "failure" => WellShaped(k)
=============================================================================
