----------------------------- MODULE PrioSerial -----------------------------
(***************************************************************************)
(* Serialization (prio/serial.c): what each writer appends to a MessagePack *)
(* stream and what each reader makes of one.                               *)
(*                                                                         *)
(* A stream is a sequence of MessagePack objects; one that was cut inside  *)
(* an object ends before it.  A reader works on a cursor: the objects still *)
(* to come, the C object being filled in (a record), and whether every     *)
(* call so far has succeeded.  What was filled in before a failure stays.  *)
(***************************************************************************)
EXTENDS PrioSnip, PrioOctets, SequencesExt

CONSTANTS
    PRG_SEED_LENGTH,
    IntRange     \* 2^w for the w bits of a C int

ASSUME SerialAssumption ==
    PRG_SEED_LENGTH \in Nat /\ IntRange \in Nat \ {0, 1}

(* MessagePack objects *)
Str(octets) == [type |-> "str", str |-> octets]
PosInt(n)   == [type |-> "int", int |-> n]
Arr(objs)   == [type |-> "array", array |-> objs]
Nil         == [type |-> "nil"]

-----------------------------------------------------------------------------
(* PrioConfig_new copies the batch id with strncpy: from the first zero    *)
(* octet on, the copy is zero.                                             *)
cfg_batch_id(b) == [i \in DOMAIN b |-> IF \E j \in 1 .. i : b[j] = 0 THEN 0 ELSE b[i]]

-----------------------------------------------------------------------------
(* Writers *)

serial_write_mp_int(n) == Str(mp_to_octets(n))

serial_write_mp_array(arr) == Arr([i \in DOMAIN arr |-> serial_write_mp_int(arr[i])])

(* Mutant: b and c change places. *)
serial_write_beaver_triple_Swapped(p) ==
    <<serial_write_mp_int(p.a), serial_write_mp_int(p.c), serial_write_mp_int(p.b)>>

serial_write_beaver_triple(p) ==
    <<serial_write_mp_int(p.a), serial_write_mp_int(p.b), serial_write_mp_int(p.c)>>

serial_write_server_a_data(p) ==
    <<serial_write_mp_array(p.data_shares), serial_write_mp_array(p.h_points)>>

serial_write_prg_seed(seed) == Str(seed)

serial_write_server_b_data(p) == <<serial_write_prg_seed(p.seed)>>

serial_write_packet_client(p, batch_id) ==
       <<Str(batch_id)>> \o serial_write_beaver_triple(p)
    \o <<serial_write_mp_int(p.f0), serial_write_mp_int(p.g0), serial_write_mp_int(p.h0)>>
    \o <<PosInt(p.for_server)>>
    \o IF p.for_server = PRIO_SERVER_A THEN serial_write_server_a_data(p)
                                       ELSE serial_write_server_b_data(p)

PrioServer_write(p) == <<serial_write_mp_array(p.data_shares)>>

PrioPacketVerify1_write(p) == <<serial_write_mp_int(p.share_d), serial_write_mp_int(p.share_e)>>

PrioPacketVerify2_write(p) == <<serial_write_mp_int(p.share_out)>>

PrioTotalShare_write(p) == <<PosInt(p.idx), serial_write_mp_array(p.data_shares)>>

-----------------------------------------------------------------------------
(* Readers *)

Cursor(stream, p) == [ok |-> TRUE, in |-> stream, p |-> p]

Failed(c) == [c EXCEPT !.ok = FALSE]

(* msgpack_unpacker_next, then Use: nothing happens after a failure, and a *)
(* stream with no complete object left is one.                             *)
Unpack(c, Use(_, _)) ==
    IF c.ok /\ c.in # <<>> THEN Use([c EXCEPT !.in = Tail(@)], Head(c.in)) ELSE Failed(c)

(* A non-empty string is stored in the integer before it is compared with  *)
(* the modulus.                                                            *)
Stores(obj) == obj.type = "str" /\ obj.str # <<>>
Fits(obj)   == Stores(obj) /\ mp_read_unsigned_octets(obj.str) < Modulus

object_to_mp_int(obj, n) == IF Stores(obj) THEN mp_read_unsigned_octets(obj.str) ELSE n

serial_read_mp_int(c, field) ==
    Unpack(c, LAMBDA d, obj :
        [d EXCEPT !.p[field] = object_to_mp_int(obj, @), !.ok = Fits(obj)])

(* Mutant: numbers are not compared with the modulus. *)
serial_read_mp_array_Unchecked(c, field, len) ==
    Unpack(c, LAMBDA d, obj :
        IF obj.type # "array" THEN Failed(d)
        ELSE IF Len(obj.array) # len THEN Failed(d)
        ELSE [d EXCEPT !.p[field] = Array(len, LAMBDA i : object_to_mp_int(obj.array[i], 0))])

(* The array is resized, then filled up to the first element that is not   *)
(* a number below the modulus; that element, too, is stored if it is a     *)
(* number.                                                                 *)
serial_read_mp_array(c, field, len) ==
    Unpack(c, LAMBDA d, obj :
        IF obj.type # "array" THEN Failed(d)
        ELSE IF Len(obj.array) # len THEN Failed(d)
        ELSE LET old     == MPArray_resize(d.p[field], len)
                 read(i) == \A j \in 1 .. i - 1 : Fits(obj.array[j])
             IN  [d EXCEPT !.p[field] = Array(len, LAMBDA i :
                               IF read(i) THEN object_to_mp_int(obj.array[i], old[i])
                                          ELSE old[i]),
                           !.ok = read(len + 1)])

serial_read_beaver_triple(c) ==
    serial_read_mp_int(serial_read_mp_int(serial_read_mp_int(c, "a"), "b"), "c")

serial_read_server_a_data(c) ==
    serial_read_mp_array(serial_read_mp_array(c, "data_shares", NumFields),
                         "h_points", PrioConfig_hPoints)

serial_read_prg_seed(c) ==
    Unpack(c, LAMBDA d, obj :
        IF obj.type # "str" THEN Failed(d)
        ELSE IF Len(obj.str) # PRG_SEED_LENGTH THEN Failed(d)
        ELSE [d EXCEPT !.p.seed = obj.str])

serial_read_server_b_data(c) == serial_read_prg_seed(c)

(* The 64-bit integer of the stream is assigned to an int. *)
serial_read_int(obj) == obj.int % IntRange

(* A server's id is stored in the field if it is one the caller expects. *)
serial_read_server_id(c, field, expected) ==
    Unpack(c, LAMBDA d, obj :
        IF obj.type # "int" THEN Failed(d)
        ELSE IF serial_read_int(obj) \notin Server \cap expected THEN Failed(d)
        ELSE [d EXCEPT !.p[field] = serial_read_int(obj)])

serial_read_batch_id(c, batch_id) ==
    Unpack(c, LAMBDA d, obj : IF obj = Str(batch_id) THEN d ELSE Failed(d))

serial_read_packet_client(c, batch_id) ==
    LET c1 == serial_read_beaver_triple(serial_read_batch_id(c, batch_id))
        c2 == serial_read_mp_int(serial_read_mp_int(serial_read_mp_int(c1, "f0"), "g0"), "h0")
        c3 == serial_read_server_id(c2, "for_server", {c.p.for_server})
    IN  IF c.p.for_server = PRIO_SERVER_A THEN serial_read_server_a_data(c3)
                                          ELSE serial_read_server_b_data(c3)

PrioServer_read(c) == serial_read_mp_array(c, "data_shares", NumFields)

PrioPacketVerify1_read(c) ==
    serial_read_mp_int(serial_read_mp_int(c, "share_d"), "share_e")

PrioPacketVerify2_read(c) == serial_read_mp_int(c, "share_out")

PrioTotalShare_read(c) ==
    serial_read_mp_array(serial_read_server_id(c, "idx", Server), "data_shares", NumFields)
=============================================================================
