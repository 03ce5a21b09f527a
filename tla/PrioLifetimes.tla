--------------------------- MODULE PrioLifetimes ---------------------------
(***************************************************************************)
(* What every function of prio/ allocates, and what it releases when a     *)
(* step fails.  A function is a list of steps that ends at its cleanup     *)
(* label; each allocation and each call it checks may fail, and the macros *)
(* of prio/util.h jump to the label (P_CHECKA, P_CHECKC, P_CHECKCB,        *)
(* MP_CHECKC, UP_CHECKC) or return at once (P_CHECK, MP_CHECK).  A pointer *)
(* nobody has set is garbage, and releasing it is undefined.  The values   *)
(* that are computed are left out, and a loop is two turns of its body.    *)
(***************************************************************************)
EXTENDS Naturals, Sequences

CONSTANT Callees   \* the functions of Table that run

Null(xs) == [do |-> "null", of |-> xs]      \* the pointers xs are set to NULL
Own(x)   == [do |-> "own", of |-> {x}]      \* an allocation; P_CHECKA or MP_CHECKC
Owns(xs) == [do |-> "own", of |-> xs]       \* a call that fills several pointers
New(x)   == [do |-> "new", of |-> {x}]      \* an allocation; if (!x) return
Free(xs) == [do |-> "free", of |-> xs]      \* xs are released and set to NULL
Checked  == [do |-> "own", of |-> {}]       \* a call that is checked
CheckedRet == [do |-> "new", of |-> {}]       \* a call that is checked by P_CHECK or MP_CHECK
Ignored  == [do |-> "ignored", of |-> {}]   \* a call whose result is not looked at

(* A constructor: what a clear function releases on failure is what the    *)
(* caller owns on success.                                                 *)
Constructor(body, xs) ==
    [body |-> body, inputs |-> {}, keeps |-> xs, onFail |-> xs, always |-> {}, rv |-> TRUE]

(* A function with local objects, released in any case. *)
Local(body, xs) ==
    [body |-> body, inputs |-> {}, keeps |-> {}, onFail |-> {}, always |-> xs, rv |-> TRUE]

-----------------------------------------------------------------------------
(* mparray.c, share.c *)

MPArray_new ==
    Constructor(<<New("arr"), Null({"data"}), Own("data"), Null({"data1", "data2"}),
                  Own("data1"), Own("data2")>>, {"data1", "data2", "data", "arr"})

(* The old array stays until the new one is complete. *)
MPArray_resize ==
    [body   |-> <<New("newdata"), Null({"new1", "new2"}), Own("new1"), Own("new2"), Checked, Checked,
                  Free({"data1", "data2", "data"})>>,
     inputs |-> {"data1", "data2", "data"}, keeps |-> {"new1", "new2", "newdata"},
     onFail |-> {"new1", "new2", "newdata"}, always |-> {}, rv |-> TRUE]

MPArray_dup == Constructor(<<New("dst"), Checked>>, {"dst"})

(* Mutant: c is not set to NULL first. *)
BeaverTriple_new_Garbage ==
    Constructor(<<New("triple"), Null({"a", "b"}), Own("a"), Own("b"), Own("c")>>,
                {"a", "b", "c", "triple"})

BeaverTriple_new ==
    Constructor(<<New("triple"), Null({"a", "b", "c"}), Own("a"), Own("b"), Own("c")>>,
                {"a", "b", "c", "triple"})

-----------------------------------------------------------------------------
(* config.c, prg.c, rand.c, poly.c *)

PrioConfig_new ==
    Constructor(<<New("cfg"), Null({"batch_id", "modulus", "inv2", "generator"}), Checked,
                  Own("batch_id"), Own("modulus"), Checked, Own("generator"), Checked,
                  Own("inv2"), Checked>>,
                {"batch_id", "modulus", "inv2", "generator", "cfg"})

prg_seed_from_config_and_shared_secret == Local(<<Null({"ctx"}), Own("ctx"), Checked>>, {"ctx"})

(* The result of prg_seed_from_config_and_shared_secret is not looked at. *)
PRG_new ==
    Constructor(<<New("prg"), Null({"slot", "key", "ctx"}), Own("slot"), Ignored,
                  Own("key"), Own("ctx")>>, {"slot", "key", "ctx", "prg"})

PRG_get_bytes_internal == Local(<<Null({"in"}), Own("in"), Checked>>, {"in"})

PRG_get_int_range == Local(<<Null({"width"}), Own("width"), Checked, Checked, Checked>>, {"width"})

PRG_share_int == Local(<<Null({"tmp"}), Own("tmp"), Checked, Checked>>, {"tmp"})

rand_int_rng ==
    Local(<<Null({"max_bytes", "buf"}), Checked, Own("max_bytes"), Checked, Own("buf"), Checked, Checked, Checked>>,
          {"max_bytes", "buf"})

(* n_inverse is declared after the first three jumps to cleanup. *)
fft_interpolate_raw ==
    Local(<<Null({"tmp", "ySub", "rootsSub"}), Own("tmp"), Own("ySub"), Own("rootsSub"),
            Null({"n_inverse"}), Checked, Own("n_inverse"), Checked, Checked>>,
          {"tmp", "ySub", "rootsSub", "n_inverse"})

(* cleanup ends with return SECSuccess. *)
poly_fft ==
    [Local(<<Null({"scaled_roots"}), Own("scaled_roots"), Checked, Checked>>, {"scaled_roots"})
        EXCEPT !.rv = FALSE]

poly_interp_evaluate == Local(<<Null({"coeffs"}), Own("coeffs"), Checked, Checked>>, {"coeffs"})

-----------------------------------------------------------------------------
(* encrypt.c *)

PublicKey_import ==
    [Constructor(<<Null({"pk", "key_bytes", "spki_data", "pkinfo"}), CheckedRet, Own("key_bytes"),
                   Own("spki_data"), Own("pkinfo"), Own("pk")>>, {"pk"})
        EXCEPT !.always = {"key_bytes", "spki_data", "pkinfo"}]

PrivateKey_import ==
    [Constructor(<<CheckedRet, Null({"sk", "slot", "zero_priv_data"}), Own("slot"),
                   Own("zero_priv_data"), Own("sk")>>, {"sk"})
        EXCEPT !.always = {"slot", "zero_priv_data"}]

PrivateKey_export == Local(<<CheckedRet, Null({"item"}), Own("item"), Checked>>, {"item"})

Keypair_new ==
    [Constructor(<<CheckedRet, Null({"pubkey", "pvtkey", "ecp", "slot"}), Checked, Own("ecp"),
                   Own("slot"), Owns({"pvtkey", "pubkey"})>>, {"pvtkey", "pubkey"})
        EXCEPT !.always = {"slot", "ecp"}]

PublicKey_encrypt ==
    Local(<<CheckedRet, Null({"eph_pub", "eph_priv", "aes_key"}), Checked, Owns({"eph_priv", "eph_pub"}),
            Own("aes_key"), Checked, Checked>>, {"eph_pub", "eph_priv", "aes_key"})

PrivateKey_decrypt ==
    Local(<<Null({"aes_key", "eph_pub"}), CheckedRet, Own("eph_pub"), Own("aes_key"), Checked>>,
          {"eph_pub", "aes_key"})

-----------------------------------------------------------------------------
(* client.c *)

data_polynomial_evals ==
    Local(<<Null({"points_f", "poly_f"}), Own("points_f"), Own("poly_f"),
            Checked, Checked, Checked, Checked, Checked, Checked, Checked>>, {"points_f", "poly_f"})

share_polynomials ==
    LET locals == {"f0", "g0", "points_g", "evals_f_2N", "evals_g_2N"}
    IN  Local(<<Null(locals), Own("points_g"), Own("evals_f_2N"), Own("evals_g_2N"), Own("f0"),
                Own("g0"), Checked, Checked, Checked, Checked, Checked, Checked, Checked, Checked>>, locals)

(* The arrays are in the packet for server A only. *)
PrioPacketClient_new(for_server) ==
    LET arrays == IF for_server = "A" THEN {"data_shares", "h_points"} ELSE {}
        fields == {"triple", "f0_share", "g0_share", "h0_share"} \cup arrays
    IN  Constructor(<<New("p"), Null(fields), Own("f0_share"), Own("g0_share"), Own("h0_share"),
                      Own("triple")>>
                    \o (IF for_server = "A" THEN <<Own("data_shares"), Own("h_points")>> ELSE <<>>),
                    fields \cup {"p"})

PrioPacketClient_set_data ==
    Local(<<Null({"client_data", "prgB"}), CheckedRet, Checked, Own("prgB"), Checked, Own("client_data"),
            Checked, Checked>>, {"client_data", "prgB"})

(* The two buffers go to the caller, and are NULL after a failure. *)
PrioClient_encode ==
    [Constructor(<<Null({"pA", "pB", "for_server_a", "for_server_b"}), Owns({"sbufA", "sbufB"}),
                   Own("pA"), Own("pB"), Checked, Checked, Checked, Checked, Checked,
                   Own("for_server_a"), Own("for_server_b"), Checked, Checked, Checked>>,
                 {"for_server_a", "for_server_b"})
        EXCEPT !.always = {"pA", "pB", "sbufA", "sbufB"}]

PrioClient_encode_uint ==
    Local(<<Null({"data_bool"}), Checked, Own("data_bool"), Checked, Checked>>, {"data_bool"})

PrioPacketClient_decrypt == Local(<<New("upk"), Checked, Checked>>, {"upk"})

-----------------------------------------------------------------------------
(* server.c *)

PrioServer_new ==
    Constructor(<<New("s"), Null({"data_shares", "prg"}), Own("data_shares"), Own("prg")>>,
                {"data_shares", "prg", "s"})

PrioTotalShare_new ==
    [Constructor(<<New("t"), Own("data_shares")>>, {"data_shares", "t"}) EXCEPT !.onFail = {"t"}]

PrioTotalShare_set_data_uint ==
    Local(<<Null({"tmp"}), Own("tmp"), Checked, Checked, Checked, Checked>>, {"tmp"})

PrioTotalShare_final == Local(<<CheckedRet, Null({"tmp"}), Own("tmp"), Checked, Checked>>, {"tmp"})

PrioTotalShare_final_uint == Local(<<Null({"uint_cfg"}), Own("uint_cfg"), Checked>>, {"uint_cfg"})

compute_shares_locals == {"eval_at", "lower", "points_f", "points_g", "points_h"}

compute_shares_body ==
    <<Null(compute_shares_locals), Own("eval_at"), Own("lower"), Own("points_f"), Own("points_g"),
      Own("points_h"), Checked, Checked, Checked, Checked, Checked, Checked, Checked, Checked>>

(* Mutant: cleanup ends with return SECSuccess. *)
compute_shares_Silent == [Local(compute_shares_body, compute_shares_locals) EXCEPT !.rv = FALSE]

compute_shares == Local(compute_shares_body, compute_shares_locals)

PrioVerifier_new(idx) ==
    LET shares == {"share_fR", "share_gR", "share_hR"}
        fields == shares \cup {"clientp", "data_sharesB", "h_pointsB"}
        owned  == IF idx = "B" THEN fields ELSE fields \ {"data_sharesB", "h_pointsB"}
    IN  [Constructor(<<New("v"), Null(fields), Own("share_fR"), Own("share_gR"), Own("share_hR"),
                       Own("clientp")>>
                     \o (IF idx = "B" THEN <<Own("data_sharesB"), Own("h_pointsB")>> ELSE <<>>),
                     owned \cup {"v"}) EXCEPT !.onFail = fields \cup {"v"}]

(* The checks of the packet return before prgB is made. *)
PrioVerifier_set_data ==
    Local(<<Null({"prgB"}), Checked, CheckedRet, Own("prgB"), Checked, Checked, Checked>>, {"prgB"})

PrioPacketVerify1_new ==
    Constructor(<<New("p"), Null({"share_d", "share_e"}), Own("share_d"), Own("share_e")>>,
                {"share_d", "share_e", "p"})

PrioPacketVerify2_new ==
    Constructor(<<New("p"), Null({"share_out"}), Own("share_out")>>, {"share_out", "p"})

PrioPacketVerify2_set_data ==
    Local(<<Null({"d", "e", "tmp"}), Own("d"), Own("e"), Own("tmp"), Checked, Checked, Checked>>,
          {"d", "e", "tmp"})

PrioVerifier_isValid == Local(<<Null({"res"}), Own("res"), Checked>>, {"res"})

-----------------------------------------------------------------------------
(* serial.c *)

serial_write_mp_int == Local(<<Null({"data"}), Own("data"), Checked, Checked, Checked>>, {"data"})

(* msgpack_unpacker_next fills res; all the readers are alike. *)
serial_read == Local(<<Null({"res"}), Checked, Own("res"), Checked, Checked>>, {"res"})

-----------------------------------------------------------------------------
(* pclient/main.c, pclient_uint/main.c *)

(* The demonstration: the objects of a run, and the buffers of two clients. *)
verify_full ==
    LET seqOf  == <<"output", "data_items", "cfg", "sA", "sB", "vA", "vB", "tA", "tB",
                    "p1A", "p1B", "p2A", "p2B">>
        keys   == <<Owns({"skA", "pkA"}), Owns({"skB", "pkB"})>>
        bufs   == {"for_server_a", "for_server_b"}
        client == <<Owns(bufs), Checked, Checked, Checked, Checked, Free(bufs), Checked, Checked>>
        all    == {seqOf[i] : i \in DOMAIN seqOf} \cup {"skA", "pkA", "skB", "pkB"} \cup bufs
        own(from, to) == [i \in 1 .. to - from + 1 |-> Own(seqOf[from + i - 1])]
    IN  Local(<<Null(all), Checked>> \o own(1, 2) \o keys \o own(3, 3) \o <<Checked>> \o own(4, 13)
                  \o client \o client, all)

Table ==
    [MPArray_new |-> MPArray_new, MPArray_resize |-> MPArray_resize, MPArray_dup |-> MPArray_dup,
     BeaverTriple_new |-> BeaverTriple_new, PrioConfig_new |-> PrioConfig_new,
     prg_seed_from_config_and_shared_secret |-> prg_seed_from_config_and_shared_secret,
     PRG_new |-> PRG_new, PRG_get_bytes_internal |-> PRG_get_bytes_internal,
     PRG_get_int_range |-> PRG_get_int_range, PRG_share_int |-> PRG_share_int,
     rand_int_rng |-> rand_int_rng, fft_interpolate_raw |-> fft_interpolate_raw,
     poly_fft |-> poly_fft, poly_interp_evaluate |-> poly_interp_evaluate,
     PublicKey_import |-> PublicKey_import, PrivateKey_import |-> PrivateKey_import,
     PrivateKey_export |-> PrivateKey_export, Keypair_new |-> Keypair_new,
     PublicKey_encrypt |-> PublicKey_encrypt, PrivateKey_decrypt |-> PrivateKey_decrypt,
     data_polynomial_evals |-> data_polynomial_evals, share_polynomials |-> share_polynomials,
     PrioPacketClient_newA |-> PrioPacketClient_new("A"),
     PrioPacketClient_newB |-> PrioPacketClient_new("B"),
     PrioPacketClient_set_data |-> PrioPacketClient_set_data,
     PrioClient_encode |-> PrioClient_encode,
     PrioClient_encode_uint |-> PrioClient_encode_uint,
     PrioPacketClient_decrypt |-> PrioPacketClient_decrypt, PrioServer_new |-> PrioServer_new,
     PrioTotalShare_set_data_uint |-> PrioTotalShare_set_data_uint,
     serial_write_mp_int |-> serial_write_mp_int, serial_read |-> serial_read,
     PrioTotalShare_new |-> PrioTotalShare_new, PrioTotalShare_final |-> PrioTotalShare_final,
     PrioTotalShare_final_uint |-> PrioTotalShare_final_uint, compute_shares |-> compute_shares,
     PrioVerifier_newA |-> PrioVerifier_new("A"), PrioVerifier_newB |-> PrioVerifier_new("B"),
     PrioVerifier_set_data |-> PrioVerifier_set_data,
     PrioPacketVerify1_new |-> PrioPacketVerify1_new,
     PrioPacketVerify2_new |-> PrioPacketVerify2_new,
     PrioPacketVerify2_set_data |-> PrioPacketVerify2_set_data,
     PrioVerifier_isValid |-> PrioVerifier_isValid, verify_full |-> verify_full]

-----------------------------------------------------------------------------
VARIABLES
    fn,       \* the function that runs
    pc,       \* its next step; 0 after it has returned
    mem,      \* mem[x]: "garbage", "null" or "owned"
    failed,   \* a step has failed
    undef,    \* something that is garbage was released
    rv        \* what the function returned: "none", "success" or "failure"

lifeVars == <<fn, pc, mem, failed, undef, rv>>

f == Table[fn]

Fields(g) ==
    UNION {g.body[i].of : i \in DOMAIN g.body} \cup g.inputs \cup g.keeps \cup g.onFail \cup g.always

Memory(g) == [x \in Fields(g) |-> IF x \in g.inputs THEN "owned" ELSE "garbage"]

LifeInit ==
    /\ fn \in Callees
    /\ pc = 1 /\ failed = FALSE /\ undef = FALSE /\ rv = "none"
    /\ mem = Memory(Table[fn])

With(xs, v) == [x \in DOMAIN mem |-> IF x \in xs THEN v ELSE mem[x]]

(* An array that has no elements is released without looking at them. *)
Elements == IF fn = "MPArray_new" /\ mem["data"] # "owned" THEN {"data1", "data2"} ELSE {}

(* The cleanup label and the return statement, with the pointers as in m. *)
Cleanup(m, ok) ==
    LET xs == (f.always \cup (IF ok THEN {} ELSE f.onFail)) \ Elements
    IN  /\ undef' = (undef \/ \E x \in xs : m[x] = "garbage")
        /\ mem' = [x \in DOMAIN m |-> IF x \in xs THEN "null" ELSE m[x]]
        /\ rv' = IF ok \/ ~f.rv THEN "success" ELSE "failure"
        /\ pc' = 0

Running == pc \in 1 .. Len(f.body)

step == f.body[pc]

(* A step succeeds. *)
Step ==
    /\ Running
    /\ pc' = pc + 1
    /\ mem' = With(step.of, IF step.do \in {"own", "new"} THEN "owned" ELSE "null")
    /\ undef' = (undef \/ (step.do = "free" /\ \E x \in step.of : mem[x] = "garbage"))
    /\ UNCHANGED <<fn, failed, rv>>

(* A step fails and the macro jumps to cleanup, with NULL in the pointer. *)
FailStep ==
    /\ Running /\ step.do = "own"
    /\ Cleanup(With(step.of, "null"), FALSE)
    /\ failed' = TRUE
    /\ UNCHANGED fn

(* A step fails and the function returns at once. *)
FailReturn ==
    /\ Running /\ step.do = "new"
    /\ rv' = "failure" /\ pc' = 0 /\ failed' = TRUE
    /\ UNCHANGED <<fn, mem, undef>>

(* A call fails and nobody notices. *)
FailIgnored ==
    /\ Running /\ step.do = "ignored"
    /\ pc' = pc + 1 /\ failed' = TRUE
    /\ UNCHANGED <<fn, mem, undef, rv>>

(* The last step is done. *)
Return == pc = Len(f.body) + 1 /\ Cleanup(mem, TRUE) /\ UNCHANGED <<fn, failed>>

(* The next function is called. *)
Begin ==
    /\ pc = 0
    /\ fn' \in Callees
    /\ pc' = 1 /\ failed' = FALSE /\ undef' = FALSE /\ rv' = "none"
    /\ mem' = Memory(Table[fn'])

LifeNext == Begin \/ Step \/ FailStep \/ FailReturn \/ FailIgnored \/ Return

LifeSpec == LifeInit /\ [][LifeNext]_lifeVars

-----------------------------------------------------------------------------
(* Properties *)

Owned == {x \in DOMAIN mem : mem[x] = "owned"}

(* Wherever the first failure is, cleanup releases only pointers that were *)
(* set: to NULL, or to something that was allocated.                       *)
CleanupSafe == ~undef

(* A function that fails leaves its caller owning what it owned before,    *)
(* and one that succeeds adds exactly its result: nothing leaks, and       *)
(* nothing the caller will use is gone.                                    *)
NothingLeaks ==
    pc = 0 => Owned = IF rv = "success" THEN f.keeps ELSE f.inputs

(* util.h: "Check a Prio library call that should return SECSuccess."  A   *)
(* function in which something failed does not return success.             *)
ErrorsReported == pc = 0 /\ failed => rv = "failure"
=============================================================================
