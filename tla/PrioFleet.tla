------------------------------ MODULE PrioFleet ------------------------------
(***************************************************************************)
(* A batch fanned out over several workers, each a pair of servers, whose  *)
(* state is saved with PrioServer_write, restored with PrioServer_new and  *)
(* PrioServer_read after a crash, and collected with PrioServer_merge      *)
(* (prio/server.c, prio/serial.c, prio/prg.c).                             *)
(*                                                                         *)
(* One step decides a submission at both servers of a worker: that they    *)
(* decide alike is what PrioProtocol shows.  Which submission comes next,  *)
(* when state is saved and which workers are merged is up to the caller of *)
(* the library: it saves the two servers of a worker together and keeps    *)
(* its own place in the list with what it saves.                           *)
(***************************************************************************)
EXTENDS PrioSnip, FiniteSetsExt

CONSTANTS
    Worker,       \* the workers; the others are merged into Main
    Main,
    Config,       \* Config[w]: the configuration worker w was given
    Batch,        \* Batch[w]: its submissions, [honest, A, B] with A, B the data shares
    CrashSets,    \* which servers of a worker may stop together
    MaxCrashes,   \* bound on crashes
    CURVE25519_KEY_LEN  \* octets in a key

ASSUME FleetAssumption == Main \in Worker /\ MaxCrashes \in Nat

(* What a server holds of a submission: one reduced element for each field *)
(* of its configuration.                                                   *)
ASSUME BatchAssumption ==
    \A w \in Worker :
        LET n == Config[w].num_data_fields
        IN  /\ n \in Nat
            /\ Batch[w] \in Seq([honest : BOOLEAN, A : [1 .. n -> Field], B : [1 .. n -> Field]])

ASSUME KeyLenAssumption == CURVE25519_KEY_LEN \in Nat

(* What PrioConfig_new leaves in a configuration (config.c): the batch id  *)
(* is copied with strncpy, which writes zeros after the first zero.        *)
ZeroFilled(id) == \A i, j \in DOMAIN id : i < j /\ id[i] = 0 => id[j] = 0

(* The octets PublicKey_export writes; NULL is <<>>. *)
PublicKey == {<<>>} \cup [1 .. CURVE25519_KEY_LEN -> 0 .. 255]

ASSUME ConfigAssumption ==
    \A w \in Worker :
        /\ Config[w] = [server_a_pub    |-> Config[w].server_a_pub,
                        server_b_pub    |-> Config[w].server_b_pub,
                        num_data_fields |-> Config[w].num_data_fields,
                        modulus         |-> Config[w].modulus,
                        batch_id        |-> Config[w].batch_id]
        /\ Config[w].batch_id \in Seq(Nat) /\ ZeroFilled(Config[w].batch_id)
        /\ Config[w].server_a_pub \in PublicKey /\ Config[w].server_b_pub \in PublicKey

(* strncmp on octets: equal when they are equal up to a common zero. *)
strncmp_eq(a, b) ==
    \A i \in DOMAIN a : a[i] = b[i] \/ \E j \in 1 .. i - 1 : a[j] = 0 /\ b[j] = 0

(* The octets are compared as strings, though a key may hold a zero. *)
public_key_eq(pub, pub_other) ==
    IF pub = <<>> \/ pub_other = <<>> THEN pub = pub_other ELSE strncmp_eq(pub, pub_other)

(* Mutant: the number of fields is not compared. *)
server_eq_AnyFields(cfg, cfg_i) ==
    /\ public_key_eq(cfg.server_a_pub, cfg_i.server_a_pub)
    /\ public_key_eq(cfg.server_b_pub, cfg_i.server_b_pub)
    /\ Len(cfg.batch_id) = Len(cfg_i.batch_id)

(* Both servers of the pair compare; that the two have the same index is   *)
(* a matter of which ones are merged.                                      *)
server_eq(cfg, cfg_i) ==
    /\ public_key_eq(cfg.server_a_pub, cfg_i.server_a_pub)
    /\ public_key_eq(cfg.server_b_pub, cfg_i.server_b_pub)
    /\ cfg.num_data_fields = cfg_i.num_data_fields
    /\ cfg.modulus = cfg_i.modulus
    /\ Len(cfg.batch_id) = Len(cfg_i.batch_id)
    /\ strncmp_eq(cfg.batch_id, cfg_i.batch_id)

(* The seed is a hash of the shared secret (the same at all servers) and   *)
(* the batch id: injective here.  A PRG starts at the beginning.           *)
prg_seed_from_config_and_shared_secret(cfg) == cfg.batch_id

PRG_new(cfg) == [seed |-> prg_seed_from_config_and_shared_secret(cfg), pos |-> 0]

(* A server object; `ledger` is for the properties: how often each         *)
(* submission has been added to data_shares.                               *)
Id == UNION {{<<w, i>> : i \in DOMAIN Batch[w]} : w \in Worker}
NoneCounted == [c \in Id |-> 0]

PrioServer_new(cfg) ==
    [data_shares |-> MPArray_new(cfg.num_data_fields), prg |-> PRG_new(cfg),
     ledger |-> NoneCounted]

VARIABLES
    server,   \* server[w][s]: the server objects, Down when the process is not there
    disk,     \* disk[w]: what the two servers wrote, with the caller's place
    next,     \* next[w]: the caller's place in Batch[w]
    merged,   \* workers merged into Main
    refused,  \* workers PrioServer_merge refused
    ignored,  \* submissions rejected
    alone,    \* workers of which one server was restored while the other went on
    crashes

vars == <<server, disk, next, merged, refused, ignored, alone, crashes>>

Down == [data_shares |-> <<>>]
Up(w) == \A s \in Server : server[w][s] # Down

(* PrioServer_write: the data shares, nothing else. *)
PrioServer_write(srv) == [data_shares |-> srv.data_shares, ledger |-> srv.ledger]

(* Mutant: the shares are added to themselves. *)
PrioServer_read_Twice(srv, saved) ==
    [srv EXCEPT !.data_shares = MPArray_addmod(saved.data_shares, saved.data_shares),
                !.ledger = saved.ledger]

PrioServer_read(srv, saved) ==
    [srv EXCEPT !.data_shares = saved.data_shares, !.ledger = saved.ledger]

Init ==
    /\ server = [w \in Worker |-> [s \in Server |-> PrioServer_new(Config[w])]]
    /\ disk = [w \in Worker |-> [st     |-> [s \in Server |-> PrioServer_write(server[w][s])],
                                 next   |-> 1,
                                 merged |-> {}]]
    /\ next = [w \in Worker |-> 1]
    /\ merged = {} /\ refused = {} /\ ignored = {} /\ alone = {}
    /\ crashes = 0

-----------------------------------------------------------------------------
ShareOf(s, c) == IF s = PRIO_SERVER_A THEN Batch[c[1]][c[2]].A ELSE Batch[c[1]][c[2]].B

PrioServer_aggregate(srv, s, c) ==
    [srv EXCEPT !.data_shares = MPArray_addmod(@, ShareOf(s, c)), !.ledger[c] = @ + 1]

(* Mutant: only server A draws. *)
Decide_OnlyADraws(w) ==
    /\ Up(w)
    /\ next[w] \in DOMAIN Batch[w]
    /\ LET c     == <<w, next[w]>>
           drawn == [server[w] EXCEPT ![PRIO_SERVER_A].prg.pos = @ + 1]
           same  == server[w][PRIO_SERVER_A].prg = server[w][PRIO_SERVER_B].prg
       IN  \/ /\ server' = [server EXCEPT ![w] =
                                [s \in Server |-> PrioServer_aggregate(drawn[s], s, c)]]
              /\ UNCHANGED ignored
           \/ /\ ~(Batch[w][next[w]].honest /\ same)
              /\ server' = [server EXCEPT ![w] = drawn]
              /\ ignored' = ignored \cup {c}
    /\ next' = [next EXCEPT ![w] = @ + 1]
    /\ UNCHANGED <<disk, merged, refused, alone, crashes>>

(* Both servers draw a point and check the submission there.  An honest    *)
(* one passes when the points are the same; otherwise the sum of the two   *)
(* second packets may or may not be zero.                                  *)
Decide(w) ==
    /\ Up(w)
    /\ next[w] \in DOMAIN Batch[w]
    /\ LET c     == <<w, next[w]>>
           drawn == [s \in Server |-> [server[w][s] EXCEPT !.prg.pos = @ + 1]]
           same  == server[w][PRIO_SERVER_A].prg = server[w][PRIO_SERVER_B].prg
       IN  \/ /\ server' = [server EXCEPT ![w] =
                                [s \in Server |-> PrioServer_aggregate(drawn[s], s, c)]]
              /\ UNCHANGED ignored
           \/ /\ ~(Batch[w][next[w]].honest /\ same)
              /\ server' = [server EXCEPT ![w] = drawn]
              /\ ignored' = ignored \cup {c}
    /\ next' = [next EXCEPT ![w] = @ + 1]
    /\ UNCHANGED <<disk, merged, refused, alone, crashes>>

(* The caller saves both servers and its own place. *)
Save(w) ==
    /\ Up(w)
    /\ disk' = [disk EXCEPT ![w] = [st     |-> [s \in Server |-> PrioServer_write(server[w][s])],
                                    next   |-> next[w],
                                    merged |-> IF w = Main THEN merged ELSE {}]]
    /\ UNCHANGED <<server, next, merged, refused, ignored, alone, crashes>>

(* The servers in S stop.  If only one does, it is because the other has   *)
(* nothing to undo: both are where they were saved.                        *)
Crash(w) ==
    /\ crashes < MaxCrashes
    /\ Up(w)
    /\ \E S \in CrashSets :
           /\ S # Server => /\ disk[w].next = next[w]
                            /\ w = Main => disk[w].merged = merged
           /\ server' = [server EXCEPT ![w] =
                             [s \in Server |-> IF s \in S THEN Down ELSE server[w][s]]]
    /\ crashes' = crashes + 1
    /\ UNCHANGED <<disk, next, merged, refused, ignored, alone>>

(* Mutant: the state is read, the caller's place is not. *)
Restore_KeepsPlace(w) ==
    /\ ~Up(w)
    /\ server' = [server EXCEPT ![w] = [s \in Server |->
           IF server[w][s] = Down
           THEN PrioServer_read(PrioServer_new(Config[w]), disk[w].st[s])
           ELSE server[w][s]]]
    /\ alone' = IF \E s \in Server : server[w][s] # Down THEN alone \cup {w} ELSE alone
    /\ UNCHANGED <<disk, next, merged, refused, ignored, crashes>>

(* A stopped server is made anew and reads its state; the caller returns   *)
(* to the place it saved.                                                  *)
Restore(w) ==
    /\ ~Up(w)
    /\ server' = [server EXCEPT ![w] = [s \in Server |->
           IF server[w][s] = Down
           THEN PrioServer_read(PrioServer_new(Config[w]), disk[w].st[s])
           ELSE server[w][s]]]
    /\ next' = [next EXCEPT ![w] = disk[w].next]
    /\ merged' = IF w = Main THEN disk[w].merged ELSE merged
    /\ ignored' = {c \in ignored : c[1] = w => c[2] < disk[w].next}
    /\ alone' = IF \E s \in Server : server[w][s] # Down THEN alone \cup {w} ELSE alone
    /\ UNCHANGED <<disk, refused, crashes>>

(* A worker that is through with its list is merged into Main, server A    *)
(* into server A and server B into server B.                               *)
PrioServer_merge(srv, srv_i) ==
    [srv EXCEPT !.data_shares = MPArray_addmod(@, srv_i.data_shares),
                !.ledger = [c \in Id |-> @[c] + srv_i.ledger[c]]]

Merge(w) ==
    /\ w \notin {Main} \cup merged \cup refused
    /\ Up(Main) /\ Up(w)
    /\ next[w] = Len(Batch[w]) + 1
    /\ IF server_eq(Config[Main], Config[w])
       THEN /\ server' = [server EXCEPT ![Main] = [s \in Server |->
                              PrioServer_merge(server[Main][s], server[w][s])]]
            /\ merged' = merged \cup {w}
            /\ UNCHANGED refused
       ELSE /\ refused' = refused \cup {w}
            /\ UNCHANGED <<server, merged>>
    /\ UNCHANGED <<disk, next, ignored, alone, crashes>>

Finished ==
    /\ \A w \in Worker : next[w] = Len(Batch[w]) + 1 /\ Up(w)
    /\ merged \cup refused = Worker \ {Main}

Done == Finished /\ UNCHANGED vars

Next == (\E w \in Worker : Decide(w) \/ Save(w) \/ Crash(w) \/ Restore(w) \/ Merge(w)) \/ Done

Spec == Init /\ [][Next]_vars

(* The caller goes on with its list, restarts what has stopped and merges  *)
(* what is ready; it need never save.                                      *)
FairSpec == Spec /\ \A w \in Worker : WF_vars(Decide(w)) /\ WF_vars(Restore(w)) /\ WF_vars(Merge(w))

-----------------------------------------------------------------------------
(* Properties *)

Value(c) == MPArray_addmod(ShareOf(PRIO_SERVER_A, c), ShareOf(PRIO_SERVER_B, c))

SumCounted(ledger, len) ==
    Array(len, LAMBDA i :
        MapThenSumSet(LAMBDA c : ledger[c] * Value(c)[i], {c \in Id : ledger[c] > 0}) % Modulus)

(* Whatever was saved, lost, restored and merged, the two servers of a     *)
(* running pair hold shares of the same sum, and no submission is in it    *)
(* twice.                                                                  *)
PairsExact ==
    \A w \in Worker : Up(w) =>
        LET A == server[w][PRIO_SERVER_A]
            B == server[w][PRIO_SERVER_B]
        IN  /\ A.ledger = B.ledger
            /\ \A c \in Id : A.ledger[c] <= 1
            /\ MPArray_addmod(A.data_shares, B.data_shares)
                   = SumCounted(A.ledger, Config[w].num_data_fields)

(* pclient/main.c: "well-formed (in which case they add it to their        *)
(* running total of aggregate statistics)".  No honest submission is       *)
(* ignored, however often servers stop and are restored, except where a    *)
(* server was restored alone: it draws its points from the beginning while *)
(* its peer goes on.                                                       *)
HonestNotIgnored == \A c \in ignored : Batch[c[1]][c[2]].honest => c[1] \in alone

(* Keys that are equal, or are equal up to a zero octet of both. *)
SameUpToZero(a, b) ==
    \/ a = b
    \/ \E k \in DOMAIN a \cap DOMAIN b :
           a[k] = 0 /\ \A i \in 1 .. k : a[i] = b[i]

SameConfigButKeyTails(c, d) ==
    /\ SameUpToZero(c.server_a_pub, d.server_a_pub)
    /\ SameUpToZero(c.server_b_pub, d.server_b_pub)
    /\ c.num_data_fields = d.num_data_fields
    /\ c.modulus = d.modulus
    /\ c.batch_id = d.batch_id

(* include/mprio.h: PrioServer_merge is for "multiple servers with the     *)
(* same configuration".  What it merges has the same number of fields, the *)
(* same modulus and the same whole batch id, zeros in it included, and     *)
(* what it refuses differs in one of them or in a key.  The keys are the   *)
(* exception: public_key_cmp (server.c:99) compares octets as strings, so  *)
(* that keys that differ only after a zero octet of both are the same to   *)
(* it and servers with such keys are merged.                               *)
MergedSameConfig ==
    /\ \A w \in merged : SameConfigButKeyTails(Config[w], Config[Main])
    /\ \A w \in refused : ~SameConfigButKeyTails(Config[w], Config[Main])

(* In the end every worker is merged or refused, and every honest          *)
(* submission of a worker that is not refused is in Main's total once,     *)
(* unless one of its servers was restored alone.                           *)
AllCollected ==
    <>[](/\ Finished
         /\ \A w \in (merged \cup {Main}) \ alone : \A i \in DOMAIN Batch[w] : \A s \in Server :
                Batch[w][i].honest => server[Main][s].ledger[<<w, i>>] = 1)
=============================================================================
