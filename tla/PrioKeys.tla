------------------------------ MODULE PrioKeys ------------------------------
(***************************************************************************)
(* Keys and encryption (prio/encrypt.c).  Octets and the characters of a   *)
(* hex string are numbers; NSS is symbolic: a public key is a one-to-one   *)
(* function of the private key, a Diffie-Hellman secret is the pair of the *)
(* public keys, and an AES-GCM ciphertext opens only with the key, nonce   *)
(* and authenticated data it was made with.  Servers make keys, export     *)
(* them, lose them and import them again; a client encrypts to the keys it *)
(* was given, and the ciphertext may be changed or cut on the way.         *)
(***************************************************************************)
EXTENDS Integers, SequencesExt, FiniteSetsExt

CONSTANTS
    Servers,
    CURVE25519_KEY_LEN, GCM_IV_LEN_BYTES, GCM_TAG_LEN_BYTES, MAX_ENCRYPT_LEN,
    PrivateKeys,    \* the private keys that may be generated, octet strings
    PublicOf,       \* PublicOf[sk]: the octets of the public key
    Messages,       \* the octet strings a client may send
    BufferLens      \* the maxOutputLen a caller may pass

ASSUME KeysAssumption ==
    /\ CURVE25519_KEY_LEN \in Nat /\ GCM_IV_LEN_BYTES \in Nat
    /\ GCM_TAG_LEN_BYTES \in Nat \ {0} /\ MAX_ENCRYPT_LEN \in Nat
    /\ PrivateKeys \subseteq [1 .. CURVE25519_KEY_LEN -> 0 .. 255]
    /\ PublicOf \in [PrivateKeys -> [1 .. CURVE25519_KEY_LEN -> 0 .. 255]]
    /\ \A a, b \in PrivateKeys : PublicOf[a] = PublicOf[b] => a = b
    /\ Messages \subseteq Seq(0 .. 255)
    /\ BufferLens \subseteq Nat

NULL == <<>>

-----------------------------------------------------------------------------
(* Hex strings: '0' is 48, 'A' is 65 and 'a' is 97.                        *)

is_hex_digit(c) == c \in 48 .. 57 \cup 97 .. 102 \cup 65 .. 70

to_upper(c) == IF c \in 97 .. 122 THEN c - 32 ELSE c

hex_to_int(h) == IF h > 57 THEN to_upper(h) - 65 + 10 ELSE h - 48

int_to_hex(i) == IF i > 9 THEN i - 10 + 65 ELSE i + 48

(* Two characters for each octet, and the terminating NUL. *)
key_to_hex(key) ==
    [i \in 1 .. 2 * CURVE25519_KEY_LEN + 1 |->
        IF i > 2 * CURVE25519_KEY_LEN THEN 0
        ELSE int_to_hex(IF i % 2 = 1 THEN key[(i + 1) \div 2] \div 16 ELSE key[i \div 2] % 16)]

(* d0 << 4 | d1, in eight bits; nothing is read if a character is not a    *)
(* hex digit.                                                              *)
key_from_hex(hex) ==
    IF \A i \in 1 .. 2 * CURVE25519_KEY_LEN : is_hex_digit(hex[i])
    THEN [i \in 1 .. CURVE25519_KEY_LEN |->
             (16 * hex_to_int(hex[2 * i - 1]) + hex_to_int(hex[2 * i])) % 256]
    ELSE NULL

-----------------------------------------------------------------------------
(* Import and export; NULL is the key of a call that fails.                *)

(* A public key is what its octets say. *)
PublicKey_import(data) == IF Len(data) = CURVE25519_KEY_LEN THEN data ELSE NULL

PublicKey_import_hex(hex) ==
    IF Len(hex) # 2 * CURVE25519_KEY_LEN THEN NULL ELSE PublicKey_import(key_from_hex(hex))

(* The PKCS#8 blob takes both keys as they are given. *)
PrivateKey_import(sk, pk) ==
    IF Len(sk) = CURVE25519_KEY_LEN /\ Len(pk) = CURVE25519_KEY_LEN
    THEN [sk |-> sk, pk |-> pk] ELSE NULL

PrivateKey_import_hex(hexSk, hexPk) ==
    IF Len(hexSk) # 2 * CURVE25519_KEY_LEN \/ Len(hexPk) # 2 * CURVE25519_KEY_LEN THEN NULL
    ELSE PrivateKey_import(key_from_hex(hexSk), key_from_hex(hexPk))

PublicKey_export(key) == key.pk

(* PK11_ReadRawAttribute(CKA_VALUE): without the leading zeros. *)
RawValue(sk) ==
    SubSeq(sk, 1 + Cardinality({i \in DOMAIN sk : \A j \in 1 .. i : sk[j] = 0}), Len(sk))

(* Mutant: the value is copied to the start of the output. *)
PrivateKey_export_Left(key) ==
    LET item == RawValue(key.sk)
    IN  item \o [i \in 1 .. CURVE25519_KEY_LEN - Len(item) |-> 0]

(* The value goes to the low-order octets of a zeroed output. *)
PrivateKey_export(key) ==
    LET item == RawValue(key.sk)
    IN  [i \in 1 .. CURVE25519_KEY_LEN - Len(item) |-> 0] \o item

(* The hex string the caller gives back to an import leaves out the NUL. *)
Text(hex) == SubSeq(hex, 1, 2 * CURVE25519_KEY_LEN)

PublicKey_export_hex(key) == Text(key_to_hex(PublicKey_export(key)))

PrivateKey_export_hex(key) == Text(key_to_hex(PrivateKey_export(key)))

-----------------------------------------------------------------------------
(* Encryption.                                                             *)

(* The AES key both ends derive. *)
derive_dh_secret(sk, pk) == {PublicOf[sk], pk}

(* The authenticated data: PRIO_TAG, the ephemeral public key, the nonce. *)
set_gcm_params(nonce, pk) == [iv |-> nonce, aad |-> <<"PrioPacket", pk, nonce>>]

(* PK11_Encrypt: as many octets as the message has, and a tag.  Each octet *)
(* depends on everything that went in.                                     *)
PK11_Encrypt(aes, param, msg) ==
    [i \in 1 .. Len(msg) + GCM_TAG_LEN_BYTES |->
        [aes |-> aes, param |-> param, msg |-> msg, at |-> i]]

(* PK11_Decrypt: the octets are all there and unchanged, and key and       *)
(* parameters are those of the encryption.                                 *)
PK11_Decrypt(aes, param, body) ==
    IF \E msg \in Messages : body = PK11_Encrypt(aes, param, msg)
    THEN [rv  |-> "success",
          out |-> CHOOSE msg \in Messages : body = PK11_Encrypt(aes, param, msg)]
    ELSE [rv |-> "failure", out |-> <<>>]

(* -1 for a length that is refused. *)
PublicKey_encryptSize(inputLen) ==
    IF inputLen >= MAX_ENCRYPT_LEN THEN -1
    ELSE CURVE25519_KEY_LEN + GCM_IV_LEN_BYTES + GCM_TAG_LEN_BYTES + inputLen

(* The ephemeral public key, the nonce and the AES-GCM output; NULL if the *)
(* message is too long or the buffer too small.                            *)
PublicKey_encrypt(pk, eph, nonce, msg, maxOutputLen) ==
    IF pk = NULL \/ Len(msg) >= MAX_ENCRYPT_LEN \/ maxOutputLen < PublicKey_encryptSize(Len(msg))
    THEN NULL
    ELSE PublicOf[eph] \o nonce
             \o PK11_Encrypt(derive_dh_secret(eph, pk), set_gcm_params(nonce, PublicOf[eph]), msg)

(* Mutant: the nonce is not authenticated and not taken from the input. *)
PrivateKey_decrypt_NoHeader(key, input, maxOutputLen) ==
    LET offset == CURVE25519_KEY_LEN + GCM_IV_LEN_BYTES
    IN  IF key = NULL \/ Len(input) <= offset THEN [rv |-> "failure", out |-> <<>>]
        ELSE LET body == SubSeq(input, offset + 1, Len(input))
             IN  PK11_Decrypt(derive_dh_secret(key.sk, SubSeq(input, 1, CURVE25519_KEY_LEN)),
                              body[1].param, body)

PrivateKey_decrypt(key, input, maxOutputLen) ==
    LET headerLen == PublicKey_encryptSize(0)
        msglen    == Len(input) - headerLen
        offset    == CURVE25519_KEY_LEN + GCM_IV_LEN_BYTES
        ephPub    == PublicKey_import(SubSeq(input, 1, CURVE25519_KEY_LEN))
        nonce     == SubSeq(input, CURVE25519_KEY_LEN + 1, offset)
    IN  IF \/ key = NULL \/ Len(input) < headerLen
           \/ maxOutputLen < msglen \/ msglen >= MAX_ENCRYPT_LEN
        THEN [rv |-> "failure", out |-> <<>>]
        ELSE PK11_Decrypt(derive_dh_secret(key.sk, ephPub), set_gcm_params(nonce, ephPub),
                          SubSeq(input, offset + 1, Len(input)))

-----------------------------------------------------------------------------
VARIABLES
    made,     \* made[s]: the key pair Keypair_new gave server s, or NULL
    key,      \* key[s]: the key pair server s holds, or NULL
    file,     \* file[s]: the exported pair [form, sk, pk], or NULL
    peer,     \* peer[s]: the public key the client imported for server s, or NULL
    mail,     \* the last ciphertext: [input, to, msg, whole]
    opened    \* the last call of PrivateKey_decrypt: [by, held, max, rv, out]

keyVars == <<made, key, file, peer, mail, opened>>

NoMail == [input |-> NULL, to |-> NULL, msg |-> NULL, whole |-> FALSE]
NotOpened == [by |-> NULL, held |-> FALSE, max |-> 0, rv |-> "none", out |-> <<>>]

KeysInit ==
    /\ made = [s \in Servers |-> NULL] /\ key = made
    /\ file = made /\ peer = made
    /\ mail = NoMail /\ opened = NotOpened

Keypair_new(s) ==
    /\ made[s] = NULL
    /\ \E sk \in PrivateKeys :
           /\ \A t \in Servers : made[t] # NULL => made[t].sk # sk
           /\ made' = [made EXCEPT ![s] = [sk |-> sk, pk |-> PublicOf[sk]]]
    /\ key' = [key EXCEPT ![s] = made'[s]]
    /\ UNCHANGED <<file, peer, mail, opened>>

(* The pair is exported as octets or as hex strings. *)
Export(s, form) ==
    /\ key[s] # NULL /\ file[s] = NULL
    /\ file' = [file EXCEPT ![s] =
           IF form = "raw"
           THEN [form |-> form, sk |-> PrivateKey_export(key[s]), pk |-> PublicKey_export(key[s])]
           ELSE [form |-> form, sk |-> PrivateKey_export_hex(key[s]),
                 pk   |-> PublicKey_export_hex(key[s])]]
    /\ UNCHANGED <<made, key, peer, mail, opened>>

(* Hex strings may come back in lower case. *)
Retype(s) ==
    /\ file[s] # NULL /\ file[s].form = "hex"
    /\ LET lower(text) == [i \in DOMAIN text |-> IF text[i] \in 65 .. 70 THEN text[i] + 32 ELSE text[i]]
       IN  file' = [file EXCEPT ![s].sk = lower(@), ![s].pk = lower(@)]
    /\ UNCHANGED <<made, key, peer, mail, opened>>

(* The process of a server ends. *)
Stop(s) ==
    /\ key[s] # NULL
    /\ key' = [key EXCEPT ![s] = NULL]
    /\ UNCHANGED <<made, file, peer, mail, opened>>

Restart(s) ==
    /\ key[s] = NULL /\ file[s] # NULL
    /\ key' = [key EXCEPT ![s] =
           IF file[s].form = "raw" THEN PrivateKey_import(file[s].sk, file[s].pk)
           ELSE PrivateKey_import_hex(file[s].sk, file[s].pk)]
    /\ UNCHANGED <<made, file, peer, mail, opened>>

(* The client is given the public key of a server. *)
Publish(s) ==
    /\ file[s] # NULL /\ peer[s] = NULL
    /\ peer' = [peer EXCEPT ![s] =
           IF file[s].form = "raw" THEN PublicKey_import(file[s].pk)
           ELSE PublicKey_import_hex(file[s].pk)]
    /\ UNCHANGED <<made, key, file, mail, opened>>

Encrypt(s, msg, maxOutputLen) ==
    /\ mail.input = NULL
    /\ \E eph \in PrivateKeys \ {made[t].sk : t \in {u \in Servers : made[u] # NULL}} :
           LET ct == PublicKey_encrypt(peer[s], eph, [i \in 1 .. GCM_IV_LEN_BYTES |-> 7],
                                       msg, maxOutputLen)
           IN  mail' = IF ct = NULL THEN NoMail
                       ELSE [input |-> ct, to |-> s, msg |-> msg, whole |-> TRUE]
    /\ UNCHANGED <<made, key, file, peer, opened>>

(* The ciphertext loses its end, or one octet becomes another. *)
Damage ==
    /\ mail.input # NULL /\ mail.whole
    /\ \/ mail' = [mail EXCEPT !.input = Front(@), !.whole = FALSE]
       \/ \E i \in DOMAIN mail.input :
              mail' = [mail EXCEPT !.input[i] = IF i <= CURVE25519_KEY_LEN + GCM_IV_LEN_BYTES
                                                THEN (@ + 1) % 256 ELSE [@ EXCEPT !.at = 0],
                                   !.whole = FALSE]
    /\ opened' = NotOpened
    /\ UNCHANGED <<made, key, file, peer>>

Decrypt(s, maxOutputLen) ==
    /\ mail.input # NULL
    /\ LET res == PrivateKey_decrypt(key[s], mail.input, maxOutputLen)
       IN  opened' = [by |-> s, held |-> key[s] # NULL, max |-> maxOutputLen,
                      rv |-> res.rv, out |-> res.out]
    /\ UNCHANGED <<made, key, file, peer, mail>>

Forget == mail.input # NULL /\ mail' = NoMail /\ opened' = NotOpened /\ UNCHANGED <<made, key, file, peer>>

KeysNext ==
    \/ \E s \in Servers : \/ Keypair_new(s) \/ Retype(s) \/ Stop(s) \/ Restart(s) \/ Publish(s)
                          \/ \E form \in {"raw", "hex"} : Export(s, form)
                          \/ \E msg \in Messages, n \in BufferLens : Encrypt(s, msg, n)
                          \/ \E n \in BufferLens : Decrypt(s, n)
    \/ Damage \/ Forget

KeysSpec == KeysInit /\ [][KeysNext]_keyVars

-----------------------------------------------------------------------------
(* Properties *)

(* Whatever the form and the case of the text, a server that restarts has  *)
(* the key it made, and the client has the public key that goes with it:   *)
(* leading zeros that NSS drops come back.                                 *)
KeysSurvive ==
    \A s \in Servers : /\ key[s] # NULL => key[s] = made[s]
                       /\ peer[s] # NULL => peer[s] = made[s].pk

(* PrivateKey_decrypt returns the message if and only if the ciphertext is *)
(* whole, it was made for this server and the buffer has room: nothing     *)
(* comes out of a cut or changed one, or with another key.                 *)
DecryptExact ==
    opened.rv # "none" =>
        IF /\ opened.held /\ mail.whole /\ opened.by = mail.to /\ opened.max >= Len(mail.msg)
        THEN opened.rv = "success" /\ opened.out = mail.msg
        ELSE opened.rv = "failure" /\ opened.out = <<>>
=============================================================================
