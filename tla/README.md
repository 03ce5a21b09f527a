# A TLA+ verification of libprio

libprio computes sums over the private data of many clients. A client splits a
vector of bits into two shares and a proof that they are shares of bits, one
packet for each of two servers. For every submission the servers exchange two
short messages to check the proof, add their shares to a running total when it
holds, and at the end combine the totals. The two servers never see the data.

This directory models that computation in TLA+, checks it with TLC on small
fields and short batches, and proves with TLAPS what can be proved for every
field and batch. Paths below are relative to the repository, `src/` left out.

## 1. Inventory

| Component | State | Operations | Interacts through |
|---|---|---|---|
| Configuration, `prio/config.c`, `prio/params.h` | number of fields, modulus, roots of unity, `inv2`, keys, batch id | `PrioConfig_new`, `_new_uint`, `_maxDataFields`, `_maxUIntEntries`, `_numUIntEntries`, `_hPoints` | read by everything |
| Client, `prio/client.c` | one `PrioPacketClient` per server | `PrioClient_encode`, `_encode_uint`, `PrioPacketClient_set_data`, `_decrypt` | the two encrypted packets |
| Server, `prio/server.c` | `data_shares` (running total), `prg` (position in the stream of points); per submission a `PrioVerifier` | `PrioVerifier_set_data`, `PrioPacketVerify1/2_set_data`, `PrioVerifier_isValid`, `PrioServer_aggregate`, `_merge`, `PrioTotalShare_set_data`, `_final`, `_set_data_uint`, `_final_uint` | packets to its peer |
| Polynomials, `prio/poly.c` | none | `poly_fft`, `poly_eval`, `poly_interp_evaluate` | called by client and server |
| Secret sharing, `prio/share.c` | none | `share_int`, `BeaverTriple_set_rand` | called by the client |
| Arrays, `prio/mparray.c` | length and elements | `new`, `resize`, `addmod`, `copy`, ... | everywhere |
| PRG, `prio/prg.c` | AES-CTR state | `PRG_get_int`, `_get_int_range`, `_get_array`, `_share_array` | the seed of server B's packet; the shared secret of the servers |
| Random numbers, `prio/rand.c` | NSS context | `rand_int`, `rand_int_rng` (rejection sampling) | called by client and PRG |
| Serialization, `prio/serial.c` | none | writers and readers of packets, totals and server state | files and sockets of the caller |
| Encryption, `prio/encrypt.c` | keys | NSS calls | client packet |
| Drivers, `pclient/main.c`, `pclient_uint/main.c` | the loop over clients | | calls the whole interface |
| Bignum library, `mpi/` (vendored) | numbers (sign, digits); the mode and window of `mpmontg.c` | arithmetic (`mpi.c`), bits (`mplogic.c`), powers (`mpmontg.c`, `montmulf.c`), primes (`mpprime.c`), binary fields (`mp_gf2m.c`), unrolled products (`mp_comba.c`) | everywhere |
| Python bindings, `python/` | | wrappers | the C interface |

The library itself is single-threaded and leaves the network to its caller.
What is hard about it is between the calls:

* the two servers run at their own pace and only meet in packets, which carry
  no submission number: order alone keeps them apart;
* both servers must draw the *same* random point for a submission, from two
  PRGs that only agree if both have drawn equally often;
* `PrioVerifier_set_data` may fail half way, at one server and not at the other,
  with the verifier object already partly overwritten;
* the total is read from two copies taken at different times;
* the client and the servers must agree on which roots of unity carry the data,
  on the order in which the seed is expanded and on the halving of `d*e`;
* writers and readers of a stream agree only on an order, and a reader that
  fails leaves an object that is half old and half new;
* a server that is saved and restored keeps its shares and not its place in the
  random stream;
* every function of `prio/` allocates as it goes and cleans up at one label;
* the bignum library finds carries, borrows and quotient digits by comparing
  wrapped digits, in cases that random 64-bit operands almost never meet;
* the arithmetic has edges: power-of-two lengths at the number of roots of
  unity, products of C ints, totals that take more than one digit.

What makes each part correct:

| Component | Correct when |
|---|---|
| Servers | they decide alike; each adds exactly its shares of what it counted; what is published is the sum of what was counted; neither waits for ever; well-formed submissions are counted |
| Client and servers | honest submissions verify at every point; others at few |
| Polynomials | the transform is evaluation at the roots of unity, interpolation is its inverse |
| Configuration | what is accepted fits every transform; what is refused would not |
| Serialization | reading what was written gives it back, whatever the object held before; what is accepted has the right shape |
| Servers that are saved, restored and merged | both sides hold shares of one sum with nothing in it twice, and every honest submission is collected |
| Unsigned integers | what is returned is the sum of the integers, or a failure when it needs more than a digit |
| Random numbers | in range, uniform, and every call returns |
| Encryption and keys | a key survives export and import; a ciphertext opens exactly when it is whole and for this server |
| Cleanup | only what was set is released, nothing leaks, a failure is reported |
| Bignum library | every call computes the integer it documents, from operands earlier calls left, but for the exceptions that the properties name |

## 2. Modules

| Module | Models |
|---|---|
| `PrioField` | the field, `MPArray`, sharing, `next_power_of_two`, what a configuration derives from `params.h` |
| `PrioPoly` | `poly.c` |
| `PrioSnip` | one submission: what the client computes, what each server computes from its half |
| `PrioProtocol` | the two servers and a batch: state machine, properties, refinement mapping |
| `PrioIdeal` | abstract specification: a single trusted party |
| `PrioSubmission` | one submission from the client to the verdict, honest or not |
| `PrioConfig` | creating a configuration, in C's int arithmetic |
| `PrioFleet` | pairs of servers that are saved, stopped, restored and merged |
| `PrioOctets` | octets to numbers and back, as `mpi.c` reads and writes them; used by `PrioSerial` and `PrioRand` |
| `PrioSerial`, `PrioStream` | the writers and readers of `serial.c`; two parties and a stream that may be cut or altered |
| `PrioUInt` | integers as bits, and their sums |
| `PrioKeys` | `encrypt.c`: key pairs, their export and import, encryption |
| `PrioRand` | `rand.c`, `msb_mask`, `PRG_get_int_range` |
| `PrioLifetimes` | what each function of `prio/` allocates, checks and releases |
| `MpiDigits`, `MpiArith`, `MpiLong`, `MpiNumber`, `MpiText` | `mpi.c`: digits, signed numbers, wider digits, number theory, text and octets |
| `MpLogic`, `MpMontg`, `MontMulf`, `MpPrime`, `MpGf2m`, `MpComba` | the files of `mpi/` of these names |
| `NumberProofs` | induction over the natural numbers and recursive functions on them; folds and sums over finite sets; powers of two |
| `PrioSnipProofs` | the field modulo the modulus; the Beaver identity; powers, sums and polynomials, `poly.c`; what the servers compute from a submission |
| `PrioProtocolProofs` | the two servers: agreement, totals, refinement |
| `PrioSubmissionProofs` | interpolation, Lagrange's formula, the transforms; completeness and soundness of the check; the bounds of a configuration; sums of integers |
| `PrioFleetProofs` | servers that are saved, restored and merged |
| `PrioWireProofs` | streams of objects; keys and ciphertexts; random integers |
| `MpiProofs` | digits, carries and borrows; sums, comparisons and products of signed numbers |
| `MpiDivisionProofs` | quotients and modular powers of signed numbers; canonical digits; chains of calls |
| `MCProtocol`, `MCSubmission` (with `MCPoly`), `MCFleet`, `MCWire`, `MCCalls`, `MCUInt`, `MCMpiNumbers`, `MCMpiModular`, `MCMpiProducts` | the instances TLC checks |

`PrioField <- PrioPoly <- PrioSnip <- PrioProtocol, PrioSubmission, PrioSerial
<- PrioStream, PrioUInt` by `EXTENDS`; `PrioProtocol` instantiates `PrioIdeal`
with a refinement mapping. `MpiDigits <- MpiArith <- MpiNumber <- MpMontg <-
MontMulf`, and the other modules of `mpi/` extend `MpiDigits`, `MpiArith` or
`MpiNumber`. An MC module that extends several state machines has a variable
(`task`, `party` or `caller`) that says which of them runs; the others stay in
their initial states. They do not share state in the program either: they are
put together because they use the same instance of the field or the same width
of a digit.

A definition named after another with a suffix (`Aggregate_Overwrites`,
`BackOff_NotBelow`) is a plausible mistake in the definition that follows it. It is
part of no specification; it is there to see that the property in question
notices the mistake.

### State and actions of `PrioProtocol`

`data_shares`, `prg`, `p1`, `p2`, `tshare` and `final` are the objects of the
same name in `server.c` and `main.c`, one per server. `verifier` holds what the
server keeps of a `PrioVerifier`: the triple, the data shares, and the shares of
f(r), g(r), h(r). `prg` is a *position*: the k-th point drawn is `Draw[k]`, the
same at both servers because the secret is. `net1`, `net2`, `nett` are ordered
channels, one per direction and kind of packet. `delivery` says, before the run,
what `PrioVerifier_set_data` will meet for each submission at each server:

| `Stage` | `PrioPacketClient_decrypt` | already overwritten |
|---|---|---|
| `ok` | succeeds | everything |
| `decrypt` | the ciphertext, or the batch id inside it, is refused | nothing |
| `fields` | the packet names the other server | triple, f(0), g(0), h(0) |
| `shares` | the part with the shares is unreadable | the same, and at server A the data shares |

| Action | Code |
|---|---|
| `SetData` | `PrioVerifier_set_data` through `compute_shares`; the point is drawn here |
| `SetDataFails` | the same function leaving early; the PRG has not moved |
| `Verify1`, `Verify2` | `PrioPacketVerify1_set_data`, `PrioPacketVerify2_set_data` and the exchange |
| `Skip` | external: the servers' driver ignores a submission one of them cannot read |
| `Aggregate` | `PrioVerifier_isValid` accepts, `PrioServer_aggregate` |
| `Reject` | `PrioVerifier_isValid` refuses |
| `TotalShare`, `Final` | `PrioTotalShare_set_data`, `PrioTotalShare_final` |

`pclient/main.c` runs both servers in one process and gives up at the first call
that fails. The model splits them into two processes as the comments there
describe (lines 118 to 132) and, as those comments say, ignores an ill-formed
submission and goes on. How a server tells its peer that it could not read a
packet is up to the caller of the library; in the model it is a first packet
with `ok = FALSE`. Server A publishes after every submission, as the loop does.

### The other state machines of `prio/`

**`PrioFleet`.** `server[w]` is the pair of server objects of worker `w`, `disk[w]`
what its caller last saved. `Decide` is one pass of the driver's loop for one
submission, with the protocol of `PrioProtocol` taken as one step: when the two
PRGs are at one position an honest submission passes, otherwise either verdict is
possible. `Save` is `PrioServer_write` at both servers, `Crash` and `Restore` an
end of the process and `PrioServer_new` followed by `PrioServer_read`, `Merge` is
`PrioServer_merge` with the comparison of `server_cmp`. `ledger` is a ghost that
counts submissions; `alone` remembers which workers had one server restored while
the other went on.

**`PrioStream`.** A stream is a sequence of MessagePack objects. `Write(k)` and
`Read(k)` run the writer and the reader of one kind of object, the reader into an
object it already has and may have read into before. `Tamper` (external) cuts the
stream or alters an object, `Reconnect` starts a new one. A number is stored
before it is compared with the modulus, as in `object_to_mp_int`, and a 64-bit
integer is reduced to an int.

**`PrioUInt`.** `Submit` is `PrioClient_encode_uint` with the servers' additions,
`SetTotals` `PrioTotalShare_set_data_uint`, `HandOver` and `SendTotal` the two
ways a total gets to server A (as an object, or written and read), `Final`
`PrioTotalShare_final_uint`.

**`PrioKeys`.** Servers make keys, export them as octets or hex, stop, and import
them again; a client encrypts to what it was given, and `Damage` cuts or changes
the ciphertext. NSS is external and symbolic: a Diffie-Hellman secret is the set
of the two public keys, a ciphertext opens only with the key, nonce and
authenticated data it was made with, and the token drops leading zeros of a
private key.

**`PrioRand`.** `Call` begins `rand_int`, `PRG_get_int` or `PRG_get_int_range`;
`Try` is a turn of the rejection loop with any octets, `Fail` a failing request;
`rand_init` and `rand_clear` change the global context at any time between calls.

**`PrioLifetimes`.** `Table` has, for each function, its steps in order: members
set to NULL, allocations, checked calls, calls whose result nobody looks at, and
the pointers its cleanup label releases. `Step` does one, `FailStep`,
`FailReturn` and `FailIgnored` let it fail in the way its macro (`P_CHECKA`,
`P_CHECKC`, `MP_CHECKC`, `P_CHECK`, `MP_CHECK`) handles, `Return` reaches the
label without a failure. Functions that `prio/` calls are one step each; each has
an entry of its own.

### The bignum library

A number is `[sign, dp]`, `dp` its digits in use, least significant first. Every
operation works on digits as the code does: a carry is a wrapped sum that is
below its operand, a product of two digits is put together from half digits, a
quotient digit is guessed and taken back. Only the width is smaller: a digit has
`2 * HalfBits` bits. With `HalfBits` = 1 carries run through three digits for
numbers below 33; with 2 a product's middle carries, a quotient digit is
taken back twice, and exponents have all windows; with 4 an octet is half a digit
and radix 36 has two digits in one.

Numbers are values, so results never alias operands and nothing runs out of
memory. `MpLogic` is the exception: there a number is all of its memory, because
`mpl_or` and `mpl_xor` read digits above those in use; both numbers have room for
`Alloc` digits, so a call never grows its result. `mp_xgcd` does not end for
a zero operand and `mp_bdivmod` not for a divisor without an inverse; the model
calls them only as the library does, with others.

`MpMontg` keeps the two variables that outlive a call: the cache safe mode, which
callers set, and the widest window, fixed by the first call from the size of a
cache line (any of `LineSizes`). `MontMulf` is one turn of the outer loop per
step, and shows that the product in doubles is the one `MpMontg` uses, so that
`mp_exptmod_f` is `mp_exptmod_i` with another way to multiply. `MpPrime` is one
test per step. `MpComba` is one column per step; `mp_comba.c` is built only with
`NSS_USE_COMBA`.

## 3. Runs

| Run | Instance | Checks | Shows |
|---|---|---|---|
| `any` | each submission reaches each server in its own state | `TypeOK`, `Agreement`, `PacketsMatch`, `ChannelBound`, `SharesExact`, `OutputExact`, `AlignedCounted`, `BatchCompletes`, `WellFormedServed`, `ImplementsIdeal` | the servers decide alike, take the right packets, add exactly what they decided, publish its sum and finish; together they are the single party of `PrioIdeal`; a well-formed submission that both can read is counted as long as they failed together on earlier ones |
| `submission` | three fields, all data vectors over {0, 1, 2, 16}, all alterations of the triple and the proof by {0, 15}, all points; lengths 1, 2, 4, 8 with inputs over {0, 1, 11}; all ints of 6 bits | `HonestValid`, `CheatBound`, `SharesAddUp`, `TransformsExact`, `TransformsFit`, `UIntBoundExact` | completeness; at most 2N - 1 points at which bad data passes, whatever the proof and the triple, unless the triple masks the data; shares add up; the FFT and interpolation against the sum and Lagrange's formula; the checks of a configuration meet the needs of `poly_fft` exactly |
| `fleet` | a main pair and three workers: one with a dishonest and an honest submission and a key that differs after a zero octet, which is merged; one with another number of fields and one with another key, which are refused; two stops, of a pair or of server B | `PairsExact`, `HonestNotIgnored`, `MergedSameConfig`, `AllCollected` | both sides share one sum with nothing in it twice; honest submissions are lost only where one server was restored alone; everything else is collected; what is merged had one configuration, up to the ends of keys |
| `wire` | two writes and two reads of six kinds of objects; two servers with keys of two octets; four clients with two integers of two bits | `RoundTrip`, `SoundUnlessFailed`, `KeysSurvive`, `DecryptExact`, `SumsExact` | what was written is read back after any earlier read; what is accepted has the right shape; keys and ciphertexts; sums of integers |
| `calls` | bounds to 18 with octets of two bits; every function of `Table` | `DrawsExact`, `Returns`, `CleanupExact`, `ErrorsReportedElsewhere` | draws are uniform and return; cleanup after a failure at any step |
| `mpi_numbers` | digits of two bits, numbers of up to three digits, to 17 | `ArithmeticExact`, `NumberTheoryExact`, `BitwiseExact` | chains of calls on two numbers against the integers, or against the exceptions to them (`DigitRemainder`, `PowersExact`) |
| `mpi_modular` | digits of four bits | `DigitsExact`, `ModularExact`, `PrimeSearchExact`, `SearchAdvances`, `PolynomialsExact` | long division, windows of bits across digits, powers in every mode, the search for primes (composites that pass the Fermat test included), binary fields |
| `mpi_products` | digits of eight bits | `TextExact`, `FloatExact`, `CombaExact` | text and octets, floating point and unrolled products |
| `desync` | server B may fail where A succeeds | `WellFormedCounted` | **violated**, see findings |
| `config_overflow` | all ints of 6 bits | `UIntConfigSupports` | **violated**, see findings |
| `uint_send` | one client with integers of two bits | `TotalReadable` | **violated**, see findings |
| `lifetimes_poly` | `poly_fft` | `ErrorsReported` | **violated**, see findings |

`ArithmeticExact`, `PrimeSearchExact` and the like are conjunctions of named
parts, each with a comment of its own in the component's module.

### Bounds

* Field of 17 elements, generator 2 of order 2^3. Eight roots of unity is the
  least that gives `poly_fft` three levels of recursion and N = 4 with 2N = all
  roots (the upper limit). The servers have two data fields, N > fields + 1
  (padding); a single submission has three, N = fields + 1, where a wrong triple
  can hide wrong data: 15 is minus x(x - 1) for both 2 and 16, so triples that
  mask, that do not and that are right occur. `CheatBoundHolds` covers padding.
  17 > 2N leaves points outside the roots of unity and room for `CheatBound`
  to fail.
* Three submissions, honest, dishonest, honest: enough for a submission before
  and one after a failure, and for a server to be one submission ahead (no
  server can be further ahead: `ChannelBound`). The delivery outcomes per
  submission cover every stage at both, and failures at one side and at two stages.
* `DigitBound` = 4 stands for 2^64. Honest totals stay below it. The dishonest
  submission has a field of 5 and is accepted at a few of the points (and when
  the servers evaluate at two points), so both results of
  `PrioTotalShare_final` occur, failure after the first field included.
* `IntWidth` = 6 and `BBIT_PREC_MAX` = 5 stand for 32 and 42; every pair of ints
  is enumerated, so both sides of every limit and all wrapped products occur.
  Signed overflow is undefined in C; the model takes the wrapping of the builds.
* Streams: two objects are the least for an order to matter, two reads for a
  read into an object that a failed read has left. Octets of two bits make a
  field element up to three octets long; `IntRange` = 8 lets `1 + 8` pass for 1.
* Keys of two octets, one with a leading zero and letters in all hex strings;
  messages of no, the most and one too many octets; buffers that are too small
  and just large enough.
* Fleet: two stops allow one to be followed by another before or after a save;
  `MaxCrashes` bounds them, saves are not bounded. Keys of three octets
  (`CURVE25519_KEY_LEN`) can differ before a zero octet and after one.
* Integers: four clients reach sums past `DigitBound` and short of the modulus,
  and inputs run from -1 to one past the largest of two bits.
* Random: `MaxBound` = 18 is above 2^4, so bounds of one, two and three octets,
  powers of two and their neighbours occur; `CHUNK_SIZE` = 2 splits requests.
* Bignum: `MaxMagnitude` and `MaxExponent` cap the numbers that calls store,
  `MaxUsed`, `MaxTotal` and `Sample` the digits of `MpiLong`, `MaxDegree` and
  `Operands` the polynomials, `SIEVE_SIZE` = 6, `num_tests` = 2 and the primes to
  7 the search. `Lengths` takes it to numbers of ten bits, among them strong
  pseudoprimes to some witness and 341, the first pseudoprime to base 2, which
  passes the Fermat test and is then returned or not as the draws have it.
  `SafeSteps` and `FastSteps` widen the windows for shorter exponents than the
  code's. `MulfLens` are on both sides of 16 digits (the unrolled form) and past
  the 30 turns after which sums are cleaned up; `CombaLens` the unrolled lengths
  and others.
* `NegativeHalves` = FALSE leaves halvings of negative numbers out of the calls,
  and `Signed` = FALSE negative operands of text and greatest common divisors:
  see the other disagreements below.

### Fairness

`PrioProtocol`: `FairSpec` assumes weak fairness of `Step(s)` for each server: a server that can
execute its next call does so, and a packet that was sent is delivered. The loop
of the driver contains no wait other than for the peer's packets, and the
channel is the authenticated one the comments require. Nothing is assumed about
relative speed.

`PrioFleet`: weak fairness of `Decide`, `Restore` and `Merge` of each worker: the
caller goes on with its list, restarts what has stopped and merges what is ready.
It need never save.

`PrioRand`: weak fairness of a failure that must happen (no context, an empty
range) and strong fairness of a turn whose octets are accepted. The octets are
random, so an event that is possible at every turn happens with probability one;
`DrawsExact` has that at least half of the octet strings are accepted.

`SearchAdvances` needs no fairness: every step raises a bounded rank.

Deadlock is checked except in `mpi_modular` and `mpi_products`, where a search, a
product or a column ends and nothing is called after it.

### Findings

1. **A failure at one server makes later honest submissions fail** (run
   `desync`). `compute_shares` draws from the server's PRG (`server.c:361`) only
   if `PrioVerifier_set_data` gets that far. When one server cannot read a
   submission and both ignore it, as `pclient/main.c:126-129` says they should,
   their PRGs are one position apart from then on, they evaluate at different
   points, and an honest submission is ignored. Counterexample: the first
   submission reaches A and not B, the third reaches both and is rejected.
   The published sum is still that of the submissions counted (`Agreement`,
   `OutputExact` and `ImplementsIdeal` hold here too); what is lost is that the
   check tells well-formed submissions from others.
2. **`num_uints * prec` is an int product** (run `config_overflow`,
   `config.c:97`). A product past the width of int can wrap to an acceptable
   number of fields; the configuration then is for another number of integers
   than asked for, while `include/mprio.h:114` says it supports that number.
3. **A total share of integers cannot be sent** (run `uint_send`,
   `serial.c:489`). `PrioTotalShare_set_data_uint` leaves one element per integer,
   `PrioTotalShare_read` expects one per data field; `pclient_uint/main.c:181`
   says "Server B can send tB to Server A."
4. **`poly_fft` always returns success** (run `lifetimes_poly`, `poly.c:203`), so
   its callers go on with an output that was not computed.

### Other disagreements met while modelling

These show as the exceptions written into the properties, with the case left out
named in the comment or by a constant.

* `config.c:62`: `strncpy` cuts a batch id at a zero byte; two ids that differ
  only after it accept each other's packets. `server.c:99` compares keys, and
  `server_cmp` batch ids, with `strncmp` in the same way before a merge. Batch ids
  have nothing after a zero; keys may, so workers whose keys differ only there are
  merged: the exception in `MergedSameConfig`.
* `serial.c:383`: a server restored alone draws its points from the start, which
  is the exception `alone` in `HonestNotIgnored`.
* `poly.c:117`: three allocations of `fft_interpolate_raw` jump to a label that
  clears `n_inverse` before it is initialised. `prg.c:87`: `PRG_new` does not
  look whether its key was derived.
* `server.c:602-640`: the servers use the triple of the client without a check.
  When N = fields + 1, a client whose triple is wrong by x(x - 1) in every field
  passes at every point with data that are not bits: the exception `Masked` in
  `CheatBound`. `PrioPacketClient` has no proof of the triple.
* `mpi.c:598` and `mp_div_2`, `mp_div_2d`: a quotient of zero can be negative.
  `mpi.c:1194`: an even power of a negative number gets the sign of its base,
  against "c = a ** b" (`mpi.c:1136`); `PowersExact` names it. `mpi.c:1300`:
  `mp_mod_d` of a number equal to the digit returns the digit, against "0 <= c < d"
  (`mpi.c:1290`), and of a number below minus the digit reduces the magnitude;
  `DigitRemainder` names both.
  `mpi.c:1877`: `mp_xgcd` returns coefficients of the absolute values.
* `mpi.c:2441`: `mp_read_raw` loses the sign. `mpi.c:4618`: the announced size of
  a text leaves no room for a minus sign. `mpi.c:2528`: in radix 64 a first digit
  62 is taken for a sign.
* `mplogic.c:125`: `mpl_or` and `mpl_xor` read stale digits above those in use.
* `mpmontg.c:1038`: `mp_exptmod` does not reduce a negative base.
* `mpprime.c:294`: 2 is refused as composite. The sieve strikes the primes of its
  own table with their multiples, p of a short strong prime too: the exception in
  `NoPrimePassedOver`. `mpprime.c:513`: when every 2p + 1 is struck by a divisor,
  the YES about the last p is what the search returns at the end of the sieve;
  `FoundProbablePrime` says that the number is then such a p.

## 4. Proofs

The theorems hold for every modulus, number of fields, batch, delivery, number
of workers and behaviour that satisfy the assumptions below.

| Theorem | States |
|---|---|
| `PrioSnipProofs!BeaverIdentity` | with a multiplication triple, the two rounds accept exactly when f(r) g(r) = h(r), for all shares |
| `PrioSnipProofs!TransformIs` | the recursion of `poly_fft` evaluates at the roots of unity, for every length it accepts |
| `PrioSubmissionProofs!InterpolatesPoints`, `InterpolationUnique` | the inverse transform interpolates; `poly_interp_evaluate` returns the value of every polynomial of fewer coefficients than points through them |
| `PrioSubmissionProofs!InterpolatesLagrange` | `poly_interp_evaluate` is Lagrange's formula, in every prime field |
| `PrioSubmissionProofs!TransformsExactHolds` | `PolySpec => []TransformsExact` of `MCPoly`: the FFT is evaluation at the roots, and interpolation is Lagrange's |
| `PrioSubmissionProofs!SharesAddUpHolds` | `SubmissionSpec => []SharesAddUp`: the servers' data shares add up to the client's data |
| `PrioSubmissionProofs!HonestValidHolds` | `SubmissionSpec => []HonestValid`: completeness |
| `PrioSubmissionProofs!CheatBoundHolds` | `SubmissionSpec => []CheatBound`: soundness, bad data passes at no more than 2N - 1 points, whatever proof and triple come with it, unless the triple masks the data |
| `PrioProtocolProofs!TypeCorrect` | `Spec => []TypeOK` |
| `PrioProtocolProofs!AgreementHolds` | `Spec => []Agreement` |
| `PrioProtocolProofs!PacketsMatchHolds` | `Spec => []PacketsMatch` |
| `PrioProtocolProofs!ChannelBoundHolds` | `Spec => []ChannelBound` |
| `PrioProtocolProofs!SharesExactHolds` | `Spec => []SharesExact`: each total is the sum of the shares of what the server counted |
| `PrioProtocolProofs!OutputExactHolds` | `Spec => []OutputExact`: what is published is the sum of the data counted |
| `PrioProtocolProofs!AlignedCountedHolds` | `Spec => []AlignedCounted`: well-formed submissions are not ignored while the servers fail together |
| `PrioProtocolProofs!ServersImplementIdeal` | `Spec => ImplementsIdeal`: the two servers are the single party of `PrioIdeal` |
| `PrioFleetProofs!PairsExactHolds` | `Spec => []PairsExact`: both servers of a pair hold shares of one sum with nothing in it twice |
| `PrioFleetProofs!HonestNotIgnoredHolds` | `Spec => []HonestNotIgnored` |
| `PrioFleetProofs!MergedSameConfigHolds` | `Spec => []MergedSameConfig`: what is merged was computed under one configuration, up to what follows a zero octet common to two keys, and what is refused was not |
| `PrioSubmissionProofs!TransformsFitHolds` | `ConfigSpec => []TransformsFit` |
| `PrioSubmissionProofs!UIntBoundExactHolds` | `ConfigSpec => []UIntBoundExact` |
| `PrioSubmissionProofs!SumsExactHolds` | `Spec => []SumsExact` of `PrioUInt`: what is returned for the integers is their sum, or a failure when it needs more than a digit |
| `PrioWireProofs!RoundTripHolds` | `StreamSpec => []RoundTrip`: what is read from an unaltered stream is what was written; a packet of another batch is refused |
| `PrioWireProofs!SoundUnlessFailedHolds` | `StreamSpec => []SoundUnlessFailed`: a reader that succeeds has stored what the library relies on, of any stream |
| `PrioWireProofs!KeysSurviveHolds` | `KeysSpec => []KeysSurvive`: a key comes back as it was made, from octets or text |
| `PrioWireProofs!DecryptExactHolds` | `KeysSpec => []DecryptExact`: a ciphertext opens exactly when it is whole, for this server and there is room |
| `PrioWireProofs!DrawsExactHolds` | `RandSpec => []DrawsExact`: draws are in range, every value comes from as many octet strings as any other, and at least half of the strings are accepted |
| `MpiProofs!AdditionExactHolds` | `LongSpec => []AdditionExact`: sums and differences of signed numbers of any length are the integers' |
| `MpiProofs!OrderExactHolds` | `LongSpec => []OrderExact`: comparisons agree with the order of the integers |
| `MpiProofs!PrimitivesExactHolds` | `LongSpec => []PrimitivesExact`: products, squares and quotients of digits are exact |
| `MpiProofs!ProductsExactHolds` | `LongSpec => []ProductsExact`: products, squares, shifts and powers of signed numbers of any length are the integers' |
| `MpiDivisionProofs!QuotientsExactHolds` | `LongSpec => []QuotientsExact`: long division of numbers of any length gives the integers' quotient and remainder, `mp_mod_d` what `DigitRemainder` says |
| `MpiDivisionProofs!ArithmeticExactHolds` | `Spec => []ArithmeticExact` when ~`NegativeHalves`: no chain of calls makes a number that is not canonical, or two on which a call does not answer as the integers do, or as the exceptions named say; powers and modular powers included |

### Assumptions

TLC evaluates each of them in every run that extends its module.

| Assumption | Why the code justifies it |
|---|---|
| `ModulusAssumption`: odd and above 2 | `params.h`, the modulus |
| `PrimeAssumption`: nothing between 1 and the modulus divides it | `params.h`: "A prime modulus p." Used by `CheatBoundHolds`, `InterpolatesLagrange` and `TransformsExactHolds` only |
| `GeneratorAssumption`: the generator has a power of -1 half way through its order 2^`Generator2Order` | `params.h`, `Generator` and `Generator2Order` |
| `NumFieldsAssumption`: between 0 and `PrioConfig_maxDataFields` | `PrioConfig_new` refuses others |
| `ClientAssumption`: data and draws are reduced elements | `rand_int` and `PRG_get_int` return less than the modulus; the data are bits |
| `SubmissionAssumption` and the other assumptions of `PrioProtocol`: packets of the right shape, points in range | `serial.c` refuses others; `PRG_get_int_range` |
| `BatchAssumption`: a worker's submissions have an element for each of its fields | the readers compare the length with the configuration |
| `KeysAssumption`: keys are octet strings of one length, different private keys have different public keys, the tag is not empty | `CURVE25519_KEY_LEN`, `GCM_TAG_LEN_BYTES` of `encrypt.h`; a public key determines its private key |
| `UIntAssumption`: the precision is positive, the random shares of the bits are reduced | `config.c:129` refuses others; `PRG_get_int` returns less than the modulus |
| `RadixAssumption`, `SerialAssumption`: an octet and a C int have more than one value | C |
| `RandAssumption`: an octet has a number of bits, and a chunk at least one octet | C; `CHUNK_SIZE` of `rand.c` |
| `StreamAssumption`: the objects written have arrays of the configured lengths, reduced elements and the id of their server; batch ids are octets | the functions that fill them in (`PrioPacketClient_set_data`, `PrioTotalShare_set_data`, ...) make no others |
| `FleetAssumption`: the constants have their types | |
| `KeyLenAssumption`: public keys have one length | `CURVE25519_KEY_LEN` of `encrypt.h` |
| `ConfigAssumption`: a configuration is the record `server_cmp` compares, and after a zero octet of a batch id come only zeros | `config.c:62` copies the batch id with `strncpy` |
| `HalfBitsAssumption`: half a digit has at least one bit | `mpi.h`, `MP_DIGIT_BIT` |
| `MpiArithAssumption`, `MpiLongAssumption`: the constants have their types | |
| `PolyAssumption`: points are reduced elements | the functions of `mparray.c` and `share.c` make no others |

`ArithmeticExactHolds` alone has a hypothesis besides, ~`NegativeHalves`.

That N = `next_power_of_two(NumFields + 1)` is a power of two above the number of
fields, with 2N no more than the roots of unity, and that `compute_shares`
returns reduced elements, are lemmas (`NIsPower`, `SharesAre`).

### Arguments

**The field.** The reduced operations are congruent to the integer ones modulo
the modulus, congruence is preserved by sums and products, and two elements that
are congruent are equal. Everything about values is proved over the integers up
to congruence, and becomes an equality of elements in the last step.

**Recursive functions.** `f[n \in Nat] == ...` is a `CHOOSE` of a function that
satisfies an equation. `NumberProofs` shows that such an equation has a
solution, with induction stated for a set of numbers (`NatInduct`), since the
theorems of the library that take an operator cannot be instantiated here.
`PrioSnipProofs` does the same for the recursion of `fft_recurse` over the length
of its input. Folds over finite sets (`FoldsExist`, `FoldsUnique`) are the same
again, by induction on the number of elements, where `Pick` names the element that
is folded first; `SetSumAny` shows that for sums it does not matter which it is.

**Beaver identity.** 2 `inv2` is congruent to 1; and over the integers
(d + a)(e + b) = de + db + ea + ab with d = f - a, e = g - b.

**The transform.** A polynomial splits into even and odd outputs: the sums of the
halves of the points give its values at the squares of the roots, the differences
scaled by the roots its values at the others (`PolyFold`, `EvenRoot`, `OddRoot`).
The table for one level holds the powers of a primitive root of its length, and
every second entry is the table of the level below. `FFTEvaluates` is the
induction on the level. Transforming there and back multiplies by the number of
points, because the powers of a root of unity other than 1 add up to zero
(`Orthogonal`); hence interpolation and its uniqueness.

**Lagrange's formula.** The product of the x - root over a set of roots
(`Vanishing`) is the value of a polynomial with one coefficient more than the set
has members (`VanishingPoly`), and zero exactly at these roots, since the roots
differ (`RootsDiffer`, which follows from `Orthogonal`) and the field has no
divisors of zero (`VanishingZeros`). So the divisor in each term has an inverse
(`FieldInverse`: multiplication by it is one-to-one on a finite field, hence onto),
the term is the polynomial that is a value at its own root and 0 at the others
(`LagrangeTermIs`, `LagrangeAtRoot`), and the sum has n coefficients and takes the
n values: by `InterpolationUnique` it is what the code computes.
`TransformsExactHolds` needs besides that every length `poly_fft_accepts` is a power
of two (`DivisorOfPower`), that the transform keeps to the field (`FFTElements`), and
as its invariant (`PolyInv`) that a result is that of the points it is next to.

**One submission.** `SubmissionInv` says that packets that were sent are, for
some draw, well-formed, B's packet, A's triple and A's data shares being those the
client computed for that draw, and all of A's if nothing was altered; and that a
verdict is that of the servers at a point of `EvalPoints` on these packets. It is
needed
because `SharesAddUp` speaks of a packet after it was altered and `HonestValid`
of a verdict given steps later. Shares of the points give shares of the values
(`InterpSum`), so that the servers' verdict is f(r) g(r) = h(r) + e for the sums of
their shares and the error e = a b - c of the triple (`BeaverShifted`,
`SharedVerdict`). For an honest client e is zero (`TripleErrorIs`) and h
interpolates f g at the 2N roots, so they agree everywhere (`HonestProduct`). For
any other, f g - h - e has 2N coefficients; it is x(x - 1) - e at the root of a
field and -e at a padding root. If e is zero it is not zero at a bad field; if not,
it is not zero at a padding root or, without one, at some field unless the triple
masks the data. So it is not the zero polynomial, and over a prime field it has at
most 2N - 1 zeros (`PrimeCong`, `PolyFactor`, `FewZeros`).

**Type correctness of the two servers.** `TypeOK` is not inductive: `SetData`
indexes `Draw` with `prg + 1`, and `Final` uses `tshare`. `Progress` adds that a
server inside the loop body is at a submission, has drawn no more points than
submissions begun, and holds a total share when it publishes.

**Agreement.** Nothing in a packet says what it is about, so the argument counts.
`Sent1`, `Took1` and `Decided` are the last submission for which a server has
sent its first packet, taken its peer's, and decided, each a function of `pc` and
`next`. `InStep` says that the first channel holds exactly the submissions
`Took1(peer) + 1 .. Sent1`, each marked with what its sender could read; that the
second channel holds the sender's current `p2` exactly when the peer still has
to decide a submission both can read; that total shares in flight are those
between `next` of A and `next` of B; and that a decision the peer has still to
make is the one its packets determine: "counted" if and only if both could read
and the two second packets sum to zero. The last conjunct is what makes
`Agreement` inductive: the first server's verdict and the second's are the same
function of the same two packets, provided neither is overwritten in between.
`PacketsMatch` and `ChannelBound` follow from the counting alone.

**Totals.** `Exact` adds to `InStep` what the objects hold: `data_shares` is the
sum over the submissions before `next` that were counted, the verifier of a
server that read its submission holds the shares of that submission at the point
drawn, a packet in flight is computed from them, and a total share is the sum up
to the submission it was taken at. `SharesExact` and `OutputExact` follow;
`OutputExact` needs that the two totals, taken at different times, count the same
submissions, which is `Agreement` for all that come before. `AlignedCounted`
needs that the number of points a server has drawn is the number of submissions
it has read, and `BeaverIdentity`.

**Refinement.** `Mapped` says that the total of the mapping is the sum of the
values of the submissions one of the servers has counted. A server that decides
first is a `Count` or `Ignore` of the single party, the second one a stutter,
because the share it is still to add already belongs to the total; `Final` is a
`Publish`.

**Saved and merged servers.** `PairsExact` is not inductive: a restored pair is
exact only if what was saved was. `FleetInv` says, for each worker, that the
running pair and the saved pair both hold shares of the sum of what their ledgers
count (`PairExact`, congruent field by field to a sum over a finite set); that a
ledger counts only submissions before the caller's place, or, in `Main`, of
workers merged (`Within`), which is why `Decide` and `Merge` never add one twice;
that the saved place and the saved set of merged workers are not ahead of the
present ones; that a server whose peer has stopped has exactly what it saved
(`UnsavedOk`), which is why a survivor and a restored server fit together; and
that both PRGs agree unless one server was restored alone. `MergedEqual` adds that
`server_eq` was true of every worker merged and false of every one refused; two
batch ids that `strncmp` finds equal are equal because both are filled with zeros
(`BatchIdsCompared`), two keys are up to the first zero octet of both (`FirstZero`,
`KeysCompared`).

**Configuration.** `Answered` says that the configuration is what the last
request computed; the rest is arithmetic of a product that fits an int.

**Sums of integers.** `weighed` doubles and adds in the field; it is congruent to
the sum of the counts times powers of two (`WeighedIs`), so it adds up with what
it weighs (`WeighedAdds`). The bits of an integer weigh the integer, because its
quotient by 2^i is twice the one by 2^(i + 1) and a bit (`HalfQuotient`,
`BitsWeigh`). `UIntInv` says that the two servers' data, weighed, add up to the sum
of the integers up to congruence, and that the total shares are those of the
present data; below the modulus the congruence is an equality.

**Streams.** A number's octets are read as the number (`OctetsExact`, an induction
over quotients by `Radix`). For each reader there is a lemma (`IntRead`,
`ArrayRead`, `SeedRead`, ...) of three parts: which fields of the object it leaves
alone, what it has stored if it succeeds, and that it gives back what its writer
wrote when that is next. They compose by a position in the stream (`At`), first
to the head that both packets share (`HeadRead`), then to each kind of object
(`ReadIs`). `RoundTrip` is about one read only, so `StreamInv` has to say what is
on the stream: `NothingLost`, that until something goes wrong the stream can be
cut where each pending object ends (`Laid`), which a write extends and a read
shortens from the front; and what earlier reads left: `ReaderObjects`, that an
object keeps the fields and the id of its kind through every failure, and could
have been written if its last read succeeded.

**Keys.** The leading zeros of a key are its first octets, so putting the rest
right-aligned into zeros gives it back (`LeadingZeros`, `ZerosBack`). A text stands
for octets when each pair of characters has the values of an octet's two digits
(`TextOf`); exporting establishes this, changing the case keeps it and importing
inverts it. `MadeInv` and `HeldInv` say that servers have made different key pairs,
and that what a server holds, has filed or has published is of the pair it made.

**Ciphertexts.** `MailInv` says that what is in the mail consists of an ephemeral
key, a nonce and a body (`Parts`), which are those of the encryption if it is whole,
and otherwise `Spoilt`: the body has lost its end, one of its octets is another, or
it is whole next to another key or nonce. `OpenedInv` says that the last result is
that of `PrivateKey_decrypt` on what is in the mail, with the key the server made.
A spoilt body is the encryption of no message under the parameters that come with
it (`SpoiltFails`); a whole one opens only with the other end's key because
{a, e} = {e, b} means a = b and no two servers made the same key.

**Random integers.** The chunks draw every octet (`BuffersAre`), and n octets are
read as each number below 2^(8n) once (`ReadingIsOneToOne`, by induction on n). For
max - 1 of n octets, the first of b bits, masking the first octet takes the number
read modulo M = 2^b 2^(8(n-1)) (`CandidateIs`, from `OtherLead` and `LeadingOctet`),
and max - 1 < M <= 2 (max - 1) (`MaskFits`). Since M divides the number of readings,
moving a reading within its block of M numbers is a bijection between the readings
of any two values, and moving a rejected one down by max an injection into the
accepted ones (`RemaindersUniform`). That a result is in range needs `RandInv`: the
call in progress, or the last one, has max = upper - lower. An octet has any number
of bits in all of this.

**Digits and numbers.** The value of a number is the sum of its digits times the
powers of the radix (`Part`, by recursion over the digits). `AddDigit` and
`SubDigit` find a carry by comparing a wrapped result with an operand
(`AddDigitIs`, `SubDigitIs`); by induction over the digits the partial sums differ
by the carry times a power of the radix (`AddRun`, `SubRun`), so a borrow is left on
top exactly when the second number is larger (`SubDigitsIs`). Two numbers without
leading zeros compare as `s_mp_cmp` does: by their lengths, else by the highest
digit that differs (`CompareIs`). With signs, each branch of `mp_add` and `mp_sub`
is one of the two. `LongInv` says that the two numbers have digits and no leading
zeros, zero being positive; that is needed because comparisons rely on it.

**Products and quotients of digits.** a b = (a1 h + a0)(b1 h + b0), where the middle
sum a1 b0 + a0 b1 wraps at most once, and then is below its second term
(`MulDxDIs`); the square doubles one middle term by its shift (`SqrDIs`). For
a quotient, each half digit is guessed from the high half of a normalised divisor:
the guess is too large by at most two, and whether it is shows in a wrapped
sum (`HalfQuotientIs`, `Div2dx1dIs`).

**Products of numbers.** A product of two digits, a carry and a digit fit in two
digits (`CarryIs`, `MulStepIs`), so a row of a product adds a digit times a number
(`MulAddIs`, `RowIs`); after k rows the partial product is that of the k lowest
digits, with zeros above (`MulMagnitudesIs`). Squaring adds the squares of the
digits (`SquaresPartIs`) and, row by row, twice the products of each digit with
those above (`CrossRowIs`); the carry out of a row is a digit and a bit. A power of
two as a factor is a shift (`Mul2dIs`), and binary powering keeps the product of
the accumulator and what is left of the power (`PowerLoopIs`).

**Long division.** Shifting the highest bit of the divisor to the top of its digit
(`NormalisedIs`) changes no quotient and shifts the remainder back (`Denormal`). The
two highest digits of what is left, divided by the highest digit of such a divisor,
give a guess that is not below the quotient digit (`QuotientGuessIs`), and taking a
guess that is too large back ends at the digit (`BackOffIs`). Each turn of the loop
keeps the dividend equal to the quotient so far times the divisor plus what is left,
which stays below the divisor (`DivStepIs`, `DivLoopIs`, `DivIs`). Powers of two are
shifts to the right (`Div2dIs`, `Mod2dIs`), a digit as divisor is divided one digit
at a time (`DivDigitsIs`), and the signs are put on at the end (`QuotientIs`,
`ModIs`). `mp_mod_d` divides only a number above the digit or below minus it
(`ModDOfIs`), which leaves the exceptions of `DigitRemainder`.

**Modular powers and canonical digits.** After each turn over the bits of the
exponent, the accumulator times the base to what is left of the exponent is the
power modulo the modulus (`PowerStateTurns`, `ModLoopIs`). Each product there is
reduced by Barrett's method with mu = radix^2k div m: the estimate of the quotient
from the high digits is never above it and at most two below (`EstimateIs`). The
difference of the low k + 1 digits is then the remainder plus a few times m, or
that less radix^(k+1), which the code's negative branch adds back (`LowDifference`,
`ReduceIs`), and subtracting m while the rest is not below it ends at the remainder
(`BackOffModulusIs`). A number without leading zeros has no other digits than those
`DigitsOf` reads off the integer (`DigitsOfIs`, `CanonicalIs`). `CallInv`, that both
numbers have digits, no leading zeros and no negative zero, is inductive over the
calls (`CallInvKept`): each returns such a number or fails. Halving a negative
number may not, hence the hypothesis ~`NegativeHalves`, under which the runs are
made too.

`InStep`, `Exact`, `Mapped`, `SubmissionInv`, `FleetInv`, `Answered`, `UIntInv`,
`MadeInv`, `HeldInv`, `OpenedInv` and `RandInv` were checked with TLC as invariants of the runs
too. `MailInv` and `StreamInv` quantify over all sequences, which TLC cannot
enumerate; it checks what follows from them.

### Only model-checked

* `BatchCompletes`, `WellFormedServed`, `AllCollected`, `Returns`: liveness under
  fairness and ENABLED are out of the prover's reach. `SearchAdvances` has not
  been tried.
* `CleanupExact`, `ErrorsReportedElsewhere`: about a table of literals, which TLC
  enumerates.
* The bignum library beyond `MpiArith` and `MpiLong`: the modules for number theory,
  text, bits, Montgomery products, primes and binary fields use RECURSIVE operators
  or `Bitwise`, which no module with a theorem may reach.

## 5. Not modelled

The bytes of AES-CTR and of NSS's random generator (a PRG is its stream and a
position, random octets are any octets). The cryptography of NSS (symbolic).
Growing and freeing of a number's memory inside `mpi.c`. `mpcpucache.c`, which
asks the processor for the size of a cache line (any of `LineSizes` in
`MpMontg`), the table in `primes.c` (a constant of `MpPrime`), the assembly files
(they compute what their C counterparts do) and `mulsqr.c`, a timing tool. The
Python bindings: `libprio_wrap.c` is generated by SWIG and the rest is a thin
layer over the C interface. Tests and fuzzers, read as statements of intent.
Privacy: that a server learns nothing else is a property of distributions, not of
behaviours.

## 6. Plan

`SearchAdvances` of `MpPrime`, and the number theory of `MpiNumber` once its
loops are recursive functions.
