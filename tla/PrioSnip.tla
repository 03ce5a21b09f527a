------------------------------ MODULE PrioSnip ------------------------------
(***************************************************************************)
(* The secret-shared proof of one submission: what the client computes     *)
(* (prio/client.c) and what each server computes from its half             *)
(* (compute_shares, PrioPacketVerify1_set_data, PrioPacketVerify2_set_data *)
(* and PrioVerifier_isValid of prio/server.c), as operators.               *)
(*                                                                         *)
(* A random value the code draws is a parameter.  A PRG seed is the        *)
(* stream of field elements the PRG yields from it: seed[k] is the k-th    *)
(* value PRG_get_int returns.                                              *)
(***************************************************************************)
EXTENDS PrioPoly

PRIO_SERVER_A == 0
PRIO_SERVER_B == 1
Server == {PRIO_SERVER_A, PRIO_SERVER_B}

(* The N of client.c and server.c: points on f and g; h has 2 * N. *)
N == next_power_of_two(NumFields + 1)

(* [n + 1, modulus) with n = num_data_fields + 1. *)
EvalPoints == (NumFields + 2) .. (Modulus - 1)

MPArray_resize(arr, len) == Array(len, LAMBDA i : IF i <= Len(arr) THEN arr[i] ELSE 0)

(* len field elements of the stream of seed, after the first `from`. *)
PRG_get_array(seed, from, len) == [i \in 1 .. len |-> seed[from + i]]

(* Server A's shares of src: each element minus the next one of prgB. *)
PRG_share_array(seed, from, src) == Array(Len(src), LAMBDA i : submod(src[i], seed[from + i]))

-----------------------------------------------------------------------------
(* Client *)

(* Interpolate <<const_term, data...>> through the N-th roots of unity and *)
(* evaluate at the 2N-th ones.                                             *)
data_polynomial_evals(data_in, const_term) ==
    LET points_f == MPArray_resize(<<const_term>> \o data_in, N)
        poly_f   == poly_fft(points_f, TRUE)
    IN  poly_fft(MPArray_resize(poly_f, 2 * N), FALSE)

(* h at the 2N-th roots of unity that are not N-th roots. *)
h_evals(data_in, f0, g0) ==
    LET points_g == Array(Len(data_in), LAMBDA i : submod(data_in[i], 1))
        evals_f  == data_polynomial_evals(data_in, f0)
        evals_g  == data_polynomial_evals(points_g, g0)
    IN  Array(N, LAMBDA j : mulmod(evals_f[2 * j], evals_g[2 * j]))

(* The packet for each server.  Server A gets src - prgB for every data    *)
(* field and then for every point of h; server B gets the seed of prgB.    *)
PrioPacketClient_set_data(data_in, rnd) ==
    LET triple == BeaverTriple_set_rand(rnd.triple)
        f0     == share_int(rnd.f0, rnd.f0A)
        g0     == share_int(rnd.g0, rnd.g0A)
        h0     == share_int(mulmod(rnd.f0, rnd.g0), rnd.h0A)
        h      == h_evals(data_in, rnd.f0, rnd.g0)
    IN  [A |-> [triple |-> triple.A, f0 |-> f0.A, g0 |-> g0.A, h0 |-> h0.A,
                data_shares |-> PRG_share_array(rnd.seed, 0, data_in),
                h_points |-> PRG_share_array(rnd.seed, NumFields, h)],
         B |-> [triple |-> triple.B, f0 |-> f0.B, g0 |-> g0.B, h0 |-> h0.B,
                seed |-> rnd.seed]]

-----------------------------------------------------------------------------
(* Server *)

(* Mutant: server B expands the points of h before the data fields. *)
data_share_HFirst(s, packets) ==
    IF s = PRIO_SERVER_A THEN packets.A.data_shares
    ELSE PRG_get_array(packets.B.seed, N, NumFields)

(* The shares a server holds of one submission: server A reads them from   *)
(* its packet, server B expands them from the seed, data fields first.     *)
data_share(s, packets) ==
    IF s = PRIO_SERVER_A THEN packets.A.data_shares
    ELSE PRG_get_array(packets.B.seed, 0, NumFields)

h_share(s, packets) ==
    IF s = PRIO_SERVER_A THEN packets.A.h_points
    ELSE PRG_get_array(packets.B.seed, NumFields, N)

packet_of(s, packets) == IF s = PRIO_SERVER_A THEN packets.A ELSE packets.B

(* Mutant: both servers subtract the 1 of g. *)
compute_shares_BothShift(s, packets, eval_at) ==
    LET p        == packet_of(s, packets)
        data     == data_share(s, packets)
        hs       == h_share(s, packets)
        shifted  == Array(NumFields, LAMBDA i : submod(data[i], 1))
        points_f == MPArray_resize(<<p.f0>> \o data, N)
        points_g == MPArray_resize(<<p.g0>> \o shifted, N)
        points_h == Array(2 * N, LAMBDA i :
                        IF i = 1 THEN p.h0 ELSE IF i % 2 = 0 THEN hs[i \div 2] ELSE 0)
    IN  [fR |-> poly_interp_evaluate(points_f, eval_at),
         gR |-> poly_interp_evaluate(points_g, eval_at),
         hR |-> poly_interp_evaluate(points_h, eval_at)]

(* Shares of f, g and h as points, then interpolated and evaluated.  Only  *)
(* server A subtracts the 1 of g; h vanishes at the data points.           *)
compute_shares(s, packets, eval_at) ==
    LET p        == packet_of(s, packets)
        data     == data_share(s, packets)
        hs       == h_share(s, packets)
        shifted  == Array(NumFields, LAMBDA i :
                        IF s = PRIO_SERVER_A THEN submod(data[i], 1) ELSE data[i])
        points_f == MPArray_resize(<<p.f0>> \o data, N)
        points_g == MPArray_resize(<<p.g0>> \o shifted, N)
        points_h == Array(2 * N, LAMBDA i :
                        IF i = 1 THEN p.h0 ELSE IF i % 2 = 0 THEN hs[i \div 2] ELSE 0)
    IN  [fR |-> poly_interp_evaluate(points_f, eval_at),
         gR |-> poly_interp_evaluate(points_g, eval_at),
         hR |-> poly_interp_evaluate(points_h, eval_at)]

(* Mutant: the mp_mod after mp_sub is missing. *)
Verify1_Unreduced(shares, triple) ==
    [d |-> shares.fR - triple.a, e |-> shares.gR - triple.b]

(* [d] = [f(r)] - [a] and [e] = [g(r)] - [b]. *)
PrioPacketVerify1_set_data(shares, triple) ==
    [d |-> submod(shares.fR, triple.a), e |-> submod(shares.gR, triple.b)]

(* Mutant: both servers add the whole of d*e. *)
Verify2_NoHalf(shares, triple, p1A, p1B) ==
    LET d == addmod(p1A.d, p1B.d)
        e == addmod(p1A.e, p1B.e)
    IN  submod(mulmod(d, e) + mulmod(d, triple.b) + mulmod(e, triple.a) + triple.c, shares.hR)

(* [d*e/2] + d[b] + e[a] + [c] - [h(r)], reduced after every operation. *)
PrioPacketVerify2_set_data(shares, triple, p1A, p1B) ==
    LET d  == addmod(p1A.d, p1B.d)
        e  == addmod(p1A.e, p1B.e)
        t1 == mulmod(mulmod(d, e), inv2)
        t2 == addmod(t1, mulmod(d, triple.b))
        t3 == addmod(t2, mulmod(e, triple.a))
        t4 == addmod(t3, triple.c)
    IN  submod(t4, shares.hR)

(* Mutant: any sum that is not negative is accepted. *)
PrioVerifier_isValid_NotNegative(p2A, p2B) == addmod(p2A, p2B) >= 0

(* The reconstructed f(r)g(r) - h(r) is zero. *)
PrioVerifier_isValid(p2A, p2B) == addmod(p2A, p2B) = 0
=============================================================================
