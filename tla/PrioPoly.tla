------------------------------ MODULE PrioPoly ------------------------------
(***************************************************************************)
(* Polynomials over the field in point and in coefficient form: the        *)
(* recursive FFT, interpolation through the roots of unity and evaluation  *)
(* at one point (prio/poly.c).                                             *)
(***************************************************************************)
EXTENDS PrioField

(* Mutant: the generator of the largest subgroup, whatever n. *)
poly_fft_get_roots_Unscaled(n, invert) ==
    LET base == IF invert THEN invmod(Generator) ELSE Generator
        root[i \in 1 .. n] == IF i = 1 THEN 1 ELSE mulmod(root[i - 1], base)
    IN  Array(n, LAMBDA i : root[i])

(* The powers of the generator of the subgroup of order n (or of its       *)
(* inverse), each computed from the one before.                            *)
poly_fft_get_roots(n, invert) ==
    LET base == IF invert THEN invmod(Generator) ELSE Generator
        gen  == exptmod(base, n_roots \div n)
        root[i \in 1 .. n] == IF i = 1 THEN 1 ELSE mulmod(root[i - 1], gen)
    IN  Array(n, LAMBDA i : root[i])

(* What fft_recurse is called with: a table of roots and as many points, a *)
(* divisor of n_roots of them.                                             *)
fft_input == {a \in Seq(Int) \X Seq(Int) :
                \E k \in 0 .. Generator2Order : Len(a[1]) = 2 ^ k /\ Len(a[2]) = 2 ^ k}

(* One level of the FFT: the half sums give the even outputs, the half     *)
(* differences scaled by the roots give the odd ones.                      *)
fft_recurse[a \in fft_input] ==
    LET roots == a[1]
        ys    == a[2]
        n     == Len(ys)
        h     == n \div 2
        rootsSub == Array(h, LAMBDA i : roots[2 * i - 1])
        sums     == Array(h, LAMBDA i : addmod(ys[i], ys[i + h]))
        diffs    == Array(h, LAMBDA i : mulmod(submod(ys[i], ys[i + h]), roots[i]))
        even     == fft_recurse[<<rootsSub, sums>>]
        odd      == fft_recurse[<<rootsSub, diffs>>]
    IN  IF n = 1 THEN ys
        ELSE Array(n, LAMBDA i : IF i % 2 = 1 THEN even[(i + 1) \div 2] ELSE odd[i \div 2])

fft_interpolate_raw(ys, roots, invert) ==
    LET out       == fft_recurse[<<roots, ys>>]
        n_inverse == invmod(Len(ys))
    IN  IF invert THEN Array(Len(ys), LAMBDA i : mulmod(out[i], n_inverse)) ELSE out

(* The length checks of poly_fft, on which it returns SECFailure. *)
poly_fft_accepts(n) == n <= n_roots /\ n_roots % n = 0

poly_fft(points_in, invert) ==
    fft_interpolate_raw(points_in, poly_fft_get_roots(Len(points_in), invert), invert)

(* Horner's rule. *)
poly_eval(coeffs, eval_at) ==
    LET n == Len(coeffs)
        value[i \in 1 .. n] ==
            IF i = n THEN coeffs[n] ELSE addmod(mulmod(value[i + 1], eval_at), coeffs[i])
    IN  value[1]

poly_interp_evaluate(poly_points, eval_at) ==
    poly_eval(poly_fft(poly_points, TRUE), eval_at)
=============================================================================
