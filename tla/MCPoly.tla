------------------------------- MODULE MCPoly -------------------------------
(***************************************************************************)
(* poly_fft, poly_eval and poly_interp_evaluate against the textbook       *)
(* definitions of the transform and of interpolation, for every length     *)
(* the roots of unity of a small field allow.                              *)
(***************************************************************************)
EXTENDS PrioPoly, FiniteSetsExt

CONSTANTS
    PointVals,   \* the values a point may have
    EvalVals     \* the points to evaluate at

(* Field elements, as every MPArray of the library holds. *)
ASSUME PolyAssumption == PointVals \subseteq Field /\ EvalVals \subseteq Field

Lengths == {n \in 1 .. n_roots : poly_fft_accepts(n)}

VARIABLES
    points,    \* points_in
    at,        \* eval_at
    result     \* what the routines return for them, <<>> before the calls

polyVars == <<points, at, result>>

PolyInit ==
    /\ points \in UNION {[1 .. n -> PointVals] : n \in Lengths}
    /\ at \in EvalVals
    /\ result = <<>>

Compute ==
    /\ result = <<>>
    /\ result' = [fft    |-> poly_fft(points, FALSE),
                  interp |-> poly_interp_evaluate(points, at)]
    /\ UNCHANGED <<points, at>>

Computed == result # <<>> /\ UNCHANGED polyVars

PolyNext == Compute \/ Computed

PolySpec == PolyInit /\ [][PolyNext]_polyVars

-----------------------------------------------------------------------------
(* Reference definitions *)

(* A primitive root of unity of order n. *)
omega(n) == exptmod(Generator, n_roots \div n)

(* The value of the polynomial with the given coefficients at x. *)
PolyValue(coeffs, x) ==
    MapThenSumSet(LAMBDA i : coeffs[i] * exptmod(x, i - 1), DOMAIN coeffs) % Modulus

(* The k-th of the n roots of unity. *)
root(n, k) == exptmod(omega(n), k - 1)

(* The product of x - root(n, k) for the k of S. *)
Vanishing(n, S, x) == FoldSet(LAMBDA k, acc : mulmod(acc, submod(x, root(n, k))), 1, S)

(* Lagrange's formula for the polynomial through (root(n, i), ys[i]). *)
Lagrange(ys, x) ==
    LET n         == Len(ys)
        others(i) == (1 .. n) \ {i}
    IN  MapThenSumSet(LAMBDA i : ys[i] * mulmod(Vanishing(n, others(i), x),
                                                invmod(Vanishing(n, others(i), root(n, i)))),
                      1 .. n) % Modulus

-----------------------------------------------------------------------------
(* The recursion of fft_recurse, with its halved root tables, yields at    *)
(* position j the value of the polynomial at the j-th root of unity.       *)
FFTIsEvaluation ==
    result # <<>> =>
        \A j \in 1 .. Len(points) : result.fft[j] = PolyValue(points, root(Len(points), j))

(* poly_interp_evaluate is Lagrange interpolation through the roots of     *)
(* unity: what compute_shares relies on for shares of f, g and h.          *)
InterpIsLagrange == result # <<>> => result.interp = Lagrange(points, at)

(* poly_fft and poly_interp_evaluate against evaluation and Lagrange's     *)
(* formula.                                                                *)
TransformsExact == FFTIsEvaluation /\ InterpIsLagrange

=============================================================================
