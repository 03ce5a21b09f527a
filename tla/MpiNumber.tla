------------------------------ MODULE MpiNumber ------------------------------
(***************************************************************************)
(* The number theory of src/mpi/mpi.c on top of the arithmetic of          *)
(* MpiArith: greatest common divisors and modular inverses.  poly.c and    *)
(* config.c of src/prio invert through mp_invmod.  Two numbers are counted *)
(* up and down and the functions are called on every pair.                 *)
(***************************************************************************)
EXTENDS MpiArith

CONSTANT Signed   \* whether the functions are called on negative numbers

ASSUME SignedAssumption == Signed \in BOOLEAN

Flip(a) == [a EXCEPT !.sign = 1 - a.sign]
One == mp_set(1)

mp_trailing_zeros(a) ==
  IF mp_cmp_z(a) = MP_EQ THEN 0
  ELSE LET ix == Min({i \in 1..Len(a.dp) : a.dp[i] # 0})
           bits == {k \in 0..(MP_DIGIT_BIT - 1) : a.dp[ix] % 2^k = 0}
       IN  MP_DIGIT_BIT * (ix - 1) + Max(bits)

-----------------------------------------------------------------------------
(* Greatest common divisors *)

RECURSIVE MakeOdd(_)
MakeOdd(t) == IF mp_iseven(t) THEN MakeOdd(s_mp_div_2(t)) ELSE t

\* u and v are the last positive and the last negated value of t.
RECURSIVE GcdLoop(_, _, _)
GcdLoop(u, v, t) ==
  LET odd == MakeOdd(t)
      u1 == IF mp_cmp_z(odd) = MP_GT THEN odd ELSE u
      v1 == IF mp_cmp_z(odd) = MP_GT THEN v ELSE Flip(odd)
      t1 == mp_sub(u1, v1)
  IN  IF s_mp_cmp_d(t1.dp, 0) = MP_EQ THEN u1 ELSE GcdLoop(u1, v1, t1)

RECURSIVE SplitTwos(_, _, _)
SplitTwos(u, v, k) ==
  IF mp_iseven(u) /\ mp_iseven(v)
  THEN SplitTwos(s_mp_div_2(u), s_mp_div_2(v), k + 1)
  ELSE [u |-> u, v |-> v, k |-> k]

mp_gcd(a, b) ==
  LET s == SplitTwos(mp_abs(a), mp_abs(b), 0)
      odd == GcdLoop(s.u, s.v, IF mp_isodd(s.u) THEN Flip(s.v) ELSE s.u)
  IN  CASE mp_cmp_z(a) = MP_EQ /\ mp_cmp_z(b) = MP_EQ -> MP_RANGE
        [] mp_cmp_z(a) = MP_EQ /\ mp_cmp_z(b) # MP_EQ -> b
        [] mp_cmp_z(a) # MP_EQ /\ mp_cmp_z(b) = MP_EQ -> a
        [] OTHER -> mp_mul(odd, s_mp_2expt(s.k))

mp_lcm(a, b) ==
  LET g == mp_gcd(a, b)
  IN  IF mp_cmp_z(a) = MP_EQ /\ mp_cmp_z(b) = MP_EQ THEN MP_RANGE
      ELSE mp_div(mp_mul(a, b), g).q

\* Halve u and its two coefficients while u is even; coefficients that are
\* not both even are first moved by yc and xc, which leaves their
\* combination the same.
RECURSIVE HalveRow(_, _, _)
HalveRow(r, xc, yc) ==
  IF ~mp_iseven(r.n) THEN r
  ELSE LET even == mp_iseven(r.p) /\ mp_iseven(r.q)
       IN  HalveRow([n |-> s_mp_div_2(r.n),
                     p |-> s_mp_div_2(IF even THEN r.p ELSE mp_add(r.p, yc)),
                     q |-> s_mp_div_2(IF even THEN r.q ELSE mp_sub(r.q, xc))],
                    xc, yc)

SubRow(r, s) ==
  [n |-> mp_sub(r.n, s.n), p |-> mp_sub(r.p, s.p), q |-> mp_sub(r.q, s.q)]

Subtracted(u, v) ==
  IF mp_cmp(u.n, v.n) >= 0 THEN [u |-> SubRow(u, v), v |-> v]
  ELSE [u |-> u, v |-> SubRow(v, u)]

XgcdStep(s, xc, yc) == Subtracted(HalveRow(s.u, xc, yc), HalveRow(s.v, xc, yc))

\* u = A xc + B yc and v = C xc + D yc throughout.
RECURSIVE XgcdLoop(_, _, _)
XgcdLoop(s, xc, yc) ==
  IF mp_cmp_z(s.u.n) = MP_EQ THEN s.v ELSE XgcdLoop(XgcdStep(s, xc, yc), xc, yc)

XgcdOf(xc, yc) ==
  XgcdLoop(XgcdStep([u |-> [n |-> xc, p |-> One, q |-> mp_zero],
                     v |-> [n |-> yc, p |-> mp_zero, q |-> One]], xc, yc), xc, yc)

TimesTwos(v, n) == [g |-> mp_mul(s_mp_2expt(n), v.n), x |-> v.p, y |-> v.q]

\* Called with a nonzero a: a zero is even for ever.
mp_xgcd(a, b) ==
  LET n == Min({mp_trailing_zeros(a), mp_trailing_zeros(b)})
  IN  IF mp_cmp_z(b) = MP_EQ THEN [g |-> MP_RANGE, x |-> MP_RANGE, y |-> MP_RANGE]
      ELSE TimesTwos(XgcdOf(s_mp_div_2d(mp_abs(a), n), s_mp_div_2d(mp_abs(b), n)), n)

-----------------------------------------------------------------------------
(* Modular inverses *)

RECURSIVE RaiseTo(_, _)
RaiseTo(c, p) == IF c.sign # ZPOS THEN RaiseTo(mp_add(c, p), p) ELSE c

\* c with a * c = 2^k (mod p): f and g shrink to one as in a gcd, c and d
\* follow them.
RECURSIVE AlmostLoop(_, _, _, _, _)
AlmostLoop(f, g, c, d, k) ==
  LET n == IF mp_iseven(f) THEN mp_trailing_zeros(f) ELSE 0
      f1 == s_mp_div_2d(f, n)
      d1 == [d EXCEPT !.dp = s_mp_mul_2d(d.dp, n)]
      swap == mp_cmp(f1, g) = MP_LT
      f2 == IF swap THEN g ELSE f1
      g2 == IF swap THEN f1 ELSE g
      c2 == IF swap THEN d1 ELSE c
      d2 == IF swap THEN c ELSE d1
      same == f2.dp[1] % 4 = g2.dp[1] % 4
  IN  CASE mp_iseven(f1) -> [c |-> MP_UNDEF, k |-> -1]
        [] ~mp_iseven(f1) /\ mp_cmp_d(f1, 1) = MP_EQ -> [c |-> c, k |-> k + n]
        [] ~mp_iseven(f1) /\ mp_cmp_d(f1, 1) # MP_EQ /\ mp_cmp(f1, g) = MP_EQ ->
             [c |-> MP_UNDEF, k |-> -1]
        [] OTHER -> IF same
                    THEN AlmostLoop(mp_sub(f2, g2), g2, mp_sub(c2, d2), d2, k + n)
                    ELSE AlmostLoop(mp_add(f2, g2), g2, mp_add(c2, d2), d2, k + n)

AboveZero(r, p) == IF Failed(r.c) THEN r ELSE [r EXCEPT !.c = RaiseTo(r.c, p)]

s_mp_almost_inverse(a, p) ==
  IF mp_cmp_z(a) = MP_EQ THEN [c |-> MP_UNDEF, k |-> -1]
  ELSE AboveZero(AlmostLoop(a, p, One, mp_zero, 0), p)

\* Newton's iteration on a digit doubles the right bits at each of six steps.
s_mp_invmod_radix(P) ==
  LET T[i \in 0..6] ==
        IF i = 0 THEN P ELSE LET t == T[i - 1] IN Wrap(t * Wrap(2 - P * t))
  IN  T[6]

\* c / 2^k mod p: multiples of p clear the low k bits of c, a digit at a
\* time, and the last of them only as many bits as are left.
s_mp_fixup_reciprocal(c, p, k) ==
  LET start == IF mp_cmp_z(c) = MP_LT THEN mp_add(c, p) ELSE c
      steps == (k + MP_DIGIT_BIT - 1) \div MP_DIGIT_BIT
      r == Wrap(-s_mp_invmod_radix(p.dp[1]))
      padded == [i \in 1..Max({steps + Len(p.dp) + 1, Len(start.dp)}) |->
                   At(start.dp, i)]
      f[ix \in 0..steps] ==
        IF ix = 0 THEN padded
        ELSE LET left == k - MP_DIGIT_BIT * (ix - 1)
                 v == Wrap(r * f[ix - 1][ix])
                 low == IF left < MP_DIGIT_BIT THEN v % 2^left ELSE v
             IN  SubSeq(f[ix - 1], 1, ix - 1)
                   \o s_mpv_mul_d_add_prop(p.dp, low,
                        SubSeq(f[ix - 1], ix, Len(f[ix - 1])))
  IN  s_mp_div_2d([start EXCEPT !.dp = s_mp_clamp(f[steps])], k)

FromAlmost(r, m) == IF Failed(r.c) THEN r.c ELSE s_mp_fixup_reciprocal(r.c, m, r.k)

s_mp_invmod_odd_m(a, m) ==
  CASE mp_cmp_z(a) = MP_EQ \/ mp_cmp_z(m) = MP_EQ -> MP_RANGE
    [] mp_cmp_z(a) # MP_EQ /\ mp_cmp_z(m) # MP_EQ /\ mp_iseven(m) -> MP_UNDEF
    [] OTHER -> FromAlmost(s_mp_almost_inverse(a, m), m)

\* The sign of a is given to the result.
FromBezout(e, a, m) == IF mp_cmp_d(e.g, 1) # MP_EQ THEN MP_UNDEF
                       ELSE [mp_mod(e.x, m) EXCEPT !.sign = a.sign]

mp_invmod_xgcd(a, m) ==
  IF mp_cmp_z(a) = MP_EQ \/ mp_cmp_z(m) = MP_EQ THEN MP_RANGE
  ELSE FromBezout(mp_xgcd(a, m), a, m)

\* Newton's iteration modulo 2^k, until a step changes nothing.
Low2d(a, k) == [a EXCEPT !.dp = s_mp_mod_2d(a.dp, k)]

NewtonStep(val, t, k) ==
  RaiseTo(Low2d(mp_mul(t, mp_sub(mp_set(2), mp_mul(val, t))), k), s_mp_2expt(k))

RECURSIVE NewtonLoop(_, _, _, _, _)
NewtonLoop(val, t0, t1, k, ix) ==
  CASE mp_cmp(t1, t0) = MP_EQ -> t1
    [] mp_cmp(t1, t0) # MP_EQ /\ ix = 1 -> MP_UNDEF
    [] OTHER -> NewtonLoop(val, t1, NewtonStep(val, t1, k), k, ix - 1)

Newton(val, k) == NewtonLoop(val, val, NewtonStep(val, val, k), k, k + 4)

s_mp_invmod_2d(a, k) ==
  LET i == s_mp_invmod_radix(a.dp[1])
  IN  CASE mp_iseven(a) -> MP_UNDEF
        [] mp_isodd(a) /\ k <= MP_DIGIT_BIT -> mp_set(i % 2^k)
        [] OTHER -> Newton(Low2d(a, k), k)

\* Without the last reduction, which the code calls perhaps unnecessary.
JoinParts_Unreduced(m, k, oddFactor, oddPart, evenPart, C2) ==
  IF \E part \in {oddPart, evenPart, C2} : Failed(part) THEN MP_UNDEF
  ELSE LET t == Low2d(mp_mul(mp_sub(evenPart, oddPart), C2), k)
       IN  mp_add(oddPart, mp_mul(RaiseTo(t, s_mp_2expt(k)), oddFactor))

\* The inverses modulo the odd factor and modulo 2^k, joined by the Chinese
\* remainder theorem.
JoinParts(m, k, oddFactor, oddPart, evenPart, C2) ==
  IF \E part \in {oddPart, evenPart, C2} : Failed(part) THEN MP_UNDEF
  ELSE LET t == Low2d(mp_mul(mp_sub(evenPart, oddPart), C2), k)
       IN  mp_mod(mp_add(oddPart, mp_mul(RaiseTo(t, s_mp_2expt(k)), oddFactor)), m)

s_mp_invmod_even_m(a, m) ==
  LET pow == s_mp_ispow2(m.dp)
      k == mp_trailing_zeros(m)
      oddFactor == s_mp_div_2d(m, k)
  IN  IF pow >= 0 THEN s_mp_invmod_2d(a, pow)
      ELSE JoinParts(m, k, oddFactor, s_mp_invmod_odd_m(a, oddFactor),
                     s_mp_invmod_2d(a, k), s_mp_invmod_2d(oddFactor, k))

mp_invmod(a, m) ==
  CASE mp_cmp_z(a) = MP_EQ \/ mp_cmp_z(m) = MP_EQ -> MP_RANGE
    [] mp_cmp_z(a) # MP_EQ /\ mp_cmp_z(m) # MP_EQ /\ mp_isodd(m) ->
         s_mp_invmod_odd_m(a, m)
    [] OTHER -> IF mp_iseven(a) THEN MP_UNDEF ELSE s_mp_invmod_even_m(a, m)

-----------------------------------------------------------------------------
Positive == mp_cmp_z(x) = MP_GT /\ mp_cmp_z(y) = MP_GT
Nonzero == mp_cmp_z(x) # MP_EQ /\ mp_cmp_z(y) # MP_EQ
Callable == Positive \/ (Signed /\ Nonzero)

NumberNext ==
  \/ Store(mp_gcd(x, y))
  \/ Store(mp_lcm(x, y))
  \/ Callable /\ Store(mp_xgcd(x, y).g)
  \/ Callable /\ Store(mp_xgcd(x, y).x)
  \/ Positive /\ Store(mp_invmod(x, y))
  \/ Positive /\ Store(mp_invmod_xgcd(x, y))

\* b ** e modulo m, for the properties of the modules that compute it.
RECURSIVE PowMod(_, _, _)
PowMod(b, e, m) ==
  IF e = 0 THEN 1 % m
  ELSE LET h == PowMod((b * b) % m, e \div 2, m)
       IN  IF e % 2 = 0 THEN h ELSE (h * (b % m)) % m

Divisors(n) == {d \in 1..Abs(n) : n % d = 0}
Gcd(m, n) == IF m = 0 THEN Abs(n) ELSE IF n = 0 THEN Abs(m)
             ELSE Max(Divisors(m) \cap Divisors(n))

(***************************************************************************)
(* The binary algorithms of mp_gcd and mp_xgcd end with the greatest       *)
(* common divisor, and mp_lcm divides it out of the product.               *)
(***************************************************************************)
GcdExact ==
  /\ ~Failed(mp_gcd(x, y)) => Abs(ValueOf(mp_gcd(x, y))) = Gcd(X, Y)
  /\ X = 0 /\ Y = 0 => Failed(mp_gcd(x, y))
  /\ Positive => /\ ValueOf(mp_xgcd(x, y).g) = Gcd(X, Y)
                 /\ ValueOf(mp_lcm(x, y)) * Gcd(X, Y) = X * Y

\* "Compute g = (a, b) and values x and y satisfying Bezout's identity"
Bezout ==
  Callable => LET e == mp_xgcd(x, y)
              IN  X * ValueOf(e.x) + Y * ValueOf(e.y) = ValueOf(e.g)

(***************************************************************************)
(* mp_invmod, by Schroeppel's method for odd moduli, Newton's iteration    *)
(* for powers of two and both of them for the others, finds the inverse in *)
(* 0..m-1 exactly when there is one, and mp_invmod_xgcd finds the same.    *)
(***************************************************************************)
InverseExact ==
  Positive /\ Y > 1 =>
    LET c == mp_invmod(x, y)
    IN  /\ Failed(c) <=> Gcd(X, Y) # 1
        /\ ~Failed(c) => /\ ValueOf(c) \in 1..(Y - 1)
                         /\ (X * ValueOf(c)) % Y = 1
                         /\ c = mp_invmod_xgcd(x, y)

(***************************************************************************)
(* The greatest common divisor, its coefficients and the inverses modulo   *)
(* odd and even numbers are those of the integers, whichever algorithm     *)
(* mp_invmod chooses.                                                      *)
(***************************************************************************)
NumberTheoryExact == GcdExact /\ Bezout /\ InverseExact

=============================================================================
