------------------------------ MODULE MpPrime ------------------------------
(***************************************************************************)
(* src/mpi/mpprime.c: the search for a prime of nBits bits from a random   *)
(* start, and for a strong one, 2p + 1 with p prime.  The candidates that  *)
(* the sieve leaves go through a Fermat test and then Miller-Rabin rounds, *)
(* each with a witness from rand().  x is the number under test and y the  *)
(* start.  mp_exptmod is the power itself, which is what MpMontg shows it   *)
(* to be.                                                                  *)
(***************************************************************************)
EXTENDS MpiNumber

CONSTANTS
  prime_tab,     \* the table of small primes, 2 first
  MinBits,       \* 16 in the code, which no table prime is longer than
  Lengths,       \* the nBits that callers ask for
  SIEVE_SIZE,    \* 32 * 1024 in the code
  num_tests      \* rounds: 3 to 50 in the code, by nBits

ASSUME MpPrimeAssumption ==
  /\ \A i \in DOMAIN prime_tab : prime_tab[i] \in 2..(2^MinBits - 1)
  /\ MinBits \in Nat /\ Lengths \subseteq Nat
  /\ SIEVE_SIZE \in Nat /\ num_tests \in Nat \ {0}

VARIABLES
  pc,       \* "start", "next", "trial", "strong", "YES", "NO" or "RANGE"
  strong, sieve, i, iter,
  res,      \* what the last test said of the number: "YES" or "NO"
  witness,  \* of the round, or 0 when it is not drawn yet
  exposed   \* history: a base drawn for this number shows that it is composite
searchVars == <<pc, strong, sieve, i, iter, res, witness, exposed>>
primeVars == <<x, y, searchVars>>

-----------------------------------------------------------------------------
(* Divisibility and tests *)

mpp_divis(a, b) == mp_cmp_z(mp_mod(a, b)) = MP_EQ
mpp_divis_d(a, d) == d # 0 /\ mp_mod_d(a, d) = mp_zero

\* The index of the first digit of vec that divides a, or 0.
s_mpp_divp(a, vec, size) ==
  LET first(found) == IF found = {} THEN 0 ELSE Min(found)
  IN  first({ix \in 1..size : mp_mod_d(a, vec[ix]) = mp_zero})
mpp_divis_vector(a, vec, size) == s_mpp_divp(a, vec, size)

\* The first of the first np primes that divides a, or 0.
mpp_divis_primes(a, np) ==
  LET prime(which) == IF which = 0 THEN 0 ELSE prime_tab[which]
  IN  prime(mpp_divis_vector(a, prime_tab, Min({np, Len(prime_tab)})))

mp_exptmod_value(b, e, m) == Number(PowMod(ValueOf(b) % ValueOf(m), ValueOf(e), ValueOf(m)))

mpp_fermat(a, w) == mp_cmp(mp_set(w), mp_exptmod_value(mp_set(w), a, a)) = MP_EQ
mpp_fermat_list(a, primes, nPrimes) == \A k \in 1..nPrimes : mpp_fermat(a, primes[k])

\* mpp_random fills as many digits as a has, and mp_mod leaves any residue.
Witnesses(a) == 0..(MagnitudeOf(a.dp) - 1)

\* The squarings after the first power: a number is composite when one of
\* them is 1 or none is a - 1.
RECURSIVE Squares(_, _, _, _)
Squares(square, amo, a, left) ==
  /\ left > 0
  /\ mp_cmp_d(square, 1) # MP_EQ
  /\ \/ mp_cmp(square, amo) = MP_EQ
     \/ Squares(mp_sqrmod(square, a), amo, a, left - 1)

\* One round of mpp_pprime with a witness above 1, for an odd a.
PassesWith(z, amo, a, b) ==
  \/ mp_cmp_d(z, 1) = MP_EQ
  \/ mp_cmp(z, amo) = MP_EQ
  \/ Squares(mp_sqrmod(z, a), amo, a, b - 1)

Round(a, w) ==
  LET amo == mp_sub_d(a, 1)
      b == mp_trailing_zeros(amo)
  IN  PassesWith(mp_exptmod_value(w, mp_div_2d(amo, b).q, a), amo, a, b)

\* A witness of 0 or 1 is drawn again: only the draw that is kept is a step.
Accepts(v) == mp_cmp_d(Number(v), 1) = MP_GT

RemD(a, d) == ValueOf(mp_mod_d(a, d))

\* What a base shows of an odd n by the definition: neither its power by the
\* odd part of n - 1 is 1 nor a power by that and fewer twos than n - 1 has, n - 1.
Exposes(w, n) ==
  LET twos(k) == (n - 1) % 2^k = 0
      b == CHOOSE k \in 1..n : twos(k) /\ ~twos(k + 1)
      m == (n - 1) \div 2^b
  IN  /\ PowMod(w % n, m, n) # 1
      /\ \A j \in 0..(b - 1) : PowMod(w % n, m * 2^j, n) # n - 1

\* The numbers trial + 2 * k that a prime of the list divides.
mpp_sieve_OffByOne(trial, primes, nSieve) ==
  {k \in 0..(nSieve - 1) :
     \E j \in DOMAIN primes : (2 * k + RemD(trial, primes[j]) + 1) % primes[j] = 0}
mpp_sieve(trial, primes, nSieve) ==
  LET struck(k, p, offset) == 2 * k >= offset /\ (2 * k - offset) % p = 0
      offset(p, rem) == IF rem = 0 THEN 0 ELSE p - rem
  IN  {k \in 0..(nSieve - 1) :
         \E j \in DOMAIN primes :
           struck(k, primes[j], offset(primes[j], RemD(trial, primes[j])))}

-----------------------------------------------------------------------------
(* mpp_make_prime *)

PrimeInit ==
  /\ pc = "start" /\ strong \in BOOLEAN
  /\ x = mp_zero
  /\ y \in {Number(v) : v \in 0..MaxMagnitude}
  /\ sieve = {} /\ i = 0 /\ iter = 0 /\ res = "NO" /\ witness = 0 /\ exposed = FALSE

\* The top and the lowest bit are set and those above the top are cleared.
Start(nBits) ==
  LET bits == IF strong THEN nBits - 1 ELSE nBits
      low == MagnitudeOf(y.dp) % 2^(bits - 1)
      start == Number(2^(bits - 1) + low + 1 - (low % 2))
  IN  /\ pc = "start"
      /\ nBits > MinBits
      /\ y' = start
      /\ sieve' = mpp_sieve(start, Tail(prime_tab), SIEVE_SIZE)
      /\ pc' = "next"
      /\ UNCHANGED <<x, strong, i, iter, res, witness, exposed>>

Refuse(nBits) ==
  /\ pc = "start"
  /\ nBits <= MinBits
  /\ pc' = "RANGE"
  /\ UNCHANGED <<x, y, strong, sieve, i, iter, res, witness, exposed>>

\* A number is composite and the search goes on; res stays as the test left it.
NextCandidate_Same(result) ==
  pc' = "next" /\ res' = result /\ UNCHANGED <<x, y, i, iter>>
NextCandidate(result) ==
  pc' = "next" /\ res' = result /\ i' = i + 1 /\ UNCHANGED <<x, y, iter>>

\* The next number of the sieve.  One the sieve knows is skipped untested.
Candidate ==
  LET trial == mp_add_d(y, 2 * i)
  IN  /\ pc = "next"
      /\ i < SIEVE_SIZE
      /\ \/ i \in sieve /\ NextCandidate(res) /\ UNCHANGED exposed
         \/ /\ i \notin sieve
            /\ x' = trial
            /\ exposed' = FALSE
            /\ IF mpp_fermat(trial, 2)
               THEN pc' = "trial" /\ iter' = 0 /\ UNCHANGED <<i, res>>
               ELSE pc' = "next" /\ i' = i + 1 /\ res' = "NO" /\ UNCHANGED iter
            /\ UNCHANGED y
      /\ UNCHANGED <<strong, sieve, witness>>

\* The end of the sieve.  res is what the last test said, and a divisor found
\* for 2p + 1 says MP_YES.
Exhausted ==
  /\ pc = "next"
  /\ i = SIEVE_SIZE
  /\ pc' = res
  /\ y' = IF res = "YES" THEN x ELSE y
  /\ UNCHANGED <<x, strong, sieve, i, iter, res, witness, exposed>>

\* p passed; the tests of q = 2p + 1 before its rounds.
Strengthen ==
  LET q == mp_add_d(mp_mul_2(x), 1)
  IN  IF mpp_divis_primes(q, Len(prime_tab)) # 0 THEN NextCandidate("YES")
      ELSE IF ~mpp_fermat(q, 2) THEN NextCandidate("NO")
      ELSE pc' = "strong" /\ x' = q /\ iter' = 0 /\ UNCHANGED <<y, i, res>>

Passed ==
  IF strong /\ pc = "trial" THEN Strengthen
  ELSE pc' = "YES" /\ y' = x /\ res' = "YES" /\ UNCHANGED <<x, i, iter>>

Draw(v) ==
  /\ pc \in {"trial", "strong"}
  /\ witness = 0
  /\ Accepts(v)
  /\ witness' = v
  /\ UNCHANGED <<x, y, pc, strong, sieve, i, iter, res, exposed>>

\* A round of mpp_pprime.
Test ==
  /\ witness # 0
  /\ witness' = 0
  /\ exposed' = (exposed \/ Exposes(witness, X))
  /\ IF ~Round(x, Number(witness)) THEN NextCandidate("NO")
     ELSE IF iter + 1 < num_tests THEN iter' = iter + 1 /\ UNCHANGED <<x, y, pc, i, res>>
     ELSE Passed
  /\ UNCHANGED <<strong, sieve>>

PrimeNext ==
  \/ \E nBits \in Lengths : Start(nBits) \/ Refuse(nBits)
  \/ Candidate
  \/ Exhausted
  \/ \E v \in Witnesses(x) : Draw(v)
  \/ Test

PrimeSpec == PrimeInit /\ [][PrimeNext]_primeVars

-----------------------------------------------------------------------------
(* Properties *)

IsPrime(n) == n > 1 /\ \A d \in 2..(n - 1) : n % d # 0

(***************************************************************************)
(* "If MP_NO is returned, the number is definitely composite": no number   *)
(* that the search has passed over, at the sieve, at a Fermat test or at a *)
(* round with whatever witness, was one it looks for.  The exception is a  *)
(* prime of the table itself, which the sieve strikes with its multiples:  *)
(* p of a strong prime of MinBits + 1 bits is short enough.                *)
(***************************************************************************)
NoPrimePassedOver ==
  pc \in {"next", "trial", "strong", "NO"} =>
    \A k \in 0..(i - 1) :
      LET p == Y + 2 * k
      IN  IsPrime(p) /\ p \notin Range(prime_tab) => strong /\ ~IsPrime(2 * p + 1)

TableDivides(n) == \E d \in Range(prime_tab) : n % d = 0

(***************************************************************************)
(* "If MP_YES is returned, it is probably prime (but that is not           *)
(* guaranteed)" (mpprime.c:268).  What is: no prime of the table divides   *)
(* the number, it passes the Fermat test by 2, and num_tests bases were    *)
(* drawn of which none shows it to be composite; the same of p when the    *)
(* number is the strong prime 2p + 1.  A composite such as 341 = 11 * 31   *)
(* passes when the draws miss its witnesses.  When the sieve has ended     *)
(* (i = SIEVE_SIZE), YES is left over from a p whose 2p + 1 has a divisor: *)
(* the number is such a p then, not a strong prime.                        *)
(***************************************************************************)
ProbablyPrime(n) == ~TableDivides(n) /\ PowMod(2, n, n) = 2
FoundProbablePrime ==
  pc = "YES" =>
    LET ended == i = SIEVE_SIZE
    IN  /\ ProbablyPrime(Y)
        /\ iter = num_tests - 1 /\ ~exposed
        /\ strong /\ ~ended => ProbablyPrime((Y - 1) \div 2)
        /\ ended => strong /\ TableDivides(2 * Y + 1)

(***************************************************************************)
(* A round never rejects an odd prime, and at most a quarter of the        *)
(* witnesses of an odd composite pass, which is what num_tests counts on.  *)
(***************************************************************************)
QuarterOfWitnesses ==
  (pc = "next" /\ i = 0) =>
    LET witnesses == 2..(Y - 1)
        pass == {w \in witnesses : Round(y, Number(w))}
    IN  IF IsPrime(Y) THEN pass = witnesses ELSE 4 * Cardinality(pass) <= Y - 1

(***************************************************************************)
(* mpp_divis and, for a number above the digit or a digit of the table     *)
(* other than it, mpp_divis_d and the vector of primes answer whether      *)
(* there is no remainder.  A number equal to a digit is not divisible by   *)
(* it, since mp_mod_d answers with the digit.                              *)
(***************************************************************************)
DivisExact ==
  pc = "next" =>
    /\ \A d \in 1..MP_DIGIT_MAX : /\ mpp_divis(y, Number(d)) <=> Y % d = 0
                                  /\ Y > d => (mpp_divis_d(y, d) <=> Y % d = 0)
    /\ LET p == mpp_divis_primes(y, Len(prime_tab))
           dividing == {k \in DOMAIN prime_tab : prime_tab[k] # Y /\ Y % prime_tab[k] = 0}
       IN  p = IF dividing = {} THEN 0 ELSE prime_tab[Min(dividing)]

(***************************************************************************)
(* Every step takes the search on: to the next test of a number, or to the *)
(* next number when a test fails.  So it ends after at most SIEVE_SIZE     *)
(* numbers, although a draw of a witness may be repeated.                  *)
(***************************************************************************)
Rank ==
  LET stage == CASE pc = "start" -> 0 [] pc = "next" -> 1 [] pc = "trial" -> 2
                 [] pc = "strong" -> 3 [] OTHER -> 4
      perNumber == 8 * num_tests
  IN  IF pc = "start" THEN 0
      ELSE IF stage = 4 THEN (SIEVE_SIZE + 1) * perNumber + 1
      ELSE 1 + i * perNumber + (stage - 1) * 2 * num_tests + 2 * iter
             + (IF witness = 0 THEN 0 ELSE 1)
SearchAdvances == [][Rank' > Rank]_searchVars

(***************************************************************************)
(* The search passes over no prime but those of its table, stops only at a *)
(* number that nothing it tried shows to be composite, and its tests by    *)
(* division and by witnesses are as strong as num_tests assumes.           *)
(***************************************************************************)
PrimeSearchExact ==
  NoPrimePassedOver /\ FoundProbablePrime /\ QuarterOfWitnesses /\ DivisExact

============================================================================
