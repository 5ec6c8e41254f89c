-------------------------------- MODULE Ntt --------------------------------
(***************************************************************************)
(* Products in Z_q[X] / (X^n + 1) (src/src/mlwe.rs): the number theoretic  *)
(* transform with its precomputed plan, and the schoolbook product used    *)
(* for small rings.  A polynomial, and an image of one, is a function on   *)
(* 0..(n - 1).  All inputs and intermediate values keep Rust's sign: % of  *)
(* a negative number is negative.                                          *)
(***************************************************************************)
EXTENDS Integers, Sequences

CONSTANTS
    Q,            \* the modulus
    Generator,    \* 175, from which the roots of unity of a ring are taken
    HalfWord      \* 2^31: an i32 holds -HalfWord..(HalfWord - 1)

ASSUME ModulusAssumption == Q \in Nat \ {0, 1, 2}

ASSUME WordAssumption == HalfWord \in Nat /\ HalfWord > Q

(* Rust's a % Q.                                                           *)
Rem(a) == IF a >= 0 THEN a % Q ELSE -((-a) % Q)

(* Polynomial::mod_reduce                                                  *)
ModReduce(c) == (Rem(c) + Q) % Q

(* c as i32                                                                *)
AsWord(c) == ((c + HalfWord) % (2 * HalfWord)) - HalfWord

(* Polynomial::_mod_exp                                                    *)
ModExp(base, exponent) ==
    LET loop[result \in Nat, b \in Nat, e \in Nat] ==
            IF e = 0 THEN result
            ELSE loop[IF e % 2 = 1 THEN (result * b) % Q ELSE result, (b * b) % Q, e \div 2]
    IN  loop[1, base % Q, exponent]

(* log2 of a ring degree, a power of two.                                  *)
Log2(n) == CHOOSE l \in 0..n : 2^l = n

Zero(n) == [i \in 0..(n - 1) |-> 0]

Add(a, b) == [i \in DOMAIN a |-> ModReduce(a[i] + b[i])]

-----------------------------------------------------------------------------
(* The plan of a ring.                                                     *)

(* _precompute_twiddles: a stage for each k = 1, 2, 4, ... below n.        *)
PrecomputeTwiddles(omega, n) ==
    [s \in 0..(Log2(n) - 1) |->
        LET step == ModExp(omega, n \div (2 * 2^s))
            w[i \in 0..(2^s - 1)] == IF i = 0 THEN 1 ELSE (w[i - 1] * step) % Q
        IN  w]

(* The literal pair of n = 256 is such a pair too: see MCNttCaches.        *)
Omega(n) == ModExp(Generator, (Q - 1) \div n)

(* Variant: psi is taken for the degree, not for twice the degree.         *)
PsiOfDegree(n) == ModExp(Generator, (Q - 1) \div n)

Psi(n) == ModExp(Generator, (Q - 1) \div (2 * n))

(* NttPlan::for_ring past its cache.                                       *)
ForRing(n) ==
    LET psi_inv == ModExp(Psi(n), Q - 2)
    IN  [n |-> n,
         psi_powers     |-> [i \in 0..(n - 1) |-> ModExp(Psi(n), i)],
         psi_inv_powers |-> [i \in 0..(n - 1) |-> ModExp(psi_inv, i)],
         twiddles       |-> PrecomputeTwiddles(Omega(n), n),
         twiddles_inv   |-> PrecomputeTwiddles(ModExp(Omega(n), Q - 2), n),
         n_inv          |-> ModExp(n, Q - 2)]

-----------------------------------------------------------------------------
(* The transform.                                                          *)

(* The bits of an index, reversed.                                         *)
Reversed(index, bits) ==
    LET loop[b \in Nat, reversed \in Nat, temp \in Nat] ==
            IF b = 0 THEN reversed ELSE loop[b - 1, 2 * reversed + (temp % 2), temp \div 2]
    IN  loop[bits, 0, index]

BitReverse(input, n) == [i \in 0..(n - 1) |-> input[Reversed(i, Log2(n))]]

(* One stage over the whole array: position p is the lower or the upper    *)
(* half of the butterfly whose lower half is at position low.              *)
Butterflies(r, w, k, n) ==
    [p \in 0..(n - 1) |->
        LET low == p - (p % (2 * k)) + (p % k)
            t   == Rem(w[p % k] * r[low + k])
        IN  IF p = low THEN Rem(r[low] + t) ELSE Rem(Rem(r[low] - t) + Q)]

(* _ntt_fast, and _intt_fast up to its scaling.                            *)
NttFast(a, twiddles, n) ==
    LET stage[s \in 0..Log2(n)] ==
            IF s = 0 THEN BitReverse(a, n)
            ELSE Butterflies(stage[s - 1], twiddles[s - 1], 2^(s - 1), n)
    IN  stage[Log2(n)]

InttFast(a, plan) ==
    LET r == NttFast(a, plan.twiddles_inv, plan.n)
    IN  [i \in 0..(plan.n - 1) |-> ModReduce(Rem(r[i] * plan.n_inv))]

Forward(plan, poly) ==
    NttFast([i \in 0..(plan.n - 1) |-> Rem(poly[i] * plan.psi_powers[i])],
            plan.twiddles, plan.n)

Inverse(plan, image) ==
    [i \in 0..(plan.n - 1) |-> Rem(InttFast(image, plan)[i] * plan.psi_inv_powers[i])]

-----------------------------------------------------------------------------
(* Products.                                                               *)

(* The pointwise products of a row with a vector, accumulated.             *)
RowAccumulated(row, images, n) ==
    [x \in 0..(n - 1) |->
        LET acc[j \in 0..Len(row)] ==
                IF j = 0 THEN 0 ELSE Rem(acc[j - 1] + row[j][x] * images[j][x])
        IN  acc[Len(row)]]

(* _mul_ntt_optimized: a plan of its own, and pointwise products >= 0.     *)
MulNttOptimized(a, b, n) ==
    LET plan == ForRing(n)
        fa   == Forward(plan, a)
        fb   == Forward(plan, b)
    IN  Inverse(plan, [x \in 0..(n - 1) |-> ModReduce(fa[x] * fb[x])])

(* The integer coefficients of the product before any reduction.           *)
NegacyclicProduct(a, b, n) ==
    [i \in 0..(n - 1) |->
        LET sum[j \in 0..n] ==
                IF j = 0 THEN 0
                ELSE LET u == j - 1
                     IN  sum[u] + (IF u <= i THEN a[u] * b[i - u] ELSE -(a[u] * b[n + i - u]))
        IN  sum[n]]

(* _mul_naive: each integer coefficient is cut to 32 bits, then reduced.   *)
MulNaive(a, b, n) ==
    [i \in 0..(n - 1) |-> ModReduce(AsWord(NegacyclicProduct(a, b, n)[i]))]

(* The integer coefficients of the product are within 32 bits.             *)
FitsWord(a, b, n) ==
    \A i \in 0..(n - 1) : NegacyclicProduct(a, b, n)[i] \in (-HalfWord)..(HalfWord - 1)

-----------------------------------------------------------------------------
(* What the transform computes: the values at the odd powers of psi.       *)

EvaluateAt(poly, point, n) ==
    LET horner[i \in 0..n] == IF i = 0 THEN 0 ELSE (horner[i - 1] * point + poly[n - i]) % Q
    IN  horner[n]

IsImage(image, poly, n) ==
    \A x \in 0..(n - 1) :
        image[x] % Q = EvaluateAt(poly, ModExp(Psi(n), 2 * x + 1), n)

=============================================================================
