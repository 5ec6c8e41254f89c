------------------------------ MODULE Trapdoor ------------------------------
(***************************************************************************)
(* Trapdoor generation and preimage sampling (src/src/trapdoor.rs and      *)
(* src/src/trapdoor/strict.rs).  The public matrix is A = [A' | G - A'R]   *)
(* for a gadget matrix G of powers of the base and a small secret R; a     *)
(* preimage of u is [R e2 + noise | e2] where e2 are the digits of         *)
(* u - A' noise, found by a loop over the digit places.                    *)
(*                                                                         *)
(* Ring elements are polynomials of one coefficient, n = 1: integers mod q *)
(* (Ntt is about their products).  Every coefficient goes through the same *)
(* digit loop on its own, so the loop's variables are those of one place   *)
(* for all rows.  A call that panics has no action.                        *)
(***************************************************************************)
EXTENDS Modulus, Sequences, Functions

CONSTANTS
    K, Ell, Base, Gamma1,   \* MLWEParameters: k, ell, base, gamma1
    APrimes,    \* the matrices A' callers pass or a seed expands to
    Trapdoors,  \* the matrices R the generator may draw
    Targets,    \* the vectors callers want a preimage of
    Noises,     \* the noise vectors the Gaussian sampler may draw
    None        \* no pair generated yet, no witness

ASSUME ParametersAssumption ==
    /\ K \in Nat \ {0, 1} /\ Ell \in Nat \ {0} /\ Base \in Nat \ {0, 1}
    /\ Q > 2 * Base
    /\ Gamma1 \in Nat /\ Gamma1 < Q \div 2

VARIABLES
    matrix,     \* the public matrix A, or None
    trapdoor,   \* the R the caller holds with it
    drawn,      \* history: the R the matrix was made with
    phase,      \* "idle", "digits" or "returned"
    target,     \* the vector of the call
    noise,      \* its noise
    val,        \* the digit loop: what is left of each coefficient
    e2,         \* the digits taken so far, a sequence for each row
    outcome     \* of the last call: [verdict, witness]

vars == <<matrix, trapdoor, drawn, phase, target, noise, val, e2, outcome>>

-----------------------------------------------------------------------------
(* MLWEParameters::m: the columns of A.                                    *)
M == (K - 1) + K * Ell

ModReduce(c) == c % Q

(* center_coefficients of one coefficient.                                 *)
CenterCoefficient(c) == IF ModReduce(c) > Q \div 2 THEN ModReduce(c) - Q ELSE ModReduce(c)

(* A row of a matrix times a vector, over as many columns as they share.   *)
RowProduct(row, v) ==
    LET cols == DOMAIN row \cap DOMAIN v
    IN  ModReduce(SumFunctionOnSet([j \in cols |-> row[j] * v[j]], cols))

MatrixVectorMul(a, v) == [i \in DOMAIN a |-> RowProduct(a[i], v)]

Column(a, j) == [i \in DOMAIN a |-> a[i][j]]

(* base^j for the digit places.                                            *)
Power[j \in Nat] == IF j = 0 THEN 1 ELSE Base * Power[j - 1]

(* In every parameter set of MLWEParameters, ell digits reach past q / 2   *)
(* (base 256, ell at least 4) and gamma1 is above a digit (2^19).          *)
ASSUME PlacesAssumption == Power[Ell] > Q \div 2 /\ Gamma1 >= Base - 1

(* Matrices A' and targets come reduced, by rejection sampling and from    *)
(* hash_to_target_vector_with_gid; a target may have any number of rows    *)
(* and A' any shape.  R and the noise have the shape they are drawn with.  *)
ASSUME InputsAssumption ==
    /\ APrimes \subseteq Seq(Seq(0..(Q - 1)))
    /\ Targets \subseteq Seq(0..(Q - 1))
    /\ Trapdoors \subseteq [1..(K - 1) -> [1..(K * Ell) -> Int]]
    /\ Noises \subseteq [1..(K - 1) -> Int]
    /\ None \notin Seq(Seq(Int))

(* G = I_k (x) (1, base, base^2, ...)                                      *)
GadgetMatrix ==
    [i \in 1..K |-> [c \in 1..(K * Ell) |->
        IF (c - 1) \div Ell = i - 1 THEN Power[(c - 1) % Ell] % Q ELSE 0]]

(* A_second = G - A'R                                                      *)
ASecond(a_prime, r) ==
    [i \in 1..K |-> [c \in 1..(K * Ell) |->
        ModReduce(GadgetMatrix[i][c] - RowProduct(a_prime[i], Column(r, c)))]]

AFull(a_prime, r) == [i \in 1..K |-> a_prime[i] \o ASecond(a_prime, r)[i]]

(* The first k - 1 columns of A.                                           *)
APrime(a) == [i \in 1..K |-> SubSeq(a[i], 1, K - 1)]

(* Variant: the digits of a negative value are taken with a sign lost.     *)
FloorDigit(v) == (IF v >= 0 THEN v ELSE -v) % Base

(* if val >= 0 { val % base } else { -((-val) % base) }                    *)
Digit(v) == IF v >= 0 THEN v % Base ELSE -((-v) % Base)

(* [e1 | e2]: e1 = R e2 + noise, reduced; e2 as the loop left it.          *)
FlatE2 == [c \in 1..(K * Ell) |-> e2[((c - 1) \div Ell) + 1][((c - 1) % Ell) + 1]]

(* Variant: the noise is left out of e1.                                   *)
PreimageNoiseless == MatrixVectorMul(trapdoor, FlatE2) \o FlatE2

Preimage ==
    [i \in 1..(K - 1) |-> ModReduce(RowProduct(trapdoor[i], FlatE2) + noise[i])] \o FlatE2

AbsValue(c) == IF c < 0 THEN -c ELSE c

(* infinity_norm_integer of the centred vector, within a bound.            *)
NormWithin(v, bound) == \A i \in DOMAIN v : AbsValue(CenterCoefficient(v[i])) <= bound

(* StrictTrapdoor::verify_witness_relation                                 *)
VerifyWitnessRelation(a, witness, u) ==
    IF Len(witness) # M THEN "width"
    ELSE IF Len(u) # K THEN "height"
    ELSE IF MatrixVectorMul(a, witness) # u THEN "relation"
    ELSE IF ~NormWithin(witness, Gamma1) THEN "norm"
    ELSE "ok"

-----------------------------------------------------------------------------

NoOutcome == [verdict |-> "none", witness |-> None]

Init ==
    /\ matrix = None
    /\ trapdoor = None
    /\ drawn = None
    /\ phase = "idle"
    /\ target = <<>>
    /\ noise = <<>>
    /\ val = <<>>
    /\ e2 = <<>>
    /\ outcome = NoOutcome

(* generate_trapdoor_with_a_prime for a matrix A' of the right dimensions  *)
(* (another shape is refused), or generate_trapdoor, which draws A' too.   *)
Generate(a_prime, r) ==
    /\ matrix = None
    /\ Len(a_prime) = K /\ \A i \in 1..K : Len(a_prime[i]) = K - 1
    /\ matrix' = AFull(a_prime, r)
    /\ trapdoor' = r
    /\ drawn' = r
    /\ UNCHANGED <<phase, target, noise, val, e2, outcome>>

(* The seed fixes A' alone: a caller can hold the trapdoor of another      *)
(* setup over the same A'.                                                 *)
HoldOther(r) ==
    /\ matrix # None
    /\ phase = "idle"
    /\ trapdoor = drawn
    /\ trapdoor' = r
    /\ UNCHANGED <<matrix, drawn, phase, target, noise, val, e2, outcome>>

(* sample_preimage_structured up to the digit loop: the coefficients of    *)
(* u - A' noise, centred.  A vector of more than k rows is read to k.      *)
Sample(u, noise1) ==
    /\ matrix # None
    /\ phase # "digits"
    /\ Len(u) >= K
    /\ phase' = "digits"
    /\ target' = u
    /\ noise' = noise1
    /\ val' = [i \in 1..K |-> CenterCoefficient(u[i] - RowProduct(APrime(matrix)[i], noise1))]
    /\ e2' = [i \in 1..K |-> <<>>]
    /\ outcome' = NoOutcome
    /\ UNCHANGED <<matrix, trapdoor, drawn>>

(* Variant: the loop runs one place too far.                               *)
TakeDigitInclusive ==
    /\ phase = "digits"
    /\ Len(e2[1]) <= Ell
    /\ e2' = [i \in 1..K |-> Append(e2[i], Digit(val[i]))]
    /\ val' = [i \in 1..K |-> (val[i] - Digit(val[i])) \div Base]
    /\ UNCHANGED <<matrix, trapdoor, drawn, phase, target, noise, outcome>>

(* One pass of gadget_decompose's inner loop.                              *)
TakeDigit ==
    /\ phase = "digits"
    /\ Len(e2[1]) < Ell
    /\ e2' = [i \in 1..K |-> Append(e2[i], Digit(val[i]))]
    /\ val' = [i \in 1..K |-> (val[i] - Digit(val[i])) \div Base]
    /\ UNCHANGED <<matrix, trapdoor, drawn, phase, target, noise, outcome>>

(* StrictTrapdoor::sample_preimage's last part: the witness is handed out  *)
(* only when its relation and its norm have been checked.                  *)
Return ==
    /\ phase = "digits"
    /\ Len(e2[1]) = Ell
    /\ phase' = "returned"
    /\ LET verdict == VerifyWitnessRelation(matrix, Preimage, target)
       IN  outcome' = [verdict |-> verdict,
                       witness |-> IF verdict = "ok" THEN Preimage ELSE None]
    /\ UNCHANGED <<matrix, trapdoor, drawn, target, noise, val, e2>>

Next ==
    \/ \E a_prime \in APrimes, r \in Trapdoors : Generate(a_prime, r)
    \/ \E r \in Trapdoors : HoldOther(r)
    \/ \E u \in Targets, noise1 \in Noises : Sample(u, noise1)
    \/ TakeDigit
    \/ Return

Spec == Init /\ [][Next]_vars

-----------------------------------------------------------------------------

(* The coefficients the loop decomposes.                                   *)
Wanted(i) == CenterCoefficient(target[i] - RowProduct(APrime(matrix)[i], noise))

Recomposed(digits) ==
    SumFunctionOnSet([j \in DOMAIN digits |-> Power[j - 1] * digits[j]], DOMAIN digits)

TypeOK ==
    /\ matrix = None <=> drawn = None
    /\ matrix # None => /\ Len(matrix) = K
                        /\ \A i \in 1..K, c \in 1..M : matrix[i][c] \in 0..(Q - 1)
    /\ phase \in {"idle", "digits", "returned"}
    /\ phase # "idle" => /\ DOMAIN val = 1..K /\ DOMAIN e2 = 1..K
                         /\ \A i \in 1..K : Len(e2[i]) = Len(e2[1]) /\ Len(e2[i]) <= Ell
    /\ outcome.verdict \in {"none", "ok", "width", "height", "relation", "norm"}

(* Digits and remainder always make up the centred coefficient, every      *)
(* digit is below the base with the sign of the coefficient, and after ell *)
(* places nothing is left: the gadget matrix turns the digits back.        *)
DigitsRecompose ==
    phase # "idle" =>
        \A i \in 1..K :
            /\ Recomposed(e2[i]) + Power[Len(e2[i])] * val[i] = Wanted(i)
            /\ \A j \in DOMAIN e2[i] : /\ AbsValue(e2[i][j]) < Base
                                       /\ e2[i][j] * Wanted(i) >= 0
            /\ Len(e2[i]) = Ell => val[i] = 0

(* A call is refused for a cause: the target's height, the norm, or that   *)
(* the caller's trapdoor is not the matrix's, which shows when A' sees the *)
(* difference.  With its own trapdoor every target has a preimage.         *)
RefusedForCause ==
    phase = "returned" =>
        LET moved == [i \in 1..(K - 1) |->
                        RowProduct(trapdoor[i], FlatE2) - RowProduct(drawn[i], FlatE2)]
            misses == \E i \in 1..K : RowProduct(APrime(matrix)[i], moved) # 0
        IN  /\ outcome.verdict = "height" <=> Len(target) # K
            /\ outcome.verdict = "relation" <=> Len(target) = K /\ misses
            /\ outcome.verdict = "norm" =>
                 \E i \in 1..(K - 1) : AbsValue(CenterCoefficient(Preimage[i])) > Gamma1

=============================================================================
