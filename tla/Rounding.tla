------------------------------ MODULE Rounding ------------------------------
(***************************************************************************)
(* The coefficient arithmetic of src/src/mlwe.rs that signing and          *)
(* verification share: reduction and centring mod Q, the split into high   *)
(* and low parts, and hints.  Coefficients are far below 2^31 here and in  *)
(* every parameter set, so no width is kept.                               *)
(***************************************************************************)
EXTENDS Integers

CONSTANTS
    Q,       \* the modulus
    Gamma2   \* half the width of a high part

ASSUME RoundingAssumption ==
    /\ Q \in Nat /\ Q > 2 /\ Q % 2 = 1
    /\ Gamma2 \in Nat \ {0}

(* There are two high parts at least: 44 in every parameter set.           *)
ASSUME HighPartsAssumption == 4 * Gamma2 < Q

Abs(x) == IF x < 0 THEN -x ELSE x

Larger(a, b) == IF a < b THEN b ELSE a

(* mod_reduce                                                              *)
Reduced(c) == c % Q

(* center_coefficients and center_mod_q                                    *)
Centered(c) == IF Reduced(c) > Q \div 2 THEN Reduced(c) - Q ELSE Reduced(c)

(* decompose: r = high * 2 Gamma2 + low                                    *)
Decompose(r) ==
    LET alpha == 2 * Gamma2
        high == (Reduced(r) + Gamma2) \div alpha
        low == Reduced(r) - high * alpha
    IN  IF low > Gamma2 THEN [high |-> high + 1, low |-> low - alpha]
        ELSE [high |-> high, low |-> low]

HighBits(r) == Decompose(r).high

MakeHint(z, r) == IF HighBits(r) = HighBits(Reduced(r) + Reduced(z)) THEN 0 ELSE 1

UseHint(h, r) ==
    LET m == (Q - 1) \div (2 * Gamma2)
        d == Decompose(r)
    IN  IF h = 0 THEN d.high
        ELSE IF d.low > 0 THEN (d.high + 1) % m ELSE (d.high - 1 + m) % m

=============================================================================
