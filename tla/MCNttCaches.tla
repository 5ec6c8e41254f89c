---------------------------- MODULE MCNttCaches ----------------------------
(***************************************************************************)
(* q = 17 has rings of degree 2 and 4 (2n divides q - 1), 5 = 175 mod 17   *)
(* generates, and the threshold is 4: degree 2 is naive, but for "sub".    *)
(* Words of -128..127 cut some products and not others.  Products are      *)
(* bilinear mod q, so monomials against a dense polynomial in both places  *)
(* reach every term; small and negative coefficients are those of digits,  *)
(* challenges and responses.  One matrix of two polynomials of degree 2    *)
(* and one of one polynomial of degree 4 have the same coefficients.       *)
(***************************************************************************)
EXTENDS NttCaches

P(s) == [i \in 0..(Len(s) - 1) |-> s[i + 1]]

Monomial(i) == [j \in 0..3 |-> IF i = j THEN 1 ELSE 0]

Dense == P(<<3, 16, 7, 10>>)

Signed == P(<<-1, 2, 0, -2>>)

MCCall(op, n, a, v, t, p) == [op |-> op, n |-> n, a |-> a, v |-> v, t |-> t, p |-> p]

MCCalls ==
    {MCCall("mul", 4, <<>>, <<Monomial(i)>>, <<>>, Dense) : i \in 0..3}
    \cup {MCCall("scale", 4, <<>>, <<Monomial(i), Signed>>, <<>>, Monomial(3)) : i \in 0..3}
    \cup {MCCall("vec", 4, <<<<Dense, Monomial(i)>>, <<Signed, Dense>>>>,
                 <<Signed, Monomial(3 - i)>>, <<>>, Zero(4)) : i \in {0, 3}}
    \cup {MCCall("sub", 4, <<<<Dense>>>>, <<Signed>>, <<Monomial(3)>>, Signed),
          MCCall("sub", 2, <<<<P(<<3, 16>>), P(<<7, 10>>)>>>>,
                 <<P(<<-1, 2>>), P(<<16, 0>>)>>, <<P(<<0, 9>>)>>, P(<<1, -1>>)),
          MCCall("vec", 2, <<<<P(<<3, 16>>)>>>>, <<P(<<1, -1>>)>>, <<>>, Zero(2)),
          MCCall("scale", 2, <<>>, <<P(<<16, 16>>), P(<<2, 5>>)>>, <<>>, P(<<16, 3>>)),
          MCCall("mul", 2, <<>>, <<P(<<-1, 2>>)>>, <<>>, P(<<16, 3>>)),
          MCCall("clear", 4, <<>>, <<>>, <<>>, Zero(4)),
          MCCall("stats", 4, <<>>, <<>>, <<>>, Zero(4))}

-----------------------------------------------------------------------------
(* The roots the code writes out for degree 256: psi^2 = omega and         *)
(* psi^256 = -1 mod 8380417, by doubling in TLC's integers.                *)
Modulus == 8380417

TimesMod(a, b) ==
    LET loop[sum \in Nat, x \in Nat, y \in Nat] ==
            IF y = 0 THEN sum
            ELSE loop[IF y % 2 = 1 THEN (sum + x) % Modulus ELSE sum,
                      (2 * x) % Modulus, y \div 2]
    IN  loop[0, a, b]

ASSUME RootsOf256 ==
    LET squared[i \in 0..8] ==
            IF i = 0 THEN 5199961 ELSE TimesMod(squared[i - 1], squared[i - 1])
    IN  squared[1] = 2962264 /\ squared[8] = Modulus - 1

=============================================================================
