----------------------------- MODULE MCTrapdoor -----------------------------
(***************************************************************************)
(* q = 17, base 3, two digit places (3^2 - 1 = 8 = q / 2), k = 2.  The     *)
(* targets reach every residue in both rows, one has a row too many, and   *)
(* one A' has a column too many.  gamma1 is as close to q / 2 as its       *)
(* assumption allows, as for the default sigma.                            *)
(***************************************************************************)
EXTENDS Trapdoor

MCAPrimes == {<<<<0>>, <<0>>>>, <<<<5>>, <<16>>>>, <<<<8>>, <<1>>>>, <<<<1, 2>>, <<3, 4>>>>}

MCTrapdoors == {<<r>> : r \in {<<0, 0, 0, 0>>, <<1, -1, 0, 1>>, <<-1, -1, 1, 1>>,
                               <<1, 1, 1, 1>>}}

MCTargets == {<<u, (5 * u + 3) % 17>> : u \in 0..16} \cup {<<1, 2, 3>>}

MCNoises == {<<e>> : e \in -1..1}

=============================================================================
