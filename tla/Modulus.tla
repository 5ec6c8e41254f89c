------------------------------- MODULE Modulus ------------------------------
(***************************************************************************)
(* The modulus that Trapdoor and Reconstruction compute with, and that     *)
(* ModularSums is about: MLWEParameters::q.                                *)
(***************************************************************************)
EXTENDS Integers

CONSTANT Q

ASSUME ModulusAssumption == Q \in Nat /\ Q > 2

=============================================================================
