--------------------------- MODULE MCHardwareRoot ---------------------------
(***************************************************************************)
(* Two tags (one in the state, one to come), the state's key and a foreign *)
(* one, one restore, which already puts two lines of versions side by      *)
(* side, and the two proofs the property compares.  Tags and keys are      *)
(* interchangeable.                                                        *)
(***************************************************************************)
EXTENDS HardwareRoot, TLC

MCSymmetry == Permutations(Tags) \cup Permutations(Keys)

=============================================================================
