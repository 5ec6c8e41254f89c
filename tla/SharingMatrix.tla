--------------------------- MODULE SharingMatrix ---------------------------
(***************************************************************************)
(* The sharing matrix of src/src/lsss.rs: the builder's tree, of gates     *)
(* with two sides, becomes the rows of a matrix, each with the attribute   *)
(* of a leaf, and the rows whose attributes a caller holds go to the       *)
(* machine of Reconstruction.                                              *)
(*                                                                         *)
(* MatrixSpec is for any set of trees; Lsss, whose trees are read from     *)
(* the texts of policies, takes the same steps.                            *)
(***************************************************************************)
EXTENDS Reconstruction

CONSTANTS
    Trees,      \* the trees the builder reads, and their sides
    Height(_),  \* tree -> the gates on the way to its deepest leaf
    None        \* nothing read yet

(* Trees are finite: a gate stands above its two sides, which are trees.   *)
ASSUME TreesAssumption ==
    LET gates == {p \in Trees : p.op # "leaf"}
    IN  /\ \A p \in Trees : Height(p) \in Nat
        /\ {p.left : p \in gates} \cup {p.right : p \in gates} \subseteq Trees
        /\ \A p \in gates : /\ p.op \in {"AND", "OR"}
                            /\ Height(p.left) < Height(p) /\ Height(p.right) < Height(p)

VARIABLES
    access,     \* the tree the builder reads
    held        \* the attributes of the caller

matrix_vars == <<access, held, machine_vars>>

-----------------------------------------------------------------------------
(* The matrix of a tree.                                                   *)

(* A vector of the given length, zero beyond its own.                      *)
Resized(vec, n) == [i \in 1..n |-> IF i <= Len(vec) THEN vec[i] ELSE 0]

(* A call of build_msp: the vector of the subtree and the columns taken.   *)
Calls == [vec : Seq(Int), cols : Nat]
Call(vec, n) == [vec |-> vec, cols |-> n]

(* build_msp: an OR hands its vector to both sides; an AND splits it over  *)
(* a new column.                                                           *)
BuildMsp[p \in Trees] ==
    [call \in Calls |->
        CASE p.op = "OR" ->
                LET l == BuildMsp[p.left][call]
                    r == BuildMsp[p.right][Call(call.vec, l.cols)]
                IN  [rows |-> l.rows \o r.rows, cols |-> r.cols]
          [] p.op = "AND" ->
                LET n == call.cols + 1
                    l == BuildMsp[p.left][Call([Resized(call.vec, n) EXCEPT ![n] = 1], n)]
                    r == BuildMsp[p.right][Call([Resized(<<>>, n) EXCEPT ![n] = -1], l.cols)]
                IN  [rows |-> l.rows \o r.rows, cols |-> r.cols]
          [] p.op = "leaf" ->
                [rows |-> << [vec |-> call.vec, attr |-> p.attr] >>, cols |-> call.cols]]

(* from_boolean_tree: the rows, all brought to the final number of columns.*)
Matrix(p) ==
    LET built == BuildMsp[p][Call(<<1>>, 1)]
    IN  [i \in DOMAIN built.rows |->
            [vec  |-> Resized(built.rows[i].vec, built.cols),
             attr |-> built.rows[i].attr]]

(* The places of the rows whose attribute is one of attrs, in order.       *)
Indices(m, attrs) ==
    LET places == {i \in DOMAIN m : m[i].attr \in attrs}
    IN  CHOOSE s \in [1..Cardinality(places) -> places] : \A i, j \in DOMAIN s : i < j => s[i] < s[j]

-----------------------------------------------------------------------------
(* The steps.                                                              *)

MatrixInit ==
    /\ access = None
    /\ held = {}
    /\ MachineInit

(* The builder is given a tree, or the policy is refused.                  *)
Build ==
    /\ Prepare
    /\ access' \in IF phase' = "choose" THEN Trees ELSE {None}
    /\ UNCHANGED held

(* get_reconstruction_constants selects the rows whose attribute the       *)
(* caller has.                                                             *)
Select ==
    /\ phase = "choose"
    /\ held' \in SUBSET Attributes
    /\ LET m == Matrix(access)
           s == Indices(m, held')
       IN  rows' = [k \in DOMAIN s |-> m[s[k]]]
    /\ Begin
    /\ UNCHANGED access

MatrixNext ==
    \/ Build
    \/ Select
    \/ (Eliminate \/ SkipColumn \/ Return) /\ UNCHANGED <<access, held>>

MatrixSpec == MatrixInit /\ [][MatrixNext]_matrix_vars

-----------------------------------------------------------------------------
(* Properties.                                                             *)

(* The sets of attributes that satisfy a tree.                             *)
AccessStructure[p \in Trees] ==
    CASE p.op = "OR"   -> AccessStructure[p.left] \cup AccessStructure[p.right]
      [] p.op = "AND"  -> AccessStructure[p.left] \cap AccessStructure[p.right]
      [] p.op = "leaf" -> {attrs \in SUBSET Attributes : p.attr \in attrs}

(* Constants are found for attributes that satisfy the policy and for no   *)
(* others, whatever the nesting of its gates: a key cannot sign under a    *)
(* policy it does not satisfy even if nothing else checks it.              *)
GrantedOnlyIfSatisfied == phase = "some" => held \in AccessStructure[access]

(* The elimination finds no solution only when the attributes do not       *)
(* satisfy the policy.                                                     *)
InconsistentOnlyIfUnsatisfied ==
    phase = "eliminate" /\ col > NRows /\ Inconsistent => held \notin AccessStructure[access]

(* When the pivots are the first columns, which is so when no row held is  *)
(* redundant, satisfying attributes do get constants, and these rebuild.   *)
LeadingPivotsReconstruct ==
    (/\ phase \in {"none", "some"}
     /\ \A i \in DOMAIN pivots : pivots[i] = i
     /\ held \in AccessStructure[access])
        => phase = "some" /\ Rebuilds(omega)

=============================================================================
