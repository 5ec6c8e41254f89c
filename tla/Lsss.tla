-------------------------------- MODULE Lsss --------------------------------
(***************************************************************************)
(* The LSSS engine of src/src/lsss.rs: a policy becomes a sharing matrix   *)
(* whose rows carry attributes, and the constants that rebuild the secret  *)
(* from the rows a user holds are found by Gaussian elimination over Z_Q.  *)
(*                                                                         *)
(* A user's text is parsed to a tree, the canonical text of the tree is    *)
(* read by the builder (PolicyText), and the builder's tree, of gates with *)
(* two sides, becomes the matrix (SharingMatrix).                          *)
(***************************************************************************)
EXTENDS PolicyText, SharingMatrix, SequencesExt

CONSTANTS
    Texts       \* the policies users write

VARIABLES
    text,        \* the policy as written
    policy       \* the tree parsed from it

vars == <<text, policy, matrix_vars>>

-----------------------------------------------------------------------------
(* From the text to the rows.                                              *)

Init ==
    /\ text \in Texts
    /\ policy = None
    /\ MatrixInit

(* Policy::parse and to_lsss; the matrix is a function of the policy.      *)
(* There is no matrix after a panic either.                                *)
ParseText ==
    /\ phase = "parse"
    /\ policy' = Parse(text)
    /\ LET reading == IF policy' = Refused THEN Refused ELSE Reading(PolicyRepr(policy'))
       IN  IF reading \in {Refused, Panicked}
           THEN phase' = "refused" /\ UNCHANGED access
           ELSE phase' = "choose" /\ access' = reading
    /\ UNCHANGED <<text, held, rows, augmented, col, pivots, omega>>

Next ==
    \/ ParseText
    \/ Select /\ UNCHANGED <<text, policy>>
    \/ (Eliminate \/ SkipColumn \/ Return) /\ UNCHANGED <<text, policy, access, held>>

Spec == Init /\ [][Next]_vars

-----------------------------------------------------------------------------
(* Properties.                                                             *)

RECURSIVE AttributesOf(_)
AttributesOf(tree) ==
    IF tree.op = "leaf" THEN {tree.attr}
    ELSE UNION {AttributesOf(tree.rules[i]) : i \in DOMAIN tree.rules}

(* The gates between the outermost one and the deepest leaf.               *)
RECURSIVE Nesting(_)
Nesting(tree) ==
    IF \A i \in DOMAIN tree.rules : tree.rules[i].op = "leaf" THEN 0
    ELSE 1 + Max({Nesting(tree.rules[i]) : i \in {j \in DOMAIN tree.rules : tree.rules[j].op # "leaf"}})

(* No name looks like an operator at either end or has wide letters.       *)
PlainNames(tree) ==
    AttributesOf(tree) \cap (WideWords \cup UNION {Ends[op] \cup Starts[op] : op \in {"AND", "OR", "NOT"}}) = {}

(* A tree with the sides of every gate in canonical order.                 *)
RECURSIVE Sorted(_)
Sorted(tree) ==
    IF tree.op = "leaf" THEN tree
    ELSE Gate(tree.op, SortSeq([i \in DOMAIN tree.rules |-> Sorted(tree.rules[i])],
                               LAMBDA s, t : Before(Canonical(s), Canonical(t))))

(* The builder's tree with gates of one kind merged.                       *)
RECURSIVE MergedTree(_)
MergedTree(tree) ==
    IF tree.op = "leaf" THEN tree
    ELSE Merged(tree.op, MergedTree(tree.left), MergedTree(tree.right))

(* No name with wide letters stands before an operator.                    *)
CutsInPlace(repr) ==
    \A i, j \in DOMAIN repr : i < j /\ repr[j] \in {"AND", "OR"} => repr[i] \notin WideWords

(* The matrix is that of the policy: the same gates over the same names.   *)
BuiltAsMeant ==
    /\ phase = "choose"
    /\ MergedTree(access) = Sorted(policy)
    /\ AccessStructure[access] = {attrs \in SUBSET Attributes : Satisfies(policy, attrs)}

(* The canonical text of a policy means that policy to both its readers.   *)
(* The builder makes its matrix from the same tree, which the same         *)
(* attributes satisfy, unless it counts letters where it cuts bytes: a     *)
(* matrix of other names or gates, or a panic, comes of a wide name before *)
(* an operator and of nothing else.  Reading the text again gives the tree *)
(* back or an error, and no error unless a name looks like an operator,    *)
(* has wide letters, or the gates, which precedence let the user write     *)
(* without parentheses, nest too deep.                                     *)
ReadBack ==
    phase \in {"choose", "refused"} /\ policy # Refused =>
        LET repr == PolicyRepr(policy)
        IN  /\ BuilderAccepts(repr) => (BuiltAsMeant <=> CutsInPlace(repr))
            /\ Parse(repr) \in {Refused, Sorted(policy)}
            /\ PlainNames(policy) /\ (policy.op = "leaf" \/ Nesting(policy) <= MaxDepth)
                  => Parse(repr) # Refused

(* What the documentation of is_satisfied says (src/src/lsss.rs:322): it   *)
(* is true of the attributes that satisfy the access structure.  Matrices  *)
(* the builder got wrong are set aside.                                    *)
IsSatisfiedAsDocumented ==
    phase \in {"none", "some"} /\ CutsInPlace(PolicyRepr(policy)) =>
        (IsSatisfied(PolicyRepr(policy), held) <=> Satisfies(policy, held))

(* What the documentation of the engine says (src/src/lsss.rs:15): if the  *)
(* attributes satisfy the access structure there are constants that weigh  *)
(* the rows held to (1, 0, ..., 0), and those are what is returned.        *)
SatisfyingReconstruct ==
    phase \in {"none", "some"} /\ held \in AccessStructure[access]
        => phase = "some" /\ Rebuilds(omega)

=============================================================================
