----------------------------- MODULE PunctureTree -----------------------------
(***************************************************************************)
(* The binary tree in which a signing key records its punctured tags       *)
(* (src/src/puncture_tree.rs).  Node 1 is the root, the children of n are  *)
(* 2n and 2n+1, and tag t lives at leaf 2^max_depth + t.  Every operation  *)
(* takes `&mut self` (or `&self`), so an operation is one atomic action.   *)
(*                                                                         *)
(* A TreeNode is abstracted to its is_punctured flag: no operation reads   *)
(* the child pointers, and the stored depth is read only to fill in the    *)
(* depth of a new parent.                                                  *)
(***************************************************************************)
EXTENDS Integers, FiniteSets, Sequences, Functions

CONSTANTS
    Depth,     \* the max_depth the tree is created with
    Tags,      \* the u64 tags callers pass, within the capacity or beyond it
    Offered    \* the witnesses callers offer to verify_puncture_proof

(* PunctureTree::new asserts max_depth <= MAX_PUNCTURE_DEPTH = 63.         *)
ASSUME DepthAssumption == Depth \in 0..63

ASSUME TagsAssumption == Tags \subseteq Nat

ASSUME OfferedAssumption == Offered \subseteq Seq(Nat)

(* 1u64 << i                                                               *)
Shift(i) == 2^i

(* What a shift is on the depths in use: the arithmetic of powers of two   *)
(* that the provers do not know.                                           *)
ASSUME ShiftAssumption ==
    /\ Shift(0) = 1
    /\ \A i \in 0..Depth : Shift(i) \in Nat \ {0} /\ Shift(i + 1) = 2 * Shift(i)

VARIABLES
    max_depth,         \* depth of the tree; 0 once zeroized
    nodes,             \* node index -> is_punctured, for the nodes created
    punctured_leaves,  \* the leaves of the punctured tags
    puncture_count,    \* number of successful punctures
    issued             \* history: the witnesses handed out, <<tag, path>>

vars == <<max_depth, nodes, punctured_leaves, puncture_count, issued>>

-----------------------------------------------------------------------------
(* Indices.                                                                *)

Upper == Shift(max_depth)

(* Variant: the capacity check is off by one.                              *)
InCapacityInclusive(tag) == tag <= Upper

InCapacity(tag) == tag < Upper

LeafIndex(tag) == Upper + tag

ParentIndex(index) == index \div 2

(* The indices visited by `while current > 1 { current = current / 2 }`    *)
(* from a leaf: max_depth steps lead from a leaf to the root.              *)
PathToRoot(leaf) == [i \in 1..(max_depth + 1) |-> leaf \div Shift(i - 1)]

TypeOK ==
    /\ max_depth \in {0, Depth}
    /\ punctured_leaves \in SUBSET (Upper .. (2 * Upper - 1))
    /\ IsFiniteSet(punctured_leaves)
    /\ puncture_count \in Nat
    /\ DOMAIN nodes \in SUBSET Nat
    /\ nodes \in [DOMAIN nodes -> BOOLEAN]
    /\ issued \in SUBSET (Nat \X Seq(Nat))

-----------------------------------------------------------------------------
(* Operations.                                                             *)

Init ==
    /\ max_depth = Depth
    /\ nodes = [n \in {1} |-> FALSE]
    /\ punctured_leaves = {}
    /\ puncture_count = 0
    /\ issued = {}

(* Variant: the walk to the root stops at the first node that exists.      *)
MarkMissingOnly(path) ==
    [n \in DOMAIN nodes \cup Range(path) |->
        IF n \in DOMAIN nodes THEN nodes[n] ELSE TRUE]

(* Creates the missing nodes of a path and marks every node on it.         *)
Mark(path) ==
    [n \in DOMAIN nodes \cup Range(path) |-> n \in Range(path) \/ nodes[n]]

(* Variant: the sibling of the leaf is marked with it.                     *)
InsertWithSibling(tag) ==
    LET leaf == LeafIndex(tag) IN
    /\ punctured_leaves' = punctured_leaves \cup {leaf}
    /\ puncture_count' = puncture_count + 1
    /\ nodes' = Mark(PathToRoot(leaf) \o <<4 * (leaf \div 2) + 1 - leaf>>)

(* Variant: the leaf set is rebuilt instead of extended.                   *)
InsertForgets(tag) ==
    /\ punctured_leaves' = {LeafIndex(tag)}
    /\ puncture_count' = puncture_count + 1
    /\ nodes' = Mark(PathToRoot(LeafIndex(tag)))

(* The body of `puncture` for a tag that is in range and not yet punctured.*)
Insert(tag) ==
    /\ punctured_leaves' = punctured_leaves \cup {LeafIndex(tag)}
    /\ puncture_count' = puncture_count + 1
    /\ nodes' = Mark(PathToRoot(LeafIndex(tag)))

(* Variant: the counter is bumped without looking at what insert returned. *)
PunctureUnchecked(tag) ==
    /\ InCapacity(tag)
    /\ Insert(tag)
    /\ UNCHANGED <<max_depth, issued>>

(* puncture(tag) = Ok(true)                                                *)
Puncture(tag) ==
    /\ InCapacity(tag)
    /\ LeafIndex(tag) \notin punctured_leaves
    /\ Insert(tag)
    /\ UNCHANGED <<max_depth, issued>>

(* puncture(tag) = Ok(false) or Err: nothing changes.                      *)
PunctureRefused(tag) ==
    /\ InCapacity(tag) => LeafIndex(tag) \in punctured_leaves
    /\ UNCHANGED vars

(* is_punctured(tag), for a tag within the capacity.                       *)
IsPunctured(tag) == LeafIndex(tag) \in punctured_leaves

(* get_puncture_proof(tag) = Ok(Some(path)): the caller keeps the path.    *)
GetPunctureProof(tag) ==
    /\ InCapacity(tag)
    /\ IsPunctured(tag)
    /\ issued' = issued \cup {<<tag, PathToRoot(LeafIndex(tag))>>}
    /\ UNCHANGED <<max_depth, nodes, punctured_leaves, puncture_count>>

Marked(index) == index \in DOMAIN nodes /\ nodes[index]

(* verify_puncture_proof(tag, proof) = Ok(true)                            *)
VerifyPunctureProof(tag, proof) ==
    /\ proof # <<>>
    /\ InCapacity(tag)
    /\ proof[1] = LeafIndex(tag)
    /\ \A i \in 1..Len(proof) : Marked(proof[i])
    /\ \A i \in 2..Len(proof) : proof[i] = ParentIndex(proof[i - 1])

(* Zeroize for PunctureTree: the depth becomes 0 and the maps are cleared, *)
(* the root included.  A zeroized tree can still be called.  Witnesses     *)
(* belong to a snapshot of the tree, so the history starts afresh.         *)
Zeroize ==
    /\ max_depth' = 0
    /\ nodes' = <<>>
    /\ punctured_leaves' = {}
    /\ puncture_count' = 0
    /\ issued' = {}

Next ==
    \/ \E tag \in Tags : Puncture(tag)
    \/ \E tag \in Tags : PunctureRefused(tag)
    \/ \E tag \in Tags : GetPunctureProof(tag)
    \/ Zeroize

Spec == Init /\ [][Next]_vars

-----------------------------------------------------------------------------
(* Properties.                                                             *)

PuncturedTags == {leaf - Upper : leaf \in punctured_leaves}

(* The counter that stats() and the legacy key report never drifts from    *)
(* the set of leaves, whatever repeated and refused punctures came before. *)
CountIsExact == puncture_count = Cardinality(punctured_leaves)

(* A node carries the mark exactly when a punctured leaf lies below it,    *)
(* and a node other than the root exists only if it carries the mark: the  *)
(* tree never marks a subtree whose tags are all usable.                   *)
NodesMirrorLeaves ==
    /\ \A n \in DOMAIN nodes :
          nodes[n] <=> \E leaf \in punctured_leaves : n \in Range(PathToRoot(leaf))
    /\ \A leaf \in punctured_leaves : Range(PathToRoot(leaf)) \subseteq DOMAIN nodes
    /\ \A n \in DOMAIN nodes : nodes[n] \/ n = 1

(* verify_puncture_proof accepts no witness, however truncated, for a tag  *)
(* that is not punctured.                                                  *)
WitnessSound ==
    \A tag \in Tags, proof \in Offered :
        VerifyPunctureProof(tag, proof) => IsPunctured(tag)

(* A witness handed out by get_puncture_proof keeps verifying while the    *)
(* tree lives, whatever is punctured afterwards.                           *)
WitnessComplete ==
    \A w \in issued : VerifyPunctureProof(w[1], w[2])

(* The tree implements the set of tags it stands for.                      *)
Set == INSTANCE PunctureSet WITH Capacity <- Shift(Depth), punctured <- PuncturedTags

ImplementsSet == Set!Spec

=============================================================================
