-------------------------- MODULE PunctureTreeProofs --------------------------
(***************************************************************************)
(* Proofs about PunctureTree for every depth up to 63, every set of tags   *)
(* and every set of offered witnesses.                                     *)
(***************************************************************************)
EXTENDS PunctureTree, FiniteSetTheorems, TLAPS

Leaves == Upper .. (2 * Upper - 1)

(* Every witness held by a caller is the path of a punctured tag.          *)
IssuedArePaths ==
    \A w \in issued :
        /\ w[1] \in Nat
        /\ InCapacity(w[1])
        /\ IsPunctured(w[1])
        /\ w[2] = PathToRoot(LeafIndex(w[1]))

(* The inductive invariant.                                                *)
IInv ==
    /\ TypeOK
    /\ CountIsExact
    /\ NodesMirrorLeaves
    /\ IssuedArePaths

-----------------------------------------------------------------------------
(* Dividing by twice p is dividing by p and halving: two iterations of the *)
(* parent step are one shift by one more bit.                              *)
LEMMA HalfOfQuotient ==
    ASSUME NEW n \in Nat, NEW p \in Nat \ {0}
    PROVE  n \div (2 * p) = (n \div p) \div 2
<1> DEFINE q == n \div p
           h == q \div 2
<1>1. q \in Nat /\ q * p <= n /\ n < (q + 1) * p
  OBVIOUS
<1>2. h \in Nat /\ (q = 2 * h \/ q = 2 * h + 1)
  BY <1>1
<1>3. h * (2 * p) <= n /\ n < (h + 1) * (2 * p)
  <2>1. CASE q = 2 * h
    BY <1>1, <1>2, <2>1
  <2>2. CASE q = 2 * h + 1
    BY <1>1, <1>2, <2>2
  <2>3. QED BY <1>2, <2>1, <2>2
<1>4. n \div (2 * p) = h
  BY <1>2, <1>3
<1>5. QED BY <1>4

(* The capacity is a positive number and the depths in use have shifts.    *)
LEMMA Shifts ==
    ASSUME TypeOK
    PROVE  /\ Upper \in Nat \ {0}
           /\ max_depth \in Nat
           /\ \A i \in 0..max_depth : Shift(i) \in Nat \ {0} /\ Shift(i + 1) = 2 * Shift(i)
<1>1. max_depth \in {0, Depth}
  BY DEF TypeOK
<1>2. max_depth \in Nat /\ 0..max_depth \subseteq 0..Depth
  BY <1>1, DepthAssumption
<1>3. \A i \in 0..max_depth : Shift(i) \in Nat \ {0} /\ Shift(i + 1) = 2 * Shift(i)
  BY <1>2, ShiftAssumption
<1>4. max_depth \in 0..max_depth
  BY <1>2
<1>5. Upper \in Nat \ {0}
  BY <1>3, <1>4 DEF Upper
<1>6. QED BY <1>2, <1>3, <1>5

(* The walk from a leaf starts at the leaf, halves at every step, leaves   *)
(* the leaf level at once and ends at the root.                            *)
LEMMA PathShape ==
    ASSUME TypeOK, NEW leaf \in Leaves
    PROVE  LET path == PathToRoot(leaf) IN
           /\ path \in Seq(Nat)
           /\ Len(path) = max_depth + 1
           /\ path[1] = leaf
           /\ path[max_depth + 1] = 1
           /\ \A i \in 2..(max_depth + 1) :
                 path[i] = ParentIndex(path[i - 1]) /\ path[i] < Upper
<1> DEFINE path == PathToRoot(leaf)
<1>1. /\ Upper \in Nat \ {0}
      /\ max_depth \in Nat
      /\ \A i \in 0..max_depth : Shift(i) \in Nat \ {0} /\ Shift(i + 1) = 2 * Shift(i)
  BY Shifts
<1>2. leaf \in Nat /\ Upper <= leaf /\ leaf < 2 * Upper
  BY <1>1 DEF Leaves
<1>3. \A i \in 1..(max_depth + 1) : path[i] = leaf \div Shift(i - 1) /\ path[i] \in Nat
  <2> SUFFICES ASSUME NEW i \in 1..(max_depth + 1)
               PROVE  path[i] = leaf \div Shift(i - 1) /\ path[i] \in Nat
    OBVIOUS
  <2>1. i - 1 \in 0..max_depth
    BY <1>1
  <2>2. Shift(i - 1) \in Nat \ {0}
    BY <1>1, <2>1
  <2>3. path[i] = leaf \div Shift(i - 1)
    BY DEF PathToRoot
  <2>4. QED BY <1>2, <2>2, <2>3
<1>4. path \in Seq(Nat) /\ Len(path) = max_depth + 1
  BY <1>1, <1>3 DEF PathToRoot
<1>5. path[1] = leaf
  BY <1>1, <1>2, <1>3, ShiftAssumption
<1>6. path[max_depth + 1] = 1
  <2>1. path[max_depth + 1] = leaf \div Upper
    BY <1>1, <1>3 DEF Upper
  <2>2. leaf \div Upper = 1
    BY <1>1, <1>2
  <2>3. QED BY <2>1, <2>2
<1>7. ASSUME NEW i \in 2..(max_depth + 1)
      PROVE  path[i] = ParentIndex(path[i - 1]) /\ path[i] < Upper
  <2> DEFINE p == Shift(i - 2)
  <2>1. i - 2 \in 0..max_depth /\ (i - 2) + 1 = i - 1
    BY <1>1
  <2>2. p \in Nat \ {0} /\ Shift(i - 1) = 2 * p
    BY <1>1, <2>1
  <2>3. path[i - 1] = leaf \div p /\ path[i] = leaf \div (2 * p)
    BY <1>1, <1>3, <2>2
  <2>4. path[i] = ParentIndex(path[i - 1])
    BY <1>2, <2>2, <2>3, HalfOfQuotient DEF ParentIndex
  <2>5. path[i - 1] \in Nat /\ path[i - 1] <= leaf
    BY <1>2, <2>2, <2>3
  <2>6. path[i] < Upper
    BY <1>1, <1>2, <2>4, <2>5 DEF ParentIndex
  <2>7. QED BY <2>4, <2>6
<1>8. QED BY <1>4, <1>5, <1>6, <1>7

(* Of the nodes on a path, only the first lies on the leaf level.          *)
LEMMA PathMeetsLeafLevelOnce ==
    ASSUME TypeOK, NEW leaf \in Leaves, NEW n \in Range(PathToRoot(leaf)), Upper <= n
    PROVE  n = leaf
<1> DEFINE path == PathToRoot(leaf)
<1>1. /\ path[1] = leaf
      /\ \A i \in 2..(max_depth + 1) : path[i] < Upper /\ path[i] \in Nat
  BY PathShape
<1>2. PICK i \in 1..(max_depth + 1) : n = path[i]
  BY DEF Range, PathToRoot
<1>3. Upper \in Nat /\ max_depth \in Nat
  BY Shifts
<1>4. i = 1
  BY <1>1, <1>2, <1>3
<1>5. QED BY <1>1, <1>2, <1>4

(* The root and the leaf are on the path.                                  *)
LEMMA PathEnds ==
    ASSUME TypeOK, NEW leaf \in Leaves
    PROVE  /\ leaf \in Range(PathToRoot(leaf))
           /\ 1 \in Range(PathToRoot(leaf))
           /\ Range(PathToRoot(leaf)) \subseteq Nat
<1> DEFINE path == PathToRoot(leaf)
<1>1. /\ path \in Seq(Nat)
      /\ Len(path) = max_depth + 1
      /\ path[1] = leaf
      /\ path[max_depth + 1] = 1
  BY PathShape
<1>2. max_depth \in Nat
  BY Shifts
<1>3. DOMAIN path = 1..(max_depth + 1)
  BY DEF PathToRoot
<1>4. QED BY <1>1, <1>2, <1>3 DEF Range

(* A tag within the capacity has a leaf of its own.                        *)
LEMMA LeafOfTag ==
    ASSUME TypeOK, NEW tag \in Nat, InCapacity(tag)
    PROVE  LeafIndex(tag) \in Leaves
BY Shifts DEF InCapacity, LeafIndex, Leaves

-----------------------------------------------------------------------------
LEMMA InitInv == Init => IInv
<1> SUFFICES ASSUME Init PROVE IInv
  OBVIOUS
<1> USE DEF Init
<1>1. TypeOK
  <2>1. IsFiniteSet(punctured_leaves)
    BY FS_EmptySet
  <2>2. QED BY <2>1 DEF TypeOK
<1>2. CountIsExact
  BY FS_EmptySet DEF CountIsExact
<1>3. NodesMirrorLeaves
  BY DEF NodesMirrorLeaves
<1>4. IssuedArePaths
  BY DEF IssuedArePaths
<1>5. QED BY <1>1, <1>2, <1>3, <1>4 DEF IInv

(* An operation that changes nothing but the depth-independent history     *)
(* leaves every path where it was.                                         *)
LEMMA PathsStay ==
    ASSUME max_depth' = max_depth
    PROVE  /\ Upper' = Upper
           /\ Leaves' = Leaves
           /\ \A leaf : PathToRoot(leaf)' = PathToRoot(leaf)
           /\ \A tag : LeafIndex(tag)' = LeafIndex(tag)
           /\ \A tag : InCapacity(tag)' <=> InCapacity(tag)
BY DEF Upper, Leaves, PathToRoot, LeafIndex, InCapacity

LEMMA PunctureInv ==
    ASSUME IInv, NEW tag \in Tags, Puncture(tag)
    PROVE  IInv'
<1> DEFINE leaf == LeafIndex(tag)
           path == PathToRoot(leaf)
<1>1. /\ max_depth' = max_depth
      /\ issued' = issued
      /\ punctured_leaves' = punctured_leaves \cup {leaf}
      /\ puncture_count' = puncture_count + 1
      /\ nodes' = Mark(path)
      /\ leaf \notin punctured_leaves
      /\ InCapacity(tag)
  BY DEF Puncture, Insert
<1>2. TypeOK /\ CountIsExact /\ NodesMirrorLeaves /\ IssuedArePaths
  BY DEF IInv
<1>3. tag \in Nat /\ leaf \in Leaves
  BY <1>1, <1>2, TagsAssumption, LeafOfTag
<1>4. /\ Upper' = Upper
      /\ \A l : PathToRoot(l)' = PathToRoot(l)
      /\ \A t : LeafIndex(t)' = LeafIndex(t)
      /\ \A t : InCapacity(t)' <=> InCapacity(t)
  BY <1>1, PathsStay
<1>5. leaf \in Range(path) /\ 1 \in Range(path) /\ Range(path) \subseteq Nat
  BY <1>2, <1>3, PathEnds
<1>6. DOMAIN nodes' = DOMAIN nodes \cup Range(path)
  BY <1>1 DEF Mark
<1>7. \A n \in DOMAIN nodes' : nodes'[n] <=> (n \in Range(path) \/ nodes[n])
  BY <1>1 DEF Mark
<1>8. TypeOK'
  <2>1. IsFiniteSet(punctured_leaves')
    BY <1>1, <1>2, FS_AddElement DEF TypeOK
  <2>2. punctured_leaves' \in SUBSET (Upper' .. (2 * Upper' - 1))
    BY <1>1, <1>2, <1>3, <1>4 DEF TypeOK, Leaves
  <2>3. DOMAIN nodes' \in SUBSET Nat
    BY <1>2, <1>5, <1>6 DEF TypeOK
  <2>4. nodes' \in [DOMAIN nodes' -> BOOLEAN]
    <3>1. \A n \in DOMAIN nodes : nodes[n] \in BOOLEAN
      BY <1>2 DEF TypeOK
    <3>2. QED BY <1>1, <3>1 DEF Mark
  <2>5. QED BY <1>1, <1>2, <2>1, <2>2, <2>3, <2>4 DEF TypeOK
<1>9. CountIsExact'
  BY <1>1, <1>2, FS_AddElement DEF TypeOK, CountIsExact
<1>10. NodesMirrorLeaves'
  <2>1. \A n \in DOMAIN nodes' :
           nodes'[n] <=> \E l \in punctured_leaves' : n \in Range(PathToRoot(l))
    <3> SUFFICES ASSUME NEW n \in DOMAIN nodes'
                 PROVE  nodes'[n] <=>
                          \E l \in punctured_leaves' : n \in Range(PathToRoot(l))
      OBVIOUS
    <3>1. CASE n \in Range(path)
      BY <1>1, <1>7, <3>1
    <3>2. CASE n \notin Range(path)
      <4>1. n \in DOMAIN nodes
        BY <1>6, <3>2
      <4>2. nodes'[n] <=> nodes[n]
        BY <1>7, <3>2
      <4>3. nodes[n] <=> \E l \in punctured_leaves : n \in Range(PathToRoot(l))
        BY <1>2, <4>1 DEF NodesMirrorLeaves
      <4>4. QED BY <1>1, <3>2, <4>2, <4>3
    <3>3. QED BY <3>1, <3>2
  <2>2. \A l \in punctured_leaves' : Range(PathToRoot(l)) \subseteq DOMAIN nodes'
    BY <1>1, <1>2, <1>6 DEF NodesMirrorLeaves
  <2>3. \A n \in DOMAIN nodes' : nodes'[n] \/ n = 1
    BY <1>2, <1>6, <1>7 DEF NodesMirrorLeaves
  <2>4. QED BY <1>4, <2>1, <2>2, <2>3 DEF NodesMirrorLeaves
<1>11. IssuedArePaths'
  BY <1>1, <1>2, <1>4 DEF IssuedArePaths, IsPunctured
<1>12. QED BY <1>8, <1>9, <1>10, <1>11 DEF IInv

LEMMA GetPunctureProofInv ==
    ASSUME IInv, NEW tag \in Tags, GetPunctureProof(tag)
    PROVE  IInv'
<1> DEFINE w == <<tag, PathToRoot(LeafIndex(tag))>>
<1>1. /\ UNCHANGED <<max_depth, nodes, punctured_leaves, puncture_count>>
      /\ issued' = issued \cup {w}
      /\ InCapacity(tag)
      /\ IsPunctured(tag)
  BY DEF GetPunctureProof
<1>2. TypeOK /\ CountIsExact /\ NodesMirrorLeaves /\ IssuedArePaths
  BY DEF IInv
<1>3. tag \in Nat /\ LeafIndex(tag) \in Leaves
  BY <1>1, <1>2, TagsAssumption, LeafOfTag
<1>4. /\ Upper' = Upper
      /\ \A l : PathToRoot(l)' = PathToRoot(l)
      /\ \A t : LeafIndex(t)' = LeafIndex(t)
      /\ \A t : InCapacity(t)' <=> InCapacity(t)
  BY <1>1, PathsStay
<1>5. w \in Nat \X Seq(Nat)
  BY <1>2, <1>3, PathShape
<1>6. TypeOK'
  BY <1>1, <1>2, <1>4, <1>5 DEF TypeOK
<1>7. CountIsExact'
  BY <1>1, <1>2 DEF CountIsExact
<1>8. NodesMirrorLeaves'
  BY <1>1, <1>2, <1>4 DEF NodesMirrorLeaves
<1>9. IssuedArePaths'
  <2>1. \A v \in issued' :
           /\ v[1] \in Nat
           /\ InCapacity(v[1])
           /\ IsPunctured(v[1])
           /\ v[2] = PathToRoot(LeafIndex(v[1]))
    BY <1>1, <1>2, <1>3 DEF IssuedArePaths
  <2>2. QED BY <1>1, <1>4, <2>1 DEF IssuedArePaths, IsPunctured
<1>10. QED BY <1>6, <1>7, <1>8, <1>9 DEF IInv

LEMMA ZeroizeInv ==
    ASSUME Zeroize
    PROVE  IInv'
<1> USE DEF Zeroize
<1>1. TypeOK'
  <2>1. IsFiniteSet(punctured_leaves')
    BY FS_EmptySet
  <2>2. DOMAIN nodes' = {} /\ nodes' \in [{} -> BOOLEAN]
    OBVIOUS
  <2>3. QED BY <2>1, <2>2 DEF TypeOK
<1>2. CountIsExact'
  BY FS_EmptySet DEF CountIsExact
<1>3. NodesMirrorLeaves'
  BY DEF NodesMirrorLeaves
<1>4. IssuedArePaths'
  BY DEF IssuedArePaths
<1>5. QED BY <1>1, <1>2, <1>3, <1>4 DEF IInv

LEMMA UnchangedInv ==
    ASSUME IInv, UNCHANGED vars
    PROVE  IInv'
<1>1. UNCHANGED <<max_depth, nodes, punctured_leaves, puncture_count, issued>>
  BY DEF vars
<1>2. /\ Upper' = Upper
      /\ \A l : PathToRoot(l)' = PathToRoot(l)
      /\ \A t : LeafIndex(t)' = LeafIndex(t)
      /\ \A t : InCapacity(t)' <=> InCapacity(t)
  BY <1>1, PathsStay
<1>3. QED
  BY <1>1, <1>2
     DEF IInv, TypeOK, CountIsExact, NodesMirrorLeaves, IssuedArePaths, IsPunctured

LEMMA NextInv == IInv /\ [Next]_vars => IInv'
<1> SUFFICES ASSUME IInv, [Next]_vars PROVE IInv'
  OBVIOUS
<1>1. CASE \E tag \in Tags : Puncture(tag)
  BY <1>1, PunctureInv
<1>2. CASE \E tag \in Tags : PunctureRefused(tag)
  BY <1>2, UnchangedInv DEF PunctureRefused
<1>3. CASE \E tag \in Tags : GetPunctureProof(tag)
  BY <1>3, GetPunctureProofInv
<1>4. CASE Zeroize
  BY <1>4, ZeroizeInv
<1>5. CASE UNCHANGED vars
  BY <1>5, UnchangedInv
<1>6. QED BY <1>1, <1>2, <1>3, <1>4, <1>5 DEF Next

(* The invariant holds of every reachable tree.                            *)
THEOREM Invariance == Spec => []IInv
BY InitInv, NextInv, PTL DEF Spec

(* The state stays well typed: leaf indices never leave the leaf level and *)
(* the set of leaves stays finite, at every depth up to 63.                *)
THEOREM TypeCorrect == Spec => []TypeOK
<1>1. IInv => TypeOK
  BY DEF IInv
<1>2. QED BY <1>1, Invariance, PTL

(* puncture_count is the number of punctured tags.                         *)
THEOREM CountCorrect == Spec => []CountIsExact
<1>1. IInv => CountIsExact
  BY DEF IInv
<1>2. QED BY <1>1, Invariance, PTL

(* Marks and leaves never disagree, whatever the order of the punctures.   *)
THEOREM MarksCorrect == Spec => []NodesMirrorLeaves
<1>1. IInv => NodesMirrorLeaves
  BY DEF IInv
<1>2. QED BY <1>1, Invariance, PTL

(* verify_puncture_proof accepts no witness for a tag that is usable: the  *)
(* leaf it starts from is marked by the puncture of that tag alone.        *)
THEOREM WitnessSoundness == Spec => []WitnessSound
<1>1. IInv => WitnessSound
  <2> SUFFICES ASSUME IInv, NEW tag \in Tags, NEW proof \in Offered,
                      VerifyPunctureProof(tag, proof)
               PROVE  IsPunctured(tag)
    BY DEF WitnessSound
  <2> DEFINE leaf == LeafIndex(tag)
  <2>1. TypeOK /\ NodesMirrorLeaves
    BY DEF IInv
  <2>2. tag \in Nat /\ InCapacity(tag)
    BY TagsAssumption DEF VerifyPunctureProof
  <2>3. leaf \in Leaves
    BY <2>1, <2>2, LeafOfTag
  <2>4. leaf \in DOMAIN nodes /\ nodes[leaf]
    <3>1. proof \in Seq(Nat) /\ proof # <<>>
      BY OfferedAssumption DEF VerifyPunctureProof
    <3>2. 1 \in 1..Len(proof)
      BY <3>1
    <3>3. QED BY <3>2 DEF VerifyPunctureProof, Marked
  <2>5. PICK l \in punctured_leaves : leaf \in Range(PathToRoot(l))
    BY <2>1, <2>4 DEF NodesMirrorLeaves
  <2>6. l \in Leaves
    BY <2>1 DEF TypeOK, Leaves
  <2>7. Upper <= leaf
    BY <2>1, <2>3, Shifts DEF Leaves
  <2>8. leaf = l
    BY <2>1, <2>5, <2>6, <2>7, PathMeetsLeafLevelOnce
  <2>9. QED BY <2>5, <2>8 DEF IsPunctured
<1>2. QED BY <1>1, Invariance, PTL

(* A witness once handed out verifies for as long as the tree lives.       *)
THEOREM WitnessCompleteness == Spec => []WitnessComplete
<1>1. IInv => WitnessComplete
  <2> SUFFICES ASSUME IInv, NEW w \in issued
               PROVE  VerifyPunctureProof(w[1], w[2])
    BY DEF WitnessComplete
  <2> DEFINE tag == w[1]
             leaf == LeafIndex(tag)
             path == PathToRoot(leaf)
  <2>1. TypeOK /\ NodesMirrorLeaves /\ IssuedArePaths
    BY DEF IInv
  <2>2. tag \in Nat /\ InCapacity(tag) /\ leaf \in punctured_leaves /\ w[2] = path
    BY <2>1 DEF IssuedArePaths, IsPunctured
  <2>3. leaf \in Leaves
    BY <2>1, <2>2, LeafOfTag
  <2>4. /\ path \in Seq(Nat)
        /\ Len(path) = max_depth + 1
        /\ path[1] = leaf
        /\ \A i \in 2..(max_depth + 1) : path[i] = ParentIndex(path[i - 1])
    BY <2>1, <2>3, PathShape
  <2>5. max_depth \in Nat
    BY <2>1, Shifts
  <2>6. \A i \in 1..Len(path) : Marked(path[i])
    <3> SUFFICES ASSUME NEW i \in 1..Len(path)
                 PROVE  Marked(path[i])
      OBVIOUS
    <3>1. path[i] \in Range(path)
      BY <2>4 DEF PathToRoot, Range
    <3>2. path[i] \in DOMAIN nodes
      BY <2>1, <2>2, <3>1 DEF NodesMirrorLeaves
    <3>3. nodes[path[i]]
      BY <2>1, <2>2, <3>1, <3>2 DEF NodesMirrorLeaves
    <3>4. QED BY <3>2, <3>3 DEF Marked
  <2>7. path # <<>>
    BY <2>4, <2>5
  <2>8. VerifyPunctureProof(tag, path)
    BY <2>2, <2>4, <2>6, <2>7 DEF VerifyPunctureProof
  <2>9. QED BY <2>2, <2>8
<1>2. QED BY <1>1, Invariance, PTL

-----------------------------------------------------------------------------
(* The tree implements the set of tags: its initial state stands for the   *)
(* empty set, a successful puncture adds exactly that tag, zeroizing       *)
(* forgets all of them, and nothing else changes the set.                  *)
THEOREM TreeImplementsSet == Spec => ImplementsSet
<1>1. Init => Set!Init
  BY DEF Init, Set!Init, PuncturedTags
<1>2. IInv /\ [Next]_vars => [Set!Next]_PuncturedTags
  <2> SUFFICES ASSUME IInv, [Next]_vars
               PROVE  [Set!Next]_PuncturedTags
    OBVIOUS
  <2>1. ASSUME NEW tag \in Tags, Puncture(tag)
        PROVE  Set!Next
    <3>1. TypeOK /\ InCapacity(tag) /\ tag \in Nat
      BY <2>1, TagsAssumption DEF IInv, Puncture
    <3>2. /\ max_depth' = max_depth
          /\ punctured_leaves' = punctured_leaves \cup {LeafIndex(tag)}
      BY <2>1 DEF Puncture, Insert
    <3>3. Upper' = Upper /\ Upper \in Nat
      BY <3>1, <3>2, PathsStay, Shifts
    <3>4. LeafIndex(tag) - Upper = tag
      BY <3>1, <3>3 DEF LeafIndex
    <3>5. PuncturedTags' = PuncturedTags \cup {tag}
      BY <3>2, <3>3, <3>4 DEF PuncturedTags
    <3>6. tag \in 0..(Shift(Depth) - 1)
      <4>1. Upper <= Shift(Depth) /\ Shift(Depth) \in Nat
        <5>1. Depth \in 0..Depth /\ Shift(Depth) \in Nat \ {0}
          BY ShiftAssumption, DepthAssumption
        <5>2. CASE max_depth = 0
          BY <5>1, <5>2, ShiftAssumption DEF Upper
        <5>3. CASE max_depth = Depth
          BY <5>1, <5>3 DEF Upper
        <5>4. QED BY <3>1, <5>2, <5>3 DEF TypeOK
      <4>2. QED BY <3>1, <3>3, <4>1 DEF InCapacity
    <3>7. QED BY <3>5, <3>6 DEF Set!Next, Set!Add
  <2>2. CASE Zeroize
    BY <2>2 DEF Zeroize, PuncturedTags, Set!Next, Set!Erase
  <2>3. ASSUME NEW tag \in Tags, PunctureRefused(tag) \/ GetPunctureProof(tag)
        PROVE  UNCHANGED PuncturedTags
    BY <2>3 DEF PunctureRefused, GetPunctureProof, vars, PuncturedTags, Upper
  <2>4. CASE UNCHANGED vars
    BY <2>4 DEF vars, PuncturedTags, Upper
  <2>5. QED BY <2>1, <2>2, <2>3, <2>4 DEF Next
<1>3. QED BY <1>1, <1>2, Invariance, PTL DEF Spec, ImplementsSet, Set!Spec

=============================================================================
