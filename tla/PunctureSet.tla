----------------------------- MODULE PunctureSet -----------------------------
(***************************************************************************)
(* What a puncture tree promises to its callers: it is a set of revoked    *)
(* tags.  A puncture adds one tag, nothing ever takes a single tag out,    *)
(* and erasing the tree forgets every tag at once.  How the tree stores    *)
(* the set (leaf indices, marked ancestors, a counter) is the business of  *)
(* PunctureTree, which is shown to implement this specification.           *)
(***************************************************************************)
EXTENDS Naturals

CONSTANT Capacity        \* number of tags the tree can hold, 1 << max_depth

VARIABLE punctured       \* the tags punctured since the tree was created

Init == punctured = {}

(* A successful puncture of a tag within the capacity.                     *)
Add(tag) == punctured' = punctured \cup {tag}

(* Zeroize: the whole set is forgotten.                                    *)
Erase == punctured' = {}

Next == \/ \E tag \in 0..(Capacity - 1) : Add(tag)
        \/ Erase

Spec == Init /\ [][Next]_punctured

=============================================================================
