--------------------------- MODULE MCPunctureTree ---------------------------
(***************************************************************************)
(* A tree of depth 3 (eight tags) called with two tags beyond its capacity *)
(* and offered every prefix of every path, every single node, and walks    *)
(* that step to a sibling or skip a level.                                 *)
(***************************************************************************)
EXTENDS PunctureTree

MCTags == 0..9

MCOffered ==
    LET Path(leaf) == [i \in 1..4 |-> leaf \div 2^(i - 1)]
    IN  {<<>>}
        \cup {SubSeq(Path(leaf), 1, k) : leaf \in 8..15, k \in 1..4}
        \cup {<<n>> : n \in 1..17}
        \cup {<<leaf, n>> : leaf \in 8..15, n \in 1..3}

=============================================================================
