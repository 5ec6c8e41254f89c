------------------------------- MODULE MCLsss -------------------------------
(***************************************************************************)
(* Lsss over the policies of every tree with up to three leaves on three   *)
(* attributes, repetitions included, and every tree with four leaves on    *)
(* four attributes, each attribute once, written with every parenthesis    *)
(* and with those precedence needs; every text of up to five tokens, most  *)
(* of them refused; and texts whose names, nesting or spelling are at an   *)
(* edge.                                                                   *)
(***************************************************************************)
EXTENDS Lsss

MCAttributes == {"A", "B", "C", "D"}

(* Names that end or start like an operator, contain NOT, or are not ASCII.*)
MCNames == MCAttributes \cup {"And", "NOTARY", "android", "brand", "doctor", "nurse", "unité",
                            "ère", "été"}

MCReserved == {"AND", "OR", "NOT", "and", "or", "not"}

MCWords == MCNames \cup MCReserved

MCSays ==
    [w \in MCWords |->
        CASE w \in {"AND", "and", "And"} -> "AND"
          [] w \in {"OR", "or"} -> "OR"
          [] w \in {"NOT", "not"} -> "NOT"
          [] OTHER -> "name"]

MCEnds == [AND |-> {"AND", "and", "And", "brand"}, OR |-> {"OR", "or", "doctor"},
           NOT |-> {"NOT", "not"}]

MCStarts == [AND |-> {"AND", "and", "And", "android"}, OR |-> {"OR", "or"},
             NOT |-> {"NOT", "not", "NOTARY"}]

(* The letters of two bytes are those with an accent.                      *)
MCWide == {"è", "é"}

MCLetters ==
    [w \in MCWords |->
        CASE w = "unité" -> <<"u", "n", "i", "t", "é">>
          [] w = "ère" -> <<"è", "r", "e">>
          [] w = "été" -> <<"é", "t", "é">>
          [] OTHER -> [i \in 1..Len(w) |-> SubSeq(w, i, i)]]

ByteOrder == <<"A", "AND", "And", "B", "C", "D", "NOT", "NOTARY", "OR", "and", "android", "brand",
               "doctor", "not", "nurse", "or", "unité", "ère", "été">>

MCRank == [w \in MCWords |-> 2 + CHOOSE i \in DOMAIN ByteOrder : ByteOrder[i] = w]

-----------------------------------------------------------------------------

Gates(ls, rs) == {[op |-> o, left |-> l, right |-> r] : o \in {"AND", "OR"}, l \in ls, r \in rs}

One == {Leaf(a) : a \in {"A", "B", "C"}}
Two == Gates(One, One)
Three == Gates(One, Two) \cup Gates(Two, One)

(* The trees whose leaves are the attributes of a sequence, in its order.  *)
RECURSIVE InOrder(_)
InOrder(attrs) ==
    IF Len(attrs) = 1 THEN {Leaf(attrs[1])}
    ELSE UNION {Gates(InOrder(SubSeq(attrs, 1, k)), InOrder(SubSeq(attrs, k + 1, Len(attrs)))) :
                    k \in 1..(Len(attrs) - 1)}

Written == One \cup Two \cup Three \cup InOrder(<<"A", "B", "C", "D">>)

(* Every gate in parentheses.                                              *)
RECURSIVE Full(_)
Full(p) ==
    IF p.op = "leaf" THEN <<p.attr>>
    ELSE <<"(">> \o Full(p.left) \o <<" ", p.op, " ">> \o Full(p.right) \o <<")">>

(* Only an OR under an AND in parentheses, operators in small letters.     *)
RECURSIVE Bare(_)
Bare(p) ==
    LET side(s) == IF p.op = "AND" /\ s.op = "OR" THEN <<"(">> \o Bare(s) \o <<")">> ELSE Bare(s)
    IN  IF p.op = "leaf" THEN <<p.attr>>
        ELSE side(p.left) \o <<" ", IF p.op = "AND" THEN "and" ELSE "or", " ">> \o side(p.right)

Tokens == {"(", ")", " ", "A", "B", "AND", "or"}

(* No two words and no two spaces touch.                                   *)
WellSpaced(s) ==
    \A i \in 1..(Len(s) - 1) :
        (s[i] \in {"(", ")"}) \/ (s[i + 1] \in {"(", ")"}) \/ (s[i] = " " /\ s[i + 1] # " ")
            \/ (s[i] # " " /\ s[i + 1] = " ")

ShortTexts == UNION {{s \in [1..n -> Tokens] : WellSpaced(s)} : n \in 0..5}

(* Two words and the operator between them.                                *)
Pairs == {<<v, " ", op, " ", w>> : v, w \in MCNames \cup {"not"}, op \in {"AND", "OR"}}

(* "(A AND B or C) AND D or A", one group deeper as canonical text than as *)
(* written; "not A"; "(unité AND A)", "unité AND A OR B" and "NOT NOT NOT".*)
Edges ==
    {<<"(", "(", "A", " ", "AND", " ", "B", " ", "or", " ", "C", ")", " ", "AND", " ", "D", " ",
       "or", " ", "A", ")", " ", "AND", " ", "B">>,
     <<"not", " ", "A">>,
     <<"(", "unité", " ", "AND", " ", "A", ")">>,
     <<"unité", " ", "AND", " ", "A", " ", "OR", " ", "B">>,
     <<"A", " ", "AND", " ", "NOT", " ", "NOT", " ", "NOT">>}

MCTexts ==
    {Full(p) : p \in Written} \cup {Bare(p) : p \in Written} \cup ShortTexts \cup Pairs \cup Edges

-----------------------------------------------------------------------------
(* The builder's trees of these texts, and others.                         *)

(* The trees whose leaves are the attributes of a set, each once.          *)
Once[S \in SUBSET MCAttributes] ==
    IF Cardinality(S) = 1 THEN {Leaf(a) : a \in S}
    ELSE UNION {Gates(Once[L], Once[S \ L]) : L \in (SUBSET S) \ {{}, S}}

Named == {Leaf(a) : a \in MCNames}

(* The builder's tree of the first text of Edges, and its side.            *)
EdgeSide ==
    LET C == [op |-> "OR", left |-> [op |-> "AND", left |-> Leaf("A"), right |-> Leaf("B")],
              right |-> Leaf("C")]
    IN  [op |-> "OR", left |-> [op |-> "AND", left |-> C, right |-> Leaf("D")], right |-> Leaf("A")]

EdgeTrees == {EdgeSide, [op |-> "AND", left |-> EdgeSide, right |-> Leaf("B")]}

(* Texts that are no names become attributes too.                          *)
Leaves == Named \cup {Leaf(NoName)}

MCTrees ==
    Leaves \cup Gates(Leaves, Leaves)
        \cup Three \cup UNION {Once[S] : S \in (SUBSET MCAttributes) \ {{}}} \cup EdgeTrees

RECURSIVE MCHeight(_)
MCHeight(p) ==
    IF p.op = "leaf" THEN 0 ELSE 1 + Max({MCHeight(p.left), MCHeight(p.right)})

=============================================================================
