----------------------------- MODULE PolicyText -----------------------------
(***************************************************************************)
(* Policies as text (src/src/policy.rs) and as the matrix builder reads    *)
(* them (src/src/lsss.rs).  parse turns a text into a tree of attributes,  *)
(* AND and OR; the canonical text of a tree is what digests are computed   *)
(* from, what the builder turns into a matrix with a parser of its own,    *)
(* and what a matrix parses again to answer is_satisfied.                  *)
(*                                                                         *)
(* A text is a sequence of tokens: parentheses, single spaces and words,   *)
(* where two words never touch.  A few checks of parse look at letters,    *)
(* not at words; constants say of each word what they see.  The builder    *)
(* counts letters and cuts at bytes: it reads the letters of the text.     *)
(***************************************************************************)
EXTENDS Integers, Sequences, FiniteSets

LOCAL INSTANCE FiniteSetsExt
LOCAL INSTANCE SequencesExt
LOCAL INSTANCE TLC

CONSTANTS
    Words,      \* names and operators, "AND" and "OR" among them
    Says,       \* word -> "AND", "OR" or "NOT" if it spells it in any case, or "name"
    Reserved,   \* RESERVED_TOKENS
    Ends,       \* operator -> words whose last letters spell it in any case
    Starts,     \* operator -> words whose first letters spell it in any case
    Letters,    \* word -> its letters
    Wide,       \* letters of two bytes
    Rank,       \* word -> its place in byte order
    MaxDepth,   \* the deepest nesting accepted: 20
    Refused,    \* an error
    Panicked,   \* the call ends in a panic
    NoName      \* a text other than a word that became the attribute of a row

ASSUME WordsAssumption ==
    /\ {"AND", "OR"} \subseteq Reserved /\ Reserved \subseteq Words
    /\ DOMAIN Says = Words /\ DOMAIN Rank = Words /\ DOMAIN Letters = Words
    /\ \A w \in Words : Rank[w] > 2 /\ (Says[w] # "name" => w \in Ends[Says[w]] \cap Starts[Says[w]])
    /\ \A v, w \in Words : Rank[v] = Rank[w] \/ Letters[v] = Letters[w] => v = w
    /\ NoName \notin Words

-----------------------------------------------------------------------------
(* Texts.                                                                  *)

SayOf(token) == IF token \in Words THEN Says[token] ELSE "name"

Trim(s) ==
    LET solid == {i \in DOMAIN s : s[i] # " "}
    IN  IF solid = {} THEN <<>> ELSE SubSeq(s, Min(solid), Max(solid))

(* The nesting after the first i tokens.                                   *)
DepthAt(s, i) ==
    Cardinality({j \in 1..i : s[j] = "("}) - Cardinality({j \in 1..i : s[j] = ")"})

(* The whole text is one group in parentheses.                             *)
OneGroup(s) ==
    /\ Len(s) > 1 /\ s[1] = "(" /\ s[Len(s)] = ")"
    /\ \A i \in 1..(Len(s) - 1) : DepthAt(s, i) # 0
    /\ DepthAt(s, Len(s)) = 0

Inner(s) == SubSeq(s, 2, Len(s) - 1)

(* The words with more bytes than letters.                                 *)
WideWords == {w \in Words : \E i \in DOMAIN Letters[w] : Letters[w][i] \in Wide}

(* is_balanced_paren_group counts letters against bytes.                   *)
IsBalancedParenGroup(s) == OneGroup(s) /\ \A i \in DOMAIN s : s[i] \notin WideWords

-----------------------------------------------------------------------------
(* validate_policy_string: the texts refused, on the letters.              *)

(* Two letters' runs of one operator with one space in between.            *)
ConsecutiveOperators(s) ==
    \/ \E op \in {"AND", "OR"}, i \in 1..(Len(s) - 2) :
          s[i] \in Ends[op] /\ s[i + 1] = " " /\ s[i + 2] \in Starts[op]
    \/ \E i \in 1..(Len(s) - 4) :
          /\ s[i] \in Ends["NOT"] /\ s[i + 1] = " " /\ SayOf(s[i + 2]) = "NOT"
          /\ s[i + 3] = " " /\ s[i + 4] \in Starts["NOT"]

EndsWithOperator(s) == Len(s) > 1 /\ s[Len(s) - 1] = " " /\ SayOf(s[Len(s)]) # "name"

StartsWithOperator(s) == Len(s) > 1 /\ SayOf(s[1]) \in {"AND", "OR"} /\ s[2] = " "

ValidatePolicyString(s) ==
    /\ \A i \in DOMAIN s : DepthAt(s, i) \in 0..MaxDepth
    /\ DepthAt(s, Len(s)) = 0
    /\ ~\E i \in 1..(Len(s) - 1) : s[i] = "(" /\ s[i + 1] = ")"
    /\ ~ConsecutiveOperators(s)
    /\ ~EndsWithOperator(s)
    /\ ~StartsWithOperator(s)

-----------------------------------------------------------------------------
(* parse                                                                   *)

Leaf(word) == [op |-> "leaf", attr |-> word]

Gate(op, rules) == [op |-> op, rules |-> rules]

(* split_top_level_operator: the places where a text can be split.         *)
SplitsAt(s, op) ==
    {i \in DOMAIN s :
        /\ SayOf(s[i]) = op
        /\ DepthAt(s, i) = 0
        /\ i = 1 \/ s[i - 1] = " "
        /\ i = Len(s) \/ s[i + 1] = " "
        /\ Trim(SubSeq(s, 1, i - 1)) # <<>>
        /\ Trim(SubSeq(s, i + 1, Len(s))) # <<>>}

(* collect_or_rules, collect_and_rules: a gate of the same kind is merged. *)
Collect(tree, op) == IF tree.op = op THEN tree.rules ELSE <<tree>>

Merged(op, left, right) ==
    IF Refused \in {left, right} THEN Refused
    ELSE Gate(op, Collect(left, op) \o Collect(right, op))

RECURSIVE Parse(_)
Parse(text) ==
    LET s == Trim(text)
        splitAt(op) ==
            LET i == Min(SplitsAt(s, op))
            IN  Merged(op, Parse(SubSeq(s, 1, i - 1)), Parse(SubSeq(s, i + 1, Len(s))))
    IN  IF s = <<>> \/ ~ValidatePolicyString(s) THEN Refused
        ELSE IF IsBalancedParenGroup(s) THEN Parse(Inner(s))
        ELSE IF Len(s) > 1 /\ SayOf(s[1]) = "NOT" /\ s[2] = " " THEN Refused
        ELSE IF SplitsAt(s, "OR") # {} THEN splitAt("OR")
        ELSE IF SplitsAt(s, "AND") # {} THEN splitAt("AND")
        ELSE IF Len(s) = 1 /\ s[1] \in Words \ Reserved THEN Leaf(s[1])
        ELSE Refused

(* Policy::satisfies                                                       *)
RECURSIVE Satisfies(_, _)
Satisfies(tree, attrs) ==
    CASE tree.op = "leaf" -> tree.attr \in attrs
      [] tree.op = "AND"  -> \A i \in DOMAIN tree.rules : Satisfies(tree.rules[i], attrs)
      [] tree.op = "OR"   -> \E i \in DOMAIN tree.rules : Satisfies(tree.rules[i], attrs)

-----------------------------------------------------------------------------
(* rule_to_string                                                          *)

RankOf(token) ==
    CASE token = " " -> 0 [] token = "(" -> 1 [] token = ")" -> 2 [] OTHER -> Rank[token]

(* Byte order of texts.                                                    *)
Before(s, t) ==
    LET apart == {i \in DOMAIN s \cap DOMAIN t : s[i] # t[i]}
    IN  IF apart = {} THEN Len(s) < Len(t)
        ELSE RankOf(s[Min(apart)]) < RankOf(t[Min(apart)])

Joined(parts, op) ==
    FlattenSeq([i \in DOMAIN parts |->
                    IF i = 1 THEN parts[1] ELSE <<" ", op, " ">> \o parts[i]])

(* Variant: only alternatives are put in parentheses.                      *)
RECURSIVE CanonicalBareAnd(_)
CanonicalBareAnd(tree) ==
    IF tree.op = "leaf" THEN <<tree.attr>>
    ELSE LET parts == [i \in DOMAIN tree.rules |-> CanonicalBareAnd(tree.rules[i])]
             all   == Joined(SortSeq(parts, Before), tree.op)
         IN  IF tree.op = "AND" THEN <<"(">> \o all \o <<")">> ELSE all

RECURSIVE Canonical(_)
Canonical(tree) ==
    IF tree.op = "leaf" THEN <<tree.attr>>
    ELSE LET parts == [i \in DOMAIN tree.rules |-> Canonical(tree.rules[i])]
         IN  <<"(">> \o Joined(SortSeq(parts, Before), tree.op) \o <<")">>

-----------------------------------------------------------------------------
(* The builder's reading.                                                  *)

RECURSIVE StripOuterParens(_)
StripOuterParens(text) ==
    LET s == Trim(text) IN IF OneGroup(s) THEN StripOuterParens(Inner(s)) ELSE s

(* The text from_boolean_tree keeps with the matrix: policy_repr.          *)
PolicyRepr(tree) == StripOuterParens(Canonical(tree))

(* The text, letter by letter.                                             *)
Spelled(s) == FlattenSeq([i \in DOMAIN s |-> IF s[i] \in Words THEN Letters[s[i]] ELSE <<s[i]>>])

(* Where a run of letters begins in a text.                                *)
Occurs(run, s) == {i \in 1..(Len(s) - Len(run) + 1) : SubSeq(s, i, i + Len(run) - 1) = run}

(* from_boolean_tree refuses what contains NOT anywhere.                   *)
BuilderAccepts(repr) == Occurs(<<"N", "O", "T">>, Spelled(repr)) = {}

(* The first n letters take up that many bytes.                            *)
Bytes(s, n) == n + Cardinality({i \in 1..n : s[i] \in Wide})

(* The numbers of letters before a byte offset: none inside a letter.      *)
LettersBefore(s, byte) == {n \in 0..Len(s) : Bytes(s, n) = byte}

(* find_top_level_operator: in capitals, between single spaces.  It counts *)
(* the letters before the operator.                                        *)
FindTopLevel(s, op) ==
    {i - 1 : i \in {j \in Occurs(<<" ">> \o Letters[op] \o <<" ">>, s) : DepthAt(s, j) = 0}}

(* A row is for the text that is left, whatever it is.                     *)
LeafOf(s) ==
    LET words == {w \in Words : Letters[w] = s}
    IN  IF words = {} THEN Leaf(NoName) ELSE Leaf(CHOOSE w \in words : TRUE)

(* The first side that fails fails the gate.                               *)
GateOf(op, left, right) ==
    IF left \in {Refused, Panicked} THEN left
    ELSE IF right \in {Refused, Panicked} THEN right
    ELSE [op |-> op, left |-> left, right |-> right]

(* The tree of two-sided gates build_msp walks.  It takes the number of    *)
(* letters before an operator for a number of bytes, and slices there.     *)
RECURSIVE ReadByBuilder(_)
ReadByBuilder(letters) ==
    LET s == StripOuterParens(letters)
        cut(op) ==
            LET pos   == Min(FindTopLevel(s, op))
                left  == LettersBefore(s, pos)
                right == LettersBefore(s, pos + Len(Letters[op]) + 2)
            IN  IF left = {} \/ right = {} THEN Panicked
                ELSE GateOf(op, ReadByBuilder(SubSeq(s, 1, Max(left))),
                                ReadByBuilder(SubSeq(s, Max(right) + 1, Len(s))))
    IN  IF FindTopLevel(s, "OR") # {} THEN cut("OR")
        ELSE IF FindTopLevel(s, "AND") # {} THEN cut("AND")
        ELSE IF s = <<>> THEN Refused
        ELSE LeafOf(s)

(* from_boolean_tree, as far as the rows.                                  *)
Reading(repr) == IF BuilderAccepts(repr) THEN ReadByBuilder(Spelled(repr)) ELSE Refused

(* is_satisfied of a matrix built from a policy.                           *)
IsSatisfied(repr, attrs) == Parse(repr) # Refused /\ Satisfies(Parse(repr), attrs)

=============================================================================
