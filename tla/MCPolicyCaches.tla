--------------------------- MODULE MCPolicyCaches ---------------------------
(***************************************************************************)
(* Two threads and caches of one entry.  Policy "any" is a OR b, policy    *)
(* "all" is a AND b, policy "none" has a name the matrix builder refuses.  *)
(* The calls repeat an attribute set in another order, differ in the user  *)
(* alone, ask for a set that does not satisfy the policy, or pass an       *)
(* attribute with a separator in it: the list of a and "b\x1fc" reads like *)
(* that of a, b and c.  With one entry per cache every other insertion     *)
(* evicts.                                                                 *)
(***************************************************************************)
EXTENDS PolicyCaches

MCPolicies == {"any", "all", "none"}

(* The attributes, in the order of their bytes; a separator sorts before   *)
(* every letter and a bar after.                                           *)
A == <<"a">>
B == <<"b">>
BC == <<"b", "\\x1f", "c">>
C == <<"c">>
CBar == <<"c", "|", "7">>

MCAttributes == <<A, B, BC, C, CBar>>

MCBefore(s, t) ==
    \E i, j \in DOMAIN MCAttributes :
        i < j /\ MCAttributes[i] = s /\ MCAttributes[j] = t

MCRowToAttr == [p \in MCPolicies |-> <<A, B>>]

MCReconstructs ==
    [p \in MCPolicies |-> IF p = "any" THEN {{1}, {2}, {1, 2}} ELSE {{1, 2}}]

MCCall(op, policy, attrs, gid) ==
    [op |-> op, policy |-> policy, attrs |-> attrs, q |-> "7", ring |-> "1", gid |-> gid]

MCCalls ==
    {MCCall("target", "any", <<C, B, A>>, "u1"),
     MCCall("target", "any", <<A, B, C>>, "u2"),
     MCCall("target", "any", <<BC, A>>, "u1"),
     MCCall("recon", "any", <<A, BC>>, "u1"),
     MCCall("recon", "all", <<A, CBar>>, "u1"),
     MCCall("lsss", "any", <<>>, "u1"),
     MCCall("target", "none", <<A, B>>, "u1"),
     MCCall("clear", "any", <<>>, "u1"),
     MCCall("stats", "any", <<>>, "u1")}

(* Names without a separator in them read like no other such list.         *)
ASSUME PlainNamesAreUnambiguous ==
    \A S, T \in SUBSET {A, B, C, CBar} :
        LET Text(U) == AttributeKey(CHOOSE s \in [1..Cardinality(U) -> U] : Range(s) = U)
        IN  Text(S) = Text(T) => S = T

(* Retain is a filter on the queues that list a key once.                  *)
ASSUME RetainFilters ==
    \A n \in 1..4 : \A order \in {s \in [1..n -> 1..4] : IsInjective(s)} :
        \A key \in Range(order) :
            Retain(order, key) = SelectSeq(order, LAMBDA k : k # key)

=============================================================================
