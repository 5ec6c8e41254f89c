----------------------------- MODULE MCSigning ------------------------------
(***************************************************************************)
(* Two users, a gate of each kind and a second spelling of the AND.  The   *)
(* numbers keep the proportions of the parameter sets: Gamma1 < Q / 2, a   *)
(* window with room for the mask, and keys so large that some nonces are   *)
(* rejected.                                                               *)
(***************************************************************************)
EXTENDS Signing

MCUsers == {"u1", "u2"}
MCAttributes == {"a", "b", "c"}
MCHolds == [u1 |-> {"a", "b"}, u2 |-> {"a", "c"}]
MCPreimage == [u1 |-> [a |-> 1, b |-> -2, c |-> 0], u2 |-> [a |-> 2, b |-> 0, c |-> 1]]
MCAttributeTarget == [u \in MCUsers |-> [x \in MCAttributes |-> (A * MCPreimage[u][x]) % Q]]

MCPolicies == {"a AND b", "b AND a", "a OR c"}
MCDigest == [p \in MCPolicies |-> IF p = "a OR c" THEN "or" ELSE "and"]
MCRowToAttr == [p \in MCPolicies |-> IF p = "a OR c" THEN <<"a", "c">> ELSE <<"a", "b">>]
MCWeights ==
    [p \in MCPolicies |->
        IF p = "a OR c"
        THEN [s \in {{1}, {2}, {1, 2}} |-> IF s = {1, 2} THEN <<1, 0>> ELSE [i \in s |-> 1]]
        ELSE [s \in {{1, 2}} |-> <<1, 1>>]]
MCSatisfying ==
    [p \in MCPolicies |->
        {s \in SUBSET MCAttributes :
            IF p = "a OR c" THEN "a" \in s \/ "c" \in s ELSE {"a", "b"} \subseteq s}]

MCMessages == {"m1", "m2"}
MCTags == {0, 1}

(* A challenge of either sign, depending on what is hashed.                *)
MCCoefficient(query) ==
    IF (query.w1 + query.tr + query.context[2]) % 2 = 0 THEN 1 ELSE -1

=============================================================================
