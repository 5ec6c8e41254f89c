------------------------------- MODULE MCWire -------------------------------
(***************************************************************************)
(* Bytes of two bits, so lengths wrap at 16 (4 for the name); q = 17 takes *)
(* five bits, gamma1 = 4 is listed and takes three, gamma1 = 5 takes four. *)
(* z has four coefficients, the extremes among them.  Two signatures have  *)
(* a field too long for its length.                                        *)
(***************************************************************************)
EXTENDS Wire

MCSignature(gamma1, z, challenge, hints, delta, rows, pkh, pid) ==
    [gamma1 |-> gamma1, z |-> z, challenge |-> challenge, hints |-> hints,
     firewall_delta |-> delta, witness_rows |-> rows, pk_hash |-> pkh,
     parameter_set_id |-> pid, tau |-> 3]

MCZ(gamma1) == LET c == {0, gamma1 - 1, 17 - gamma1 + 1} IN {<<a, b, 1, d>> : a, b, d \in c}

MCSignatures ==
    UNION {{MCSignature(g, z, <<1, -1>>, None, <<16, 5>>, <<2>>, <<>>, <<1, 2>>) : z \in MCZ(g)} :
           g \in {4, 5}}
    \cup {MCSignature(4, <<1, 0, 16, 3>>, c, h, d, r, <<1>>, <<1>>) :
            c \in {<<0, 0>>, <<-1, 1>>, <<-1, -1>>},
            h \in {None, <<<<0, 0>>>>, <<<<0, 1>>>>, <<<<1, 1>>>>},
            d \in {<<0, 16>>, <<8, 1>>},
            r \in {<<>>, <<0, 5>>}}
    \cup {MCSignature(5, <<0, 0, 0, 0>>, <<1, 1>>, None, <<1, 2>>, <<>>, <<>>, <<1, 1, 1, 1>>),
          MCSignature(5, <<0, 0, 0, 0>>, <<1, 1>>, None, <<1, 2>>, <<>>,
                      [i \in 1..17 |-> 1], <<>>)}

=============================================================================
