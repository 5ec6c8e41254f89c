---------------------------- MODULE MCLegacyKey ----------------------------
(***************************************************************************)
(* Trees of two tags, a tag beyond them, two slots (a map and a punctured  *)
(* copy of it side by side), and batches with a repeated tag and with a    *)
(* tag beyond the capacity in the middle.                                  *)
(***************************************************************************)
EXTENDS LegacyKey

MCTags == 0..2

MCBatches == {<<0, 1>>, <<1, 1>>, <<0, 2, 1>>}

=============================================================================
