------------------------------ MODULE LegacyKey ------------------------------
(***************************************************************************)
(* The life of a user key through its two representations: the structured  *)
(* UserSecretKey (src/src/keygen.rs) and the legacy byte map               *)
(* (src/src/compat.rs), which stores the puncture tree twice, once inside  *)
(* the serialized key under "sk_struct" and once under "puncture_tree",    *)
(* and the counter a third time under "puncture_count".  Every operation   *)
(* of puncture.rs, sign.rs and verify.rs on either representation reads    *)
(* one of those copies.                                                    *)
(*                                                                         *)
(* A puncture tree is the set of tags it stands for (PunctureTree is shown *)
(* to implement that set) with its counter.  Calls are one step each but   *)
(* for puncture_multiple, which punctures its tags one after the other and *)
(* may fail at any of them.  Any other call that returns Err has changed   *)
(* nothing when it does and has no action.                                 *)
(***************************************************************************)
EXTENDS Integers, Sequences, Functions

CONSTANTS
    Capacity,   \* number of tags a tree holds, 1 << revocation_tree_depth
    Tags,       \* the tags callers pass, within the capacity or beyond it
    Batches,    \* the tag lists callers pass to puncture_multiple
    Slots,      \* places where a caller keeps a legacy map
    None        \* an empty slot, no call of puncture_multiple

ASSUME CapacityAssumption == Capacity \in Nat \ {0}

ASSUME TagsAssumption == Tags \subseteq Nat

ASSUME BatchesAssumption == Batches \subseteq Seq(Tags)

VARIABLES
    key,          \* the structured key the caller holds
    maps,         \* slot -> the legacy map kept there, or None
    batch,        \* the call of puncture_multiple that runs, or None
    key_history,  \* history: the tags UserSecretKey::puncture revoked on key
    map_history,  \* history: slot -> the tags revoked on its map, by API
    signed        \* history: the last signature issued, <<tag, key's history>>

vars == <<key, maps, batch, key_history, map_history, signed>>

-----------------------------------------------------------------------------
(* The representations.                                                    *)

Tree == [tags : SUBSET {t \in Tags : t < Capacity}, count : Nat]

StructuredKey == [puncture_tree : Tree, puncture_count : Nat]

LegacyMap == [sk_struct : StructuredKey, puncture_tree : Tree, puncture_count : Nat]

History == [structured : SUBSET Tags, legacy : SUBSET Tags]

(* puncture_multiple on its way: the slot of the map it borrows, the tags, *)
(* the place of the next one, and its locals punctured_sk and tree.        *)
BatchCall ==
    [from : Slots, taus : Batches, next : Nat, punctured_sk : LegacyMap, tree : Tree]

ASSUME NoneAssumption == None \notin BatchCall /\ None \notin LegacyMap

TypeOK ==
    /\ key \in StructuredKey
    /\ maps \in [Slots -> LegacyMap \cup {None}]
    /\ batch \in BatchCall \cup {None}
    /\ key_history \in SUBSET Tags
    /\ map_history \in [Slots -> History]
    /\ signed \in SUBSET (Tags \X History)

EmptyTree == [tags |-> {}, count |-> 0]

(* keygen_structured: a new tree and a zero counter.                       *)
FreshKey == [puncture_tree |-> EmptyTree, puncture_count |-> 0]

(* user_secret_key_to_legacy_map: the key, then copies of its fields.      *)
ToLegacyMap(k) ==
    [sk_struct |-> k, puncture_tree |-> k.puncture_tree, puncture_count |-> k.puncture_count]

(* Variant: the capacity check of PunctureTree is off by one.              *)
InRangeInclusive(tag) == tag <= Capacity

InRange(tag) == tag < Capacity

(* PunctureTree::puncture of a tag in range.                               *)
PunctureTag(tree, tag) ==
    IF tag \in tree.tags
    THEN tree
    ELSE [tags |-> tree.tags \cup {tag}, count |-> tree.count + 1]

-----------------------------------------------------------------------------
(* Operations on the structured key.                                       *)

Init ==
    /\ key = FreshKey
    /\ maps = [s \in Slots |-> None]
    /\ batch = None
    /\ key_history = {}
    /\ map_history = [s \in Slots |-> [structured |-> {}, legacy |-> {}]]
    /\ signed = {}

(* Variant: the key's own counter is bumped without looking at was_new.    *)
PunctureAlwaysCounts(tag) ==
    /\ InRange(tag)
    /\ key' = [puncture_tree |-> PunctureTag(key.puncture_tree, tag),
               puncture_count |-> key.puncture_count + 1]
    /\ key_history' = key_history \cup {tag}
    /\ UNCHANGED <<maps, batch, map_history, signed>>

(* UserSecretKey::puncture(tag) = Ok(_): the key's own counter follows the *)
(* tree's when the tag is new.                                             *)
Puncture(tag) ==
    /\ InRange(tag)
    /\ key' = [puncture_tree |-> PunctureTag(key.puncture_tree, tag),
               puncture_count |-> IF tag \in key.puncture_tree.tags
                                  THEN key.puncture_count
                                  ELSE key.puncture_count + 1]
    /\ key_history' = key_history \cup {tag}
    /\ UNCHANGED <<maps, batch, map_history, signed>>

(* Variant: the puncture gate is missing.                                  *)
SignUngated(tag) ==
    /\ InRange(tag)
    /\ signed' = {<<tag, [structured |-> key_history, legacy |-> {}]>>}
    /\ UNCHANGED <<key, maps, batch, key_history, map_history>>

(* sign_structured(key, ..., tag) = Ok(_), for a policy the key satisfies. *)
SignStructured(tag) ==
    /\ InRange(tag)
    /\ tag \notin key.puncture_tree.tags
    /\ signed' = {<<tag, [structured |-> key_history, legacy |-> {}]>>}
    /\ UNCHANGED <<key, maps, batch, key_history, map_history>>

-----------------------------------------------------------------------------
(* Operations on legacy maps.                                              *)

(* A new map is put in a slot, whatever was there.                         *)
Store(slot, map, history) ==
    /\ maps' = [maps EXCEPT ![slot] = map]
    /\ map_history' = [map_history EXCEPT ![slot] = history]

(* A running puncture_multiple borrows its map: others may read it but not *)
(* put another one in its place.                                           *)
Unborrowed(slot) == batch # None => batch.from # slot

(* try_keygen                                                              *)
TryKeygen(slot) ==
    /\ Unborrowed(slot)
    /\ Store(slot, ToLegacyMap(FreshKey), [structured |-> {}, legacy |-> {}])
    /\ UNCHANGED <<key, batch, key_history, signed>>

(* user_secret_key_to_legacy_map(key)                                      *)
Export(slot) ==
    /\ Unborrowed(slot)
    /\ Store(slot, ToLegacyMap(key), [structured |-> key_history, legacy |-> {}])
    /\ UNCHANGED <<key, batch, key_history, signed>>

(* get_user_secret_key(map): the key is read from "sk_struct" alone.       *)
Import(slot) ==
    /\ maps[slot] # None
    /\ key' = maps[slot].sk_struct
    /\ key_history' = map_history[slot].structured
    /\ UNCHANGED <<maps, batch, map_history, signed>>

(* What both APIs return: the copy of the map with "puncture_tree" and     *)
(* "puncture_count" replaced.                                              *)
WithTree(map, tree) == [map EXCEPT !.puncture_tree = tree, !.puncture_count = tree.count]

Revoked(history, tags) == [history EXCEPT !.legacy = @ \cup tags]

(* puncture::puncture(map, tag) = Ok(copy)                                 *)
LegacyPuncture(from, to, tag) ==
    /\ maps[from] # None
    /\ Unborrowed(to)
    /\ InRange(tag)
    /\ Store(to, WithTree(maps[from], PunctureTag(maps[from].puncture_tree, tag)),
             Revoked(map_history[from], {tag}))
    /\ UNCHANGED <<key, batch, key_history, signed>>

-----------------------------------------------------------------------------
(* Puncture::puncture_multiple, step by step.                              *)

(* The call clones the map and reads the tree from the clone.              *)
BeginBatch(from, taus) ==
    /\ batch = None
    /\ maps[from] # None
    /\ batch' = [from |-> from, taus |-> taus, next |-> 1,
                 punctured_sk |-> maps[from], tree |-> maps[from].puncture_tree]
    /\ UNCHANGED <<key, maps, key_history, map_history, signed>>

(* More tags to go, the next one at hand.                                  *)
Looping == batch # None /\ batch.next <= Len(batch.taus)

NextTau == batch.taus[batch.next]

(* tree.puncture(tau)? = Ok(_)                                             *)
PunctureNext ==
    /\ Looping
    /\ InRange(NextTau)
    /\ batch' = [batch EXCEPT !.tree = PunctureTag(@, NextTau), !.next = @ + 1]
    /\ UNCHANGED <<key, maps, key_history, map_history, signed>>

(* Variant: the loop ends at the tag beyond the capacity, and what it has  *)
(* punctured up to there is written back to the caller's map.              *)
KeepBeginning ==
    /\ Looping
    /\ ~InRange(NextTau)
    /\ maps' = [maps EXCEPT ![batch.from] = WithTree(batch.punctured_sk, batch.tree)]
    /\ batch' = None
    /\ UNCHANGED <<key, key_history, map_history, signed>>

(* tree.puncture(tau)? = Err(_): the call returns at once and drops its    *)
(* locals, the tags it has punctured with them.                            *)
FailBatch ==
    /\ Looping
    /\ ~InRange(NextTau)
    /\ batch' = None
    /\ UNCHANGED <<key, maps, key_history, map_history, signed>>

(* The loop is over: the tree is written to the clone, Ok(clone) returned, *)
(* and the caller keeps it where it likes.                                 *)
FinishBatch(to) ==
    /\ batch # None /\ ~Looping
    /\ Store(to, WithTree(batch.punctured_sk, batch.tree),
             Revoked(map_history[batch.from], Range(batch.taus)))
    /\ batch' = None
    /\ UNCHANGED <<key, key_history, signed>>

-----------------------------------------------------------------------------
(* Signing and verifying with a legacy map.                                *)

(* sign::sign(map, ..., tag) = Ok(_): the key is read from "sk_struct".    *)
LegacySign(slot, tag) ==
    /\ maps[slot] # None
    /\ InRange(tag)
    /\ tag \notin maps[slot].sk_struct.puncture_tree.tags
    /\ signed' = {<<tag, map_history[slot]>>}
    /\ UNCHANGED <<key, maps, batch, key_history, map_history>>

(* The checks verify_with_local_puncture_state makes before it verifies    *)
(* the signature itself.                                                   *)
LocalVerdict(map, tag) ==
    IF map.puncture_count # map.puncture_tree.count THEN "inconsistent"
    ELSE IF ~InRange(tag) THEN "out of range"
    ELSE IF tag \in map.puncture_tree.tags THEN "punctured"
    ELSE "verify"

Next ==
    \/ \E tag \in Tags : Puncture(tag) \/ SignStructured(tag)
    \/ \E s \in Slots : TryKeygen(s) \/ Export(s) \/ Import(s)
    \/ \E from, to \in Slots, tag \in Tags : LegacyPuncture(from, to, tag)
    \/ \E from \in Slots, taus \in Batches : BeginBatch(from, taus)
    \/ PunctureNext \/ FailBatch \/ \E to \in Slots : FinishBatch(to)
    \/ \E s \in Slots, tag \in Tags : LegacySign(s, tag)

Spec == Init /\ [][Next]_vars

-----------------------------------------------------------------------------
(* Properties.                                                             *)

(* No signature is ever issued under a tag that UserSecretKey::puncture    *)
(* had revoked on the signing key before, whether the key has since gone   *)
(* through the legacy map and back, and whichever API then signs.          *)
ForwardSecure ==
    \A s \in signed : s[1] \notin s[2].structured

(* The local check of a legacy map goes on to verify exactly the tags that *)
(* are in range and were not revoked by either API, and never reports the  *)
(* map's counter and tree as inconsistent: the three copies of the counter *)
(* move together on every path.                                            *)
LocalCheckExact ==
    \A s \in Slots : maps[s] # None =>
        \A tag \in Tags :
            LocalVerdict(maps[s], tag) =
                IF ~InRange(tag) THEN "out of range"
                ELSE IF tag \in map_history[s].structured \cup map_history[s].legacy
                THEN "punctured" ELSE "verify"

(* What a call of puncture_multiple may have done when it returns.         *)
AllOrNothing ==
    LET tags   == Range(batch.taus)
        before == batch.punctured_sk
    IN  IF \A t \in tags : InRange(t)
        THEN \E to \in Slots :
                /\ maps'[to] # None
                /\ maps'[to].sk_struct = before.sk_struct
                /\ maps'[to].puncture_tree.tags = before.puncture_tree.tags \cup tags
                /\ maps'[to].puncture_count = maps'[to].puncture_tree.count
                /\ \A s \in Slots \ {to} : maps'[s] = maps[s]
                /\ to # batch.from => maps'[batch.from] = before
        ELSE maps' = maps /\ maps'[batch.from] = before

(* puncture_multiple is all or nothing, whatever other calls do while it   *)
(* runs: it returns a map with every tag of the batch punctured and        *)
(* nothing else changed, or, if any tag is beyond the capacity, no map,    *)
(* and the caller's own is what it was when the call began, though tags    *)
(* before the bad one have been punctured on the way.                      *)
BatchIsAtomic == [][batch # None /\ batch' = None => AllOrNothing]_vars

(* What keygen.rs:55 and puncture.rs:28 promise of a punctured key, stated *)
(* for the legacy API: a map returned by puncture no longer signs under    *)
(* the tag.  The code does not keep it, for sign reads "sk_struct" and     *)
(* puncture rewrites "puncture_tree" only.                                 *)
LegacyForwardSecure ==
    \A s \in signed : s[1] \notin s[2].legacy

=============================================================================
