---------------------------- MODULE HardwareRoot ----------------------------
(***************************************************************************)
(* HardwarePunctureState and FullChainProtection                           *)
(* (src/src/hardware_root.rs): a set of punctured tags with a version,     *)
(* signed by an ed25519 key the state carries, proofs of a tag's status    *)
(* signed with the same key, and serialized copies that can be damaged and *)
(* restored.                                                               *)
(*                                                                         *)
(* A key stands for its pair.  A signature is the key and the payload it   *)
(* was made over (ed25519 is deterministic and external); the payload of a *)
(* state, its sorted tags and its version at eight bytes each, determines  *)
(* and is determined by the pair of both, and a proof's payload has the    *)
(* shape of a state of one tag.  hw_type and timestamp are signed nowhere  *)
(* and read nowhere: they are left out.                                    *)
(***************************************************************************)
EXTENDS Integers, FiniteSets

CONSTANTS
    Tags,       \* tags punctured
    Keys,       \* ed25519 key pairs
    None,       \* no signature, no secret key, no saved copy
    MaxLines,   \* bound: restores, each of which starts a new line of versions
    MaxProofs   \* bound: proofs a verifier keeps to compare

ASSUME TagsAssumption == IsFiniteSet(Tags)

ASSUME NoneAssumption == None \notin Keys \cup [key : Keys, over : [tags : SUBSET Tags, version : Nat]]

ASSUME BoundsAssumption == MaxLines \in Nat /\ MaxProofs \in Nat

VARIABLES
    state,      \* the HardwarePunctureState in use
    full_chain, \* it lives inside a FullChainProtection
    saved,      \* a serialized copy of it, or None
    sealed,     \* history: [now, saved]: untouched since its own key signed it
    line,       \* history: the number of restores so far
    proofs      \* history: the proofs a verifier kept, with their line

vars == <<state, full_chain, saved, sealed, line, proofs>>

Payload == [tags : SUBSET Tags, version : Nat]

Signature == [key : Keys, over : Payload]

HardwarePunctureState ==
    [punctured_tags : SUBSET Tags,
     version        : 0..(Cardinality(Tags) + MaxLines + 1),
     hw_signature   : Signature \cup {None},
     hw_pubkey      : Keys,
     hw_secret_key  : Keys \cup {None}]

PunctureProof ==
    [tag : Tags, punctured : BOOLEAN, version : Nat, hw_signature : Signature \cup {None}]

-----------------------------------------------------------------------------
(* Signing and verifying.                                                  *)

ComputePayload(s) == [tags |-> s.punctured_tags, version |-> s.version]

SignedBy(s, key) == [s EXCEPT !.hw_signature = [key |-> key, over |-> ComputePayload(s)]]

(* sign_state: without a secret key the old signature stays.               *)
SignState(s) == IF s.hw_secret_key = None THEN s ELSE SignedBy(s, s.hw_secret_key)

(* verify, verify_integrity                                                *)
Verify(s) == s.hw_signature = [key |-> s.hw_pubkey, over |-> ComputePayload(s)]

IsPunctured(s, tag) == tag \in s.punctured_tags

(* new_with_keypair; new draws the key.                                    *)
NewWithKeypair(key) ==
    SignState([punctured_tags |-> {}, version |-> 0, hw_signature |-> None,
               hw_pubkey |-> key, hw_secret_key |-> key])

ProofPayload(tag, version) == [tags |-> {tag}, version |-> version]

(* generate_puncture_proof                                                 *)
ProofOf(s, tag) ==
    [tag |-> tag, punctured |-> IsPunctured(s, tag), version |-> s.version,
     hw_signature |-> IF s.hw_secret_key = None THEN None
                      ELSE [key |-> s.hw_secret_key,
                            over |-> ProofPayload(tag, s.version)]]

(* PunctureProof::verify_with_pubkey                                       *)
VerifyWithPubkey(proof, key) ==
    proof.hw_signature = [key |-> key, over |-> ProofPayload(proof.tag, proof.version)]

(* SecurityStatus::is_secure: the statistical distance of 2^64 firewall    *)
(* operations, the most crf_count can hold, is still below its limit, so   *)
(* the integrity of the state decides.                                     *)
IsSecure(s) == Verify(s)

-----------------------------------------------------------------------------

Init ==
    /\ state \in {NewWithKeypair(key) : key \in Keys}
    /\ full_chain \in BOOLEAN
    /\ saved = None
    /\ sealed = [now |-> TRUE, saved |-> FALSE]
    /\ line = 0
    /\ proofs = {}

(* Variant: the version does not move.                                     *)
InsertUncounted(s, tag) == [s EXCEPT !.punctured_tags = @ \cup {tag}]

(* if punctured_tags.insert(tag) { version += 1; ... }                     *)
Inserted(s, tag) ==
    IF IsPunctured(s, tag) THEN s
    ELSE [s EXCEPT !.punctured_tags = @ \cup {tag}, !.version = @ + 1]

(* Variant: a tag punctured twice counts and is signed for twice.          *)
PunctureCountingAll(tag) ==
    /\ ~full_chain
    /\ state' = SignState([state EXCEPT !.punctured_tags = @ \cup {tag}, !.version = @ + 1])
    /\ sealed' = [sealed EXCEPT !.now = state.hw_secret_key = state.hw_pubkey]
    /\ UNCHANGED <<full_chain, saved, line, proofs>>

(* Variant: a tag punctured twice is signed for twice.                     *)
PunctureSigningAlways(tag) ==
    /\ ~full_chain
    /\ state' = SignState(Inserted(state, tag))
    /\ sealed' = IF IsPunctured(state, tag) THEN sealed
                 ELSE [sealed EXCEPT !.now = state.hw_secret_key = state.hw_pubkey]
    /\ UNCHANGED <<full_chain, saved, line, proofs>>

(* HardwareRootOfTrust::puncture: a tag already punctured is not signed    *)
(* for again, so it repairs nothing; a new tag is signed for on top of     *)
(* whatever the state holds, without looking at the old signature.         *)
Puncture(tag) ==
    /\ ~full_chain
    /\ state' = IF IsPunctured(state, tag) THEN state ELSE SignState(Inserted(state, tag))
    /\ sealed' = IF IsPunctured(state, tag) THEN sealed
                 ELSE [sealed EXCEPT !.now = state.hw_secret_key = state.hw_pubkey]
    /\ UNCHANGED <<full_chain, saved, line, proofs>>

(* puncture_with_keypair: signed with the key of the caller, not the       *)
(* state's.  FullChainProtection::puncture_with_protection passes the key  *)
(* the state was made with.                                                *)
PunctureWithKeypair(tag, key) ==
    /\ full_chain => key = state.hw_pubkey
    /\ state' = IF IsPunctured(state, tag) THEN state
                ELSE SignedBy(Inserted(state, tag), key)
    /\ sealed' = IF IsPunctured(state, tag) THEN sealed
                 ELSE [sealed EXCEPT !.now = key = state.hw_pubkey]
    /\ UNCHANGED <<full_chain, saved, line, proofs>>

GeneratePunctureProof(tag) ==
    /\ Cardinality(proofs) < MaxProofs
    /\ proofs' = proofs \cup {[line |-> line, proof |-> ProofOf(state, tag)]}
    /\ UNCHANGED <<state, full_chain, saved, sealed, line>>

-----------------------------------------------------------------------------
(* Copies: the state derives Clone, Serialize and Deserialize, a           *)
(* FullChainProtection does not.                                           *)

Save ==
    /\ ~full_chain
    /\ saved' = state
    /\ sealed' = [sealed EXCEPT !.saved = sealed.now]
    /\ UNCHANGED <<state, full_chain, line, proofs>>

(* A copy that still deserializes with one field changed.                  *)
DamagedCopies(s) ==
    {[s EXCEPT !.punctured_tags = @ \cup {tag}] : tag \in Tags \ s.punctured_tags}
    \cup {[s EXCEPT !.version = @ + 1], [s EXCEPT !.hw_signature = None]}

DamageSaved ==
    /\ saved # None
    /\ sealed.saved
    /\ saved' \in DamagedCopies(saved)
    /\ sealed' = [sealed EXCEPT !.saved = FALSE]
    /\ UNCHANGED <<state, full_chain, line, proofs>>

(* The secret is optional in the serialized form: a copy published without *)
(* it still verifies and signs nothing more.                               *)
ForgetSecret ==
    /\ saved # None
    /\ saved' = [saved EXCEPT !.hw_secret_key = None]
    /\ UNCHANGED <<state, full_chain, sealed, line, proofs>>

(* Deserializing a copy does not verify it.                                *)
Restore ==
    /\ saved # None
    /\ line < MaxLines
    /\ state' = saved
    /\ sealed' = [sealed EXCEPT !.now = sealed.saved]
    /\ line' = line + 1
    /\ UNCHANGED <<full_chain, saved, proofs>>

Next ==
    \/ \E tag \in Tags : Puncture(tag) \/ GeneratePunctureProof(tag)
    \/ \E tag \in Tags, key \in Keys : PunctureWithKeypair(tag, key)
    \/ Save
    \/ DamageSaved
    \/ ForgetSecret
    \/ Restore

Spec == Init /\ [][Next]_vars

-----------------------------------------------------------------------------

TypeOK ==
    /\ state \in HardwarePunctureState
    /\ full_chain \in BOOLEAN
    /\ saved \in HardwarePunctureState \cup {None}
    /\ sealed \in [now : BOOLEAN, saved : BOOLEAN]
    /\ line \in 0..MaxLines
    /\ \A p \in proofs : p.line \in 0..MaxLines /\ p.proof \in PunctureProof

(* A state, or a copy of one, verifies exactly when the last thing that    *)
(* happened to its tags was a signature by its own key: not after a new    *)
(* tag punctured under another key or without the secret, and not after    *)
(* damage, which puncturing an old tag again does not repair.              *)
VerifiesIffSealed ==
    /\ Verify(state) <=> sealed.now
    /\ saved # None => (Verify(saved) <=> sealed.saved)
    /\ full_chain => IsSecure(state)

(* Two proofs of one tag that a verifier accepts, issued between the same  *)
(* two restores: the later version never takes back a puncture, and one    *)
(* version never says both.  The status itself is not signed and versions  *)
(* repeat after a restore, so nothing stronger binds a verifier.           *)
ProofsAgree ==
    \A p, r \in proofs :
        /\ p.line = r.line
        /\ p.proof.tag = r.proof.tag
        /\ VerifyWithPubkey(p.proof, state.hw_pubkey)
        /\ VerifyWithPubkey(r.proof, state.hw_pubkey)
        /\ p.proof.version <= r.proof.version
        /\ p.proof.punctured
        => r.proof.punctured

=============================================================================
