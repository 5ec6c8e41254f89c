------------------------- MODULE HardwareRootProofs -------------------------
(***************************************************************************)
(* Proofs about HardwareRoot for every finite set of tags, every set of    *)
(* keys and every bound on restores and proofs.                            *)
(***************************************************************************)
EXTENDS HardwareRoot, FiniteSetTheorems, TLAPS

(* The fields of a state, with no bound on the version.                    *)
Fields ==
    [punctured_tags : SUBSET Tags, version : Nat, hw_signature : Signature \cup {None},
     hw_pubkey : Keys, hw_secret_key : Keys \cup {None}]

(* A state or a copy: a secret it has is the one of its public key, its    *)
(* signature is of no later version, it verifies exactly when it is clean, *)
(* and its version counts its tags and at most slack more.                 *)
WellKept(s, clean, slack) ==
    /\ s \in Fields
    /\ s.hw_secret_key \in {None, s.hw_pubkey}
    /\ s.hw_signature # None => s.hw_signature.over.version <= s.version
    /\ Verify(s) <=> clean
    /\ s.version <= Cardinality(s.punctured_tags) + slack

(* A proof of the line in use is not ahead of the state, and the state     *)
(* says of its tag what a proof of the same version says.                  *)
ProofsFollow ==
    \A p \in proofs :
        /\ p.line \in 0..line
        /\ p.proof \in PunctureProof
        /\ p.line = line =>
             /\ p.proof.version <= state.version
             /\ p.proof.punctured => p.proof.tag \in state.punctured_tags
             /\ p.proof.version = state.version =>
                  (p.proof.punctured <=> p.proof.tag \in state.punctured_tags)

(* ProofsAgree without its conditions on signatures.                       *)
VersionsOrdered ==
    \A p, r \in proofs :
        /\ p.line = r.line
        /\ p.proof.tag = r.proof.tag
        /\ p.proof.version <= r.proof.version
        /\ p.proof.punctured
        => r.proof.punctured

(* The inductive invariant.                                                *)
IInv ==
    /\ full_chain \in BOOLEAN
    /\ sealed \in [now : BOOLEAN, saved : BOOLEAN]
    /\ line \in 0..MaxLines
    /\ WellKept(state, sealed.now, line)
    /\ saved # None =>
         /\ WellKept(saved, sealed.saved, line + 1)
         /\ sealed.saved => saved.version <= Cardinality(saved.punctured_tags) + line
    /\ full_chain => saved = None /\ sealed.now
    /\ ProofsFollow
    /\ VersionsOrdered

-----------------------------------------------------------------------------
(* One more tag is one more in the count, and counts are bounded by Tags.  *)
LEMMA Counts ==
    ASSUME NEW tags \in SUBSET Tags
    PROVE  /\ Cardinality(tags) \in Nat
           /\ Cardinality(tags) <= Cardinality(Tags)
           /\ Cardinality(Tags) \in Nat
           /\ \A tag \in Tags \ tags : Cardinality(tags \cup {tag}) = Cardinality(tags) + 1
<1>1. IsFiniteSet(tags) /\ Cardinality(tags) <= Cardinality(Tags)
  BY TagsAssumption, FS_Subset
<1>2. Cardinality(tags) \in Nat /\ Cardinality(Tags) \in Nat
  BY <1>1, TagsAssumption, FS_CardinalityType
<1>3. ASSUME NEW tag \in Tags \ tags
      PROVE  Cardinality(tags \cup {tag}) = Cardinality(tags) + 1
  BY <1>1, <1>3, FS_AddElement
<1>4. QED BY <1>1, <1>2, <1>3

(* What a new tag changes in a state, field by field.                      *)
LEMMA InsertedFields ==
    ASSUME NEW s \in Fields, NEW tag \in Tags, tag \notin s.punctured_tags
    PROVE  /\ Inserted(s, tag) \in Fields
           /\ Inserted(s, tag).punctured_tags = s.punctured_tags \cup {tag}
           /\ Inserted(s, tag).version = s.version + 1
           /\ Inserted(s, tag).hw_signature = s.hw_signature
           /\ Inserted(s, tag).hw_pubkey = s.hw_pubkey
           /\ Inserted(s, tag).hw_secret_key = s.hw_secret_key
<1>1. Inserted(s, tag) = [s EXCEPT !.punctured_tags = s.punctured_tags \cup {tag},
                                   !.version = s.version + 1]
  BY DEF Inserted, IsPunctured
<1>2. s.punctured_tags \cup {tag} \in SUBSET Tags /\ s.version + 1 \in Nat
  BY DEF Fields
<1>3. QED BY <1>1, <1>2 DEF Fields

(* What a signature changes, and when the state verifies by it.            *)
LEMMA SignedFields ==
    ASSUME NEW s \in Fields, NEW key \in Keys
    PROVE  /\ SignedBy(s, key) \in Fields
           /\ SignedBy(s, key).punctured_tags = s.punctured_tags
           /\ SignedBy(s, key).version = s.version
           /\ SignedBy(s, key).hw_pubkey = s.hw_pubkey
           /\ SignedBy(s, key).hw_secret_key = s.hw_secret_key
           /\ SignedBy(s, key).hw_signature # None
           /\ SignedBy(s, key).hw_signature.over.version = s.version
           /\ Verify(SignedBy(s, key)) <=> key = s.hw_pubkey
<1>1. [key |-> key, over |-> ComputePayload(s)] \in Signature
  BY DEF Fields, Signature, Payload, ComputePayload
<1>2. [key |-> key, over |-> ComputePayload(s)] # None
  BY <1>1, NoneAssumption DEF Signature, Payload
<1>3. SignedBy(s, key) = [s EXCEPT !.hw_signature = [key |-> key, over |-> ComputePayload(s)]]
  BY DEF SignedBy
<1>4. ComputePayload(SignedBy(s, key)) = ComputePayload(s)
  BY <1>3 DEF ComputePayload, Fields
<1>5. /\ SignedBy(s, key) \in Fields
      /\ SignedBy(s, key).hw_signature = [key |-> key, over |-> ComputePayload(s)]
      /\ SignedBy(s, key).hw_pubkey = s.hw_pubkey
  BY <1>1, <1>3 DEF Fields
<1>6. Verify(SignedBy(s, key)) <=> key = s.hw_pubkey
  BY <1>4, <1>5 DEF Verify
<1>7. QED BY <1>2, <1>3, <1>5, <1>6 DEF Fields, ComputePayload

(* A new tag signed for by a key leaves a well kept state, clean if the    *)
(* key is the state's own.                                                 *)
LEMMA SignedInsertion ==
    ASSUME NEW s, NEW clean \in BOOLEAN, NEW slack \in Nat, WellKept(s, clean, slack),
           NEW tag \in Tags, tag \notin s.punctured_tags, NEW key \in Keys
    PROVE  WellKept(SignedBy(Inserted(s, tag), key), key = s.hw_pubkey, slack)
<1> DEFINE r == Inserted(s, tag)
<1>1. s \in Fields
  BY DEF WellKept
<1>2. /\ r \in Fields
      /\ r.punctured_tags = s.punctured_tags \cup {tag}
      /\ r.version = s.version + 1
      /\ r.hw_pubkey = s.hw_pubkey
      /\ r.hw_secret_key = s.hw_secret_key
  BY <1>1, InsertedFields
<1>3. /\ s.punctured_tags \in SUBSET Tags
      /\ s.version \in Nat
  BY <1>1 DEF Fields
<1>4. r.version <= Cardinality(r.punctured_tags) + slack
  BY <1>2, <1>3, Counts DEF WellKept
<1> HIDE DEF r
<1>5. /\ SignedBy(r, key) \in Fields
      /\ SignedBy(r, key).punctured_tags = r.punctured_tags
      /\ SignedBy(r, key).version = r.version
      /\ SignedBy(r, key).hw_pubkey = r.hw_pubkey
      /\ SignedBy(r, key).hw_secret_key = r.hw_secret_key
      /\ SignedBy(r, key).hw_signature.over.version = r.version
      /\ Verify(SignedBy(r, key)) <=> key = r.hw_pubkey
  BY <1>2, SignedFields
<1>6. r.version <= r.version
  BY <1>2, <1>3
<1>7. QED BY <1>2, <1>4, <1>5, <1>6 DEF WellKept, r

(* A new tag that nobody signs for leaves a well kept state that no longer *)
(* verifies: its version is past the one that was signed.                  *)
LEMMA UnsignedInsertion ==
    ASSUME NEW s, NEW clean \in BOOLEAN, NEW slack \in Nat, WellKept(s, clean, slack),
           NEW tag \in Tags, tag \notin s.punctured_tags
    PROVE  WellKept(Inserted(s, tag), FALSE, slack)
<1> DEFINE r == Inserted(s, tag)
<1>1. s \in Fields /\ s.punctured_tags \in SUBSET Tags /\ s.version \in Nat
  BY DEF WellKept, Fields
<1>2. /\ r \in Fields
      /\ r.punctured_tags = s.punctured_tags \cup {tag}
      /\ r.version = s.version + 1
      /\ r.hw_signature = s.hw_signature
      /\ r.hw_pubkey = s.hw_pubkey
      /\ r.hw_secret_key = s.hw_secret_key
  BY <1>1, InsertedFields
<1>3. r.version <= Cardinality(r.punctured_tags) + slack
  BY <1>1, <1>2, Counts DEF WellKept
<1>4. r.hw_signature # None => r.hw_signature.over.version \in Nat /\ r.hw_signature.over.version < r.version
  <2>1. s.hw_signature # None => s.hw_signature.over.version \in Nat
    BY <1>1 DEF Fields, Signature, Payload
  <2>2. QED BY <1>1, <1>2, <2>1 DEF WellKept
<1>5. ~Verify(r)
  <2>1. [key |-> r.hw_pubkey, over |-> ComputePayload(r)] \in Signature
    BY <1>2 DEF Fields, Signature, Payload, ComputePayload
  <2>2. [key |-> r.hw_pubkey, over |-> ComputePayload(r)] # None
    BY <2>1, NoneAssumption DEF Signature, Payload
  <2>3. [key |-> r.hw_pubkey, over |-> ComputePayload(r)].over.version = r.version
    BY DEF ComputePayload
  <2>4. QED BY <1>2, <1>4, <2>2, <2>3 DEF Verify
<1>6. r.version \in Nat
  BY <1>1, <1>2
<1>7. QED BY <1>2, <1>3, <1>4, <1>5, <1>6 DEF WellKept

-----------------------------------------------------------------------------
(* A new state is well kept.                                               *)
LEMMA Initially == Init => IInv
<1> SUFFICES ASSUME Init PROVE IInv
  OBVIOUS
<1>1. PICK key \in Keys : state = NewWithKeypair(key)
  BY DEF Init
<1> DEFINE blank == [punctured_tags |-> {}, version |-> 0, hw_signature |-> None,
                     hw_pubkey |-> key, hw_secret_key |-> key]
<1>2. blank \in Fields /\ key # None
  BY NoneAssumption DEF Fields
<1>3. state = SignedBy(blank, key)
  BY <1>1, <1>2 DEF NewWithKeypair, SignState
<1>4. Cardinality({}) = 0
  BY FS_EmptySet
<1> HIDE DEF blank
<1>5. /\ state \in Fields
      /\ state.punctured_tags = blank.punctured_tags
      /\ state.version = blank.version
      /\ state.hw_pubkey = blank.hw_pubkey
      /\ state.hw_secret_key = blank.hw_secret_key
      /\ state.hw_signature.over.version = blank.version
      /\ Verify(state) <=> key = blank.hw_pubkey
  BY <1>2, <1>3, SignedFields
<1>6. /\ blank.punctured_tags = {}
      /\ blank.version = 0
      /\ blank.hw_pubkey = key
      /\ blank.hw_secret_key = key
  BY DEF blank
<1>7. WellKept(state, TRUE, 0)
  BY <1>4, <1>5, <1>6 DEF WellKept
<1>8. sealed.now = TRUE /\ sealed \in [now : BOOLEAN, saved : BOOLEAN]
  BY DEF Init
<1>9. line = 0 /\ line \in 0..MaxLines /\ full_chain \in BOOLEAN /\ saved = None /\ proofs = {}
  BY BoundsAssumption DEF Init
<1>10. WellKept(state, sealed.now, line)
  BY <1>7, <1>8, <1>9
<1>11. ProofsFollow /\ VersionsOrdered
  BY <1>9 DEF ProofsFollow, VersionsOrdered
<1>12. QED BY <1>8, <1>9, <1>10, <1>11 DEF IInv

(* What the proofs need of a step that changes the state within a line:    *)
(* tags only come, and a state with other tags is of a later version.      *)
LEMMA ProofsKept ==
    ASSUME IInv, line' = line, proofs' = proofs,
           state.version \in Nat, state'.version \in Nat,
           state.punctured_tags \subseteq state'.punctured_tags,
           state.version <= state'.version,
           state'.version = state.version => state'.punctured_tags = state.punctured_tags
    PROVE  ProofsFollow' /\ VersionsOrdered'
<1>1. VersionsOrdered'
  BY DEF IInv, VersionsOrdered
<1>2. ASSUME NEW p \in proofs, p.line = line
      PROVE  /\ p.proof.version <= state'.version
             /\ p.proof.punctured => p.proof.tag \in state'.punctured_tags
             /\ p.proof.version = state'.version =>
                  (p.proof.punctured <=> p.proof.tag \in state'.punctured_tags)
  <2>1. /\ p.proof.version \in Nat
        /\ p.proof.version <= state.version
        /\ p.proof.punctured => p.proof.tag \in state.punctured_tags
        /\ p.proof.version = state.version =>
             (p.proof.punctured <=> p.proof.tag \in state.punctured_tags)
    BY <1>2 DEF IInv, ProofsFollow, PunctureProof
  <2>2. p.proof.version = state'.version => state'.version = state.version
    BY <2>1
  <2>3. p.proof.version <= state'.version
    BY <2>1
  <2>4. QED BY <2>1, <2>2, <2>3
<1>3. ProofsFollow'
  BY <1>2 DEF IInv, ProofsFollow
<1>4. QED BY <1>1, <1>3

(* A step that changes the state alone, to one well kept within the line.  *)
LEMMA StateStep ==
    ASSUME IInv, NEW clean \in BOOLEAN, WellKept(state', clean, line),
           sealed' = [sealed EXCEPT !.now = clean], full_chain => clean,
           UNCHANGED <<full_chain, saved, line, proofs>>,
           state.punctured_tags \subseteq state'.punctured_tags,
           state.version <= state'.version,
           state'.version = state.version => state'.punctured_tags = state.punctured_tags
    PROVE  IInv'
<1>1. sealed' \in [now : BOOLEAN, saved : BOOLEAN] /\ sealed'.now = clean /\ sealed'.saved = sealed.saved
  BY DEF IInv
<1>2. state.version \in Nat /\ state'.version \in Nat
  BY DEF IInv, WellKept, Fields
<1>3. ProofsFollow' /\ VersionsOrdered'
  BY <1>2, ProofsKept
<1>4. WellKept(state, sealed.now, line)' <=> WellKept(state', sealed'.now, line)
  OBVIOUS
<1>5. QED BY <1>1, <1>3, <1>4 DEF IInv

(* The fields an inserted tag moves.                                       *)
LEMMA InsertionMoves ==
    ASSUME IInv, NEW tag \in Tags, ~IsPunctured(state, tag)
    PROVE  LET r == Inserted(state, tag) IN
           /\ tag \notin state.punctured_tags
           /\ line \in Nat /\ sealed.now \in BOOLEAN
           /\ state \in Fields /\ state.version \in Nat
           /\ r \in Fields
           /\ r.punctured_tags = state.punctured_tags \cup {tag}
           /\ r.version = state.version + 1
           /\ r.hw_pubkey = state.hw_pubkey
           /\ r.hw_secret_key = state.hw_secret_key
<1>1. tag \notin state.punctured_tags
  BY DEF IsPunctured
<1>2. state \in Fields /\ line \in Nat /\ sealed.now \in BOOLEAN
  BY DEF IInv, WellKept
<1>3. state.version \in Nat
  BY <1>2 DEF Fields
<1>4. QED BY <1>1, <1>2, <1>3, InsertedFields

LEMMA PunctureStep ==
    ASSUME IInv, NEW tag \in Tags, Puncture(tag)
    PROVE  IInv'
<1>1. CASE IsPunctured(state, tag)
  <2>1. UNCHANGED vars
    BY <1>1 DEF Puncture, vars
  <2>2. QED BY <2>1 DEF vars, IInv, ProofsFollow, VersionsOrdered
<1>2. CASE ~IsPunctured(state, tag)
  <2> DEFINE r == Inserted(state, tag)
             clean == state.hw_secret_key = state.hw_pubkey
  <2>1. /\ state' = SignState(r)
        /\ sealed' = [sealed EXCEPT !.now = clean]
        /\ UNCHANGED <<full_chain, saved, line, proofs>>
        /\ ~full_chain
    BY <1>2 DEF Puncture
  <2>2. /\ tag \notin state.punctured_tags
        /\ line \in Nat /\ sealed.now \in BOOLEAN
        /\ state \in Fields /\ state.version \in Nat
        /\ r \in Fields
        /\ r.punctured_tags = state.punctured_tags \cup {tag}
        /\ r.version = state.version + 1
        /\ r.hw_pubkey = state.hw_pubkey
        /\ r.hw_secret_key = state.hw_secret_key
    BY <1>2, InsertionMoves
  <2>3. WellKept(state, sealed.now, line)
    BY DEF IInv
  <2> HIDE DEF r
  <2>4. /\ WellKept(state', clean, line)
        /\ state'.punctured_tags = r.punctured_tags
        /\ state'.version = r.version
    <3>1. CASE state.hw_secret_key = None
      <4>1. state' = r
        BY <2>1, <2>2, <3>1 DEF SignState
      <4>2. ~clean
        BY <2>2, <3>1, NoneAssumption DEF Fields
      <4>3. WellKept(r, FALSE, line)
        BY <2>2, <2>3, UnsignedInsertion DEF r
      <4>4. clean = FALSE
        BY <4>2
      <4>5. QED BY <4>1, <4>3, <4>4
    <3>2. CASE state.hw_secret_key # None
      <4>1. state.hw_secret_key = state.hw_pubkey /\ state.hw_pubkey \in Keys
        BY <2>2, <2>3, <3>2 DEF WellKept, Fields
      <4>2. state' = SignedBy(r, state.hw_pubkey)
        BY <2>1, <2>2, <3>2, <4>1 DEF SignState
      <4>3. WellKept(SignedBy(r, state.hw_pubkey), state.hw_pubkey = state.hw_pubkey, line)
        BY <2>2, <2>3, <4>1, SignedInsertion DEF r
      <4>4. (state.hw_pubkey = state.hw_pubkey) = clean
        BY <4>1
      <4>5. QED BY <2>2, <4>1, <4>2, <4>3, <4>4, SignedFields
    <3>3. QED BY <3>1, <3>2
  <2>5. /\ state.punctured_tags \subseteq state'.punctured_tags
        /\ state.version <= state'.version
        /\ state'.version # state.version
    BY <2>2, <2>4
  <2>6. clean \in BOOLEAN
    OBVIOUS
  <2> HIDE DEF clean
  <2>7. QED BY <2>1, <2>4, <2>5, <2>6, StateStep
<1>3. QED BY <1>1, <1>2

LEMMA PunctureWithKeypairStep ==
    ASSUME IInv, NEW tag \in Tags, NEW key \in Keys, PunctureWithKeypair(tag, key)
    PROVE  IInv'
<1>1. CASE IsPunctured(state, tag)
  <2>1. UNCHANGED vars
    BY <1>1 DEF PunctureWithKeypair, vars
  <2>2. QED BY <2>1 DEF vars, IInv, ProofsFollow, VersionsOrdered
<1>2. CASE ~IsPunctured(state, tag)
  <2> DEFINE r == Inserted(state, tag)
             clean == key = state.hw_pubkey
  <2>1. /\ state' = SignedBy(r, key)
        /\ sealed' = [sealed EXCEPT !.now = clean]
        /\ UNCHANGED <<full_chain, saved, line, proofs>>
        /\ full_chain => clean
    BY <1>2 DEF PunctureWithKeypair
  <2>2. /\ tag \notin state.punctured_tags
        /\ line \in Nat /\ sealed.now \in BOOLEAN
        /\ state \in Fields /\ state.version \in Nat
        /\ r \in Fields
        /\ r.punctured_tags = state.punctured_tags \cup {tag}
        /\ r.version = state.version + 1
    BY <1>2, InsertionMoves
  <2>3. WellKept(state, sealed.now, line)
    BY DEF IInv
  <2>4. WellKept(state', clean, line)
    BY <2>1, <2>2, <2>3, SignedInsertion
  <2> HIDE DEF r
  <2>5. state'.punctured_tags = r.punctured_tags /\ state'.version = r.version
    BY <2>1, <2>2, SignedFields
  <2>6. /\ state.punctured_tags \subseteq state'.punctured_tags
        /\ state.version <= state'.version
        /\ state'.version # state.version
    BY <2>2, <2>5
  <2>7. clean \in BOOLEAN
    OBVIOUS
  <2> HIDE DEF clean
  <2>8. QED BY <2>1, <2>4, <2>6, <2>7, StateStep
<1>3. QED BY <1>1, <1>2

(* A proof just made says what the state says, so it agrees with those of  *)
(* its line, which are not ahead of the state.                             *)
LEMMA GeneratePunctureProofStep ==
    ASSUME IInv, NEW tag \in Tags, GeneratePunctureProof(tag)
    PROVE  IInv'
<1> DEFINE new == [line |-> line, proof |-> ProofOf(state, tag)]
<1>1. /\ proofs' = proofs \cup {new}
      /\ UNCHANGED <<state, full_chain, saved, sealed, line>>
  BY DEF GeneratePunctureProof
<1>2. state \in Fields /\ line \in 0..MaxLines /\ state.version \in Nat
  BY DEF IInv, WellKept, Fields
<1>3. /\ new.line = line
      /\ new.proof.tag = tag
      /\ new.proof.version = state.version
      /\ new.proof.punctured <=> tag \in state.punctured_tags
  BY DEF ProofOf, IsPunctured
<1>4. new.proof \in PunctureProof
  <2>1. state.hw_secret_key # None =>
            [key |-> state.hw_secret_key, over |-> ProofPayload(tag, state.version)] \in Signature
    BY <1>2 DEF Fields, Signature, Payload, ProofPayload
  <2>2. ProofOf(state, tag).hw_signature \in Signature \cup {None}
    BY <2>1 DEF ProofOf
  <2>3. QED BY <1>2, <2>2 DEF ProofOf, PunctureProof, IsPunctured
<1> HIDE DEF new
<1>5. ProofsFollow'
  <2>1. new.line \in 0..line
    BY <1>2, <1>3, BoundsAssumption
  <2>2. QED BY <1>1, <1>2, <1>3, <1>4, <2>1 DEF IInv, ProofsFollow
<1>6. VersionsOrdered'
  <2> SUFFICES ASSUME NEW p \in proofs', NEW r \in proofs',
                      p.line = r.line, p.proof.tag = r.proof.tag,
                      p.proof.version <= r.proof.version, p.proof.punctured
               PROVE  r.proof.punctured
    BY DEF VersionsOrdered
  <2>1. CASE p \in proofs /\ r \in proofs
    BY <2>1 DEF IInv, VersionsOrdered
  <2>2. CASE r = new /\ p \in proofs
    BY <1>3, <2>2 DEF IInv, ProofsFollow
  <2>3. CASE p = new /\ r \in proofs
    <3>1. /\ r.line = line
          /\ r.proof.version \in Nat
          /\ r.proof.version <= state.version
          /\ r.proof.version = state.version =>
               (r.proof.punctured <=> r.proof.tag \in state.punctured_tags)
      BY <1>3, <2>3 DEF IInv, ProofsFollow, PunctureProof
    <3>2. r.proof.version = state.version
      BY <1>2, <1>3, <2>3, <3>1
    <3>3. QED BY <1>3, <2>3, <3>1, <3>2
  <2>4. CASE p = new /\ r = new
    BY <2>4
  <2>5. QED BY <1>1, <2>1, <2>2, <2>3, <2>4
<1>7. QED BY <1>1, <1>5, <1>6 DEF IInv

-----------------------------------------------------------------------------
(* What keeps the invariant of the saved copy, for steps on the copy alone.*)
LEMMA CopyStep ==
    ASSUME IInv, ~full_chain,
           NEW clean \in BOOLEAN, WellKept(saved', clean, line + 1),
           clean => saved'.version <= Cardinality(saved'.punctured_tags) + line,
           sealed' = [sealed EXCEPT !.saved = clean],
           UNCHANGED <<state, full_chain, line, proofs>>
    PROVE  IInv'
<1>1. sealed' \in [now : BOOLEAN, saved : BOOLEAN] /\ sealed'.now = sealed.now /\ sealed'.saved = clean
  BY DEF IInv
<1>2. ProofsFollow' /\ VersionsOrdered'
  BY DEF IInv, ProofsFollow, VersionsOrdered
<1>3. WellKept(state, sealed.now, line)'
  BY <1>1 DEF IInv
<1>4. WellKept(saved, sealed.saved, line + 1)' <=> WellKept(saved', sealed'.saved, line' + 1)
  OBVIOUS
<1>5. WellKept(saved, sealed.saved, line + 1)'
  BY <1>1, <1>4
<1>6. QED BY <1>1, <1>2, <1>3, <1>5 DEF IInv

(* More slack is never less.                                               *)
LEMMA Slackened ==
    ASSUME NEW s, NEW clean \in BOOLEAN, NEW slack \in Nat, WellKept(s, clean, slack)
    PROVE  WellKept(s, clean, slack + 1)
<1>1. s.version \in Nat /\ s.punctured_tags \in SUBSET Tags
  BY DEF WellKept, Fields
<1>2. s.version <= Cardinality(s.punctured_tags) + (slack + 1)
  BY <1>1, Counts DEF WellKept
<1>3. QED BY <1>2 DEF WellKept

LEMMA SaveStep == ASSUME IInv, Save PROVE IInv'
<1>1. /\ saved' = state /\ ~full_chain
      /\ sealed' = [sealed EXCEPT !.saved = sealed.now]
      /\ UNCHANGED <<state, full_chain, line, proofs>>
  BY DEF Save
<1>2. WellKept(state, sealed.now, line) /\ sealed.now \in BOOLEAN /\ line \in Nat
  BY DEF IInv
<1>3. WellKept(state, sealed.now, line + 1)
  BY <1>2, Slackened
<1>4. state.version <= Cardinality(state.punctured_tags) + line
  BY <1>2 DEF WellKept
<1>5. QED BY <1>1, <1>2, <1>3, <1>4, CopyStep

(* Each kind of damage leaves a copy whose payload is not the signed one.  *)
LEMMA Damaged ==
    ASSUME NEW s, NEW slack \in Nat, WellKept(s, TRUE, slack), NEW d \in DamagedCopies(s)
    PROVE  WellKept(d, FALSE, slack + 1)
<1>1. /\ s \in Fields /\ s.punctured_tags \in SUBSET Tags /\ s.version \in Nat
      /\ s.hw_pubkey \in Keys
      /\ s.hw_secret_key \in {None, s.hw_pubkey}
      /\ s.version <= Cardinality(s.punctured_tags) + slack
      /\ Verify(s)
  BY DEF WellKept, Fields
<1>2. /\ s.hw_signature = [key |-> s.hw_pubkey, over |-> ComputePayload(s)]
      /\ s.hw_signature \in Signature
      /\ s.hw_signature # None
  <2>1. [key |-> s.hw_pubkey, over |-> ComputePayload(s)] \in Signature
    BY <1>1 DEF Signature, Payload, ComputePayload
  <2>2. QED BY <1>1, <2>1, NoneAssumption DEF Verify, Signature, Payload
<1>3. s.hw_signature.over.tags = s.punctured_tags /\ s.hw_signature.over.version = s.version
  BY <1>2 DEF ComputePayload
<1>4. CASE \E tag \in Tags \ s.punctured_tags :
               d = [s EXCEPT !.punctured_tags = s.punctured_tags \cup {tag}]
  <2>1. PICK tag \in Tags \ s.punctured_tags :
            d = [s EXCEPT !.punctured_tags = s.punctured_tags \cup {tag}]
    BY <1>4
  <2>2. /\ d \in Fields
        /\ d.punctured_tags = s.punctured_tags \cup {tag}
        /\ d.version = s.version
        /\ d.hw_signature = s.hw_signature
        /\ d.hw_secret_key \in {None, d.hw_pubkey}
    BY <1>1, <2>1 DEF Fields
  <2>3. ~Verify(d)
    <3>1. [key |-> d.hw_pubkey, over |-> ComputePayload(d)].over.tags = d.punctured_tags
      BY DEF ComputePayload
    <3>2. d.hw_signature.over.tags # d.punctured_tags
      BY <1>3, <2>1, <2>2
    <3>3. QED BY <3>1, <3>2 DEF Verify
  <2>4. d.version <= Cardinality(d.punctured_tags) + (slack + 1)
    BY <1>1, <2>2, Counts
  <2>5. d.hw_signature.over.version <= d.version
    BY <1>1, <1>3, <2>2
  <2>6. QED BY <2>2, <2>3, <2>4, <2>5 DEF WellKept
<1>5. CASE d = [s EXCEPT !.version = s.version + 1]
  <2>1. /\ d \in Fields
        /\ d.punctured_tags = s.punctured_tags
        /\ d.version = s.version + 1
        /\ d.hw_signature = s.hw_signature
        /\ d.hw_secret_key \in {None, d.hw_pubkey}
    BY <1>1, <1>5 DEF Fields
  <2>2. ~Verify(d)
    <3>1. [key |-> d.hw_pubkey, over |-> ComputePayload(d)].over.version = d.version
      BY DEF ComputePayload
    <3>2. d.hw_signature.over.version # d.version
      BY <1>1, <1>3, <2>1
    <3>3. QED BY <3>1, <3>2 DEF Verify
  <2>3. d.version <= Cardinality(d.punctured_tags) + (slack + 1)
    BY <1>1, <2>1, Counts
  <2>4. d.hw_signature.over.version <= d.version
    BY <1>1, <1>3, <2>1
  <2>5. QED BY <2>1, <2>2, <2>3, <2>4 DEF WellKept
<1>6. CASE d = [s EXCEPT !.hw_signature = None]
  <2>1. /\ d \in Fields
        /\ d.punctured_tags = s.punctured_tags
        /\ d.version = s.version
        /\ d.hw_signature = None
        /\ d.hw_pubkey = s.hw_pubkey
        /\ d.hw_secret_key \in {None, d.hw_pubkey}
    BY <1>1, <1>6 DEF Fields
  <2>2. ComputePayload(d) = ComputePayload(s)
    BY <2>1 DEF ComputePayload
  <2>3. ~Verify(d)
    BY <1>2, <2>1, <2>2 DEF Verify
  <2>4. d.version <= Cardinality(d.punctured_tags) + (slack + 1)
    BY <1>1, <2>1, Counts
  <2>5. QED BY <2>1, <2>3, <2>4 DEF WellKept
<1>7. QED BY <1>4, <1>5, <1>6 DEF DamagedCopies

LEMMA DamageSavedStep == ASSUME IInv, DamageSaved PROVE IInv'
<1>1. /\ saved # None /\ sealed.saved = TRUE
      /\ saved' \in DamagedCopies(saved)
      /\ sealed' = [sealed EXCEPT !.saved = FALSE]
      /\ UNCHANGED <<state, full_chain, line, proofs>>
  BY DEF DamageSaved, IInv
<1>2. /\ line \in Nat /\ ~full_chain
      /\ WellKept(saved, TRUE, line)
  BY <1>1 DEF IInv, WellKept
<1>3. WellKept(saved', FALSE, line + 1)
  BY <1>1, <1>2, Damaged
<1>4. QED BY <1>1, <1>2, <1>3, CopyStep

(* Without its secret a copy verifies as before.                           *)
LEMMA ForgetSecretStep == ASSUME IInv, ForgetSecret PROVE IInv'
<1>1. /\ saved # None
      /\ saved' = [saved EXCEPT !.hw_secret_key = None]
      /\ UNCHANGED <<state, full_chain, sealed, line, proofs>>
  BY DEF ForgetSecret
<1>2. /\ ~full_chain
      /\ WellKept(saved, sealed.saved, line + 1)
      /\ sealed.saved \in BOOLEAN
      /\ sealed.saved => saved.version <= Cardinality(saved.punctured_tags) + line
      /\ saved \in Fields
  BY <1>1 DEF IInv, WellKept
<1>3. /\ saved' \in Fields
      /\ saved'.punctured_tags = saved.punctured_tags
      /\ saved'.version = saved.version
      /\ saved'.hw_signature = saved.hw_signature
      /\ saved'.hw_pubkey = saved.hw_pubkey
      /\ saved'.hw_secret_key = None
  BY <1>1, <1>2 DEF Fields
<1>4. Verify(saved') <=> Verify(saved)
  BY <1>3 DEF Verify, ComputePayload
<1>5. WellKept(saved', sealed.saved, line + 1)
  BY <1>2, <1>3, <1>4 DEF WellKept
<1>6. sealed' = [sealed EXCEPT !.saved = sealed.saved]
  BY <1>1 DEF IInv
<1>7. QED BY <1>1, <1>2, <1>3, <1>5, <1>6, CopyStep

(* A restore starts a line that has no proofs yet.                         *)
LEMMA RestoreStep == ASSUME IInv, Restore PROVE IInv'
<1>1. /\ saved # None /\ line < MaxLines
      /\ state' = saved
      /\ sealed' = [sealed EXCEPT !.now = sealed.saved]
      /\ line' = line + 1
      /\ UNCHANGED <<full_chain, saved, proofs>>
  BY DEF Restore
<1>2. /\ ~full_chain
      /\ line \in Nat /\ line' \in 0..MaxLines /\ line + 1 \in Nat
      /\ WellKept(saved, sealed.saved, line + 1)
      /\ sealed.saved \in BOOLEAN
      /\ sealed.saved => saved.version <= Cardinality(saved.punctured_tags) + line
  BY <1>1, BoundsAssumption DEF IInv
<1>3. sealed' \in [now : BOOLEAN, saved : BOOLEAN] /\ sealed'.now = sealed.saved /\ sealed'.saved = sealed.saved
  BY <1>1 DEF IInv
<1>4. WellKept(state, sealed.now, line)'
  <2>1. WellKept(state, sealed.now, line)' <=> WellKept(state', sealed'.now, line')
    OBVIOUS
  <2>2. QED BY <1>1, <1>2, <1>3, <2>1
<1>5. /\ WellKept(saved, sealed.saved, line + 1)'
      /\ sealed'.saved => saved'.version <= Cardinality(saved'.punctured_tags) + line'
  <2>1. WellKept(saved, sealed.saved, line + 1)' <=> WellKept(saved', sealed'.saved, line' + 1)
    OBVIOUS
  <2>2. WellKept(saved, sealed.saved, (line + 1) + 1)
    BY <1>2, Slackened
  <2>3. saved.version \in Nat /\ Cardinality(saved.punctured_tags) \in Nat
    BY <1>2, Counts DEF WellKept, Fields
  <2>4. QED BY <1>1, <1>2, <1>3, <2>1, <2>2, <2>3
<1>6. \A p \in proofs : p.line \in 0..line' /\ p.line # line' /\ p.proof \in PunctureProof
  BY <1>1, <1>2 DEF IInv, ProofsFollow
<1>7. ProofsFollow'
  BY <1>1, <1>6 DEF ProofsFollow
<1>8. VersionsOrdered'
  BY <1>1 DEF IInv, VersionsOrdered
<1>9. QED BY <1>1, <1>2, <1>3, <1>4, <1>5, <1>7, <1>8 DEF IInv

LEMMA Step == IInv /\ [Next]_vars => IInv'
<1> SUFFICES ASSUME IInv, [Next]_vars PROVE IInv'
  OBVIOUS
<1>1. ASSUME NEW tag \in Tags, Puncture(tag) PROVE IInv'
  BY <1>1, PunctureStep
<1>2. ASSUME NEW tag \in Tags, GeneratePunctureProof(tag) PROVE IInv'
  BY <1>2, GeneratePunctureProofStep
<1>3. ASSUME NEW tag \in Tags, NEW key \in Keys, PunctureWithKeypair(tag, key) PROVE IInv'
  BY <1>3, PunctureWithKeypairStep
<1>4. CASE Save
  BY <1>4, SaveStep
<1>5. CASE DamageSaved
  BY <1>5, DamageSavedStep
<1>6. CASE ForgetSecret
  BY <1>6, ForgetSecretStep
<1>7. CASE Restore
  BY <1>7, RestoreStep
<1>8. CASE UNCHANGED vars
  BY <1>8 DEF vars, IInv, ProofsFollow, VersionsOrdered
<1>9. QED BY <1>1, <1>2, <1>3, <1>4, <1>5, <1>6, <1>7, <1>8 DEF Next

LEMMA Always == Spec => []IInv
<1>1. Init => IInv
  BY Initially
<1>2. IInv /\ [Next]_vars => IInv'
  BY Step
<1>3. QED BY <1>1, <1>2, PTL DEF Spec

-----------------------------------------------------------------------------
(* A version within its slack is within the bound of the type.             *)
LEMMA WellKeptIsTyped ==
    ASSUME NEW s, NEW clean, NEW slack \in Nat, slack <= MaxLines + 1, WellKept(s, clean, slack)
    PROVE  s \in HardwarePunctureState
<1>1. s \in Fields /\ s.version \in Nat /\ s.punctured_tags \in SUBSET Tags
  BY DEF WellKept, Fields
<1>2. s.version <= Cardinality(s.punctured_tags) + slack
  BY DEF WellKept
<1>3. s.version \in 0..(Cardinality(Tags) + MaxLines + 1)
  BY <1>1, <1>2, Counts, BoundsAssumption
<1>4. QED BY <1>1, <1>3 DEF Fields, HardwarePunctureState

(* The fields have their types; a version counts the tags and what damage  *)
(* and restores have added to it.                                          *)
THEOREM TypeCorrect == Spec => []TypeOK
<1>1. ASSUME IInv PROVE TypeOK
  <2>1. line \in Nat /\ line <= MaxLines /\ MaxLines \in Nat
    BY <1>1, BoundsAssumption DEF IInv
  <2>2. state \in HardwarePunctureState
    BY <1>1, <2>1, WellKeptIsTyped DEF IInv
  <2>3. saved \in HardwarePunctureState \cup {None}
    <3>1. CASE saved = None
      BY <3>1
    <3>2. CASE saved # None
      <4>1. WellKept(saved, sealed.saved, line + 1) /\ line + 1 \in Nat /\ line + 1 <= MaxLines + 1
        BY <1>1, <2>1, <3>2 DEF IInv
      <4>2. saved \in HardwarePunctureState
        BY <4>1, WellKeptIsTyped
      <4>3. QED BY <4>2
    <3>3. QED BY <3>1, <3>2
  <2>4. \A p \in proofs : p.line \in 0..MaxLines /\ p.proof \in PunctureProof
    BY <1>1, <2>1 DEF IInv, ProofsFollow
  <2>5. QED BY <1>1, <2>2, <2>3, <2>4 DEF IInv, TypeOK
<1>2. IInv => TypeOK
  BY <1>1
<1>3. QED BY <1>2, Always, PTL

(* A state or a copy verifies exactly when its own key signed last and     *)
(* nothing has touched it since, and one inside a full-chain wrapper does  *)
(* so always.                                                              *)
THEOREM SealedVerifies == Spec => []VerifiesIffSealed
<1>1. IInv => VerifiesIffSealed
  BY DEF IInv, WellKept, VerifiesIffSealed, IsSecure
<1>2. QED BY <1>1, Always, PTL

(* Of two proofs of a tag from one line of versions, the later never takes *)
(* back a puncture.                                                        *)
THEOREM ProofsAgreement == Spec => []ProofsAgree
<1>1. IInv => ProofsAgree
  BY DEF IInv, VersionsOrdered, ProofsAgree
<1>2. QED BY <1>1, Always, PTL

=============================================================================
