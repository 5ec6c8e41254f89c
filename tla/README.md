# TLA+ models and proofs of PABS-CRF

PABS-CRF is a Rust library for lattice-based attribute signatures. A user whose
attributes satisfy a policy signs a message under a time tag; a reverse
firewall adds a mask of its own to every signature; keys can be punctured so
that they no longer sign under chosen tags. This directory holds TLA+ modules of
the library's control, the TLC configurations that check them on small
instances, and theorems that TLAPS proves for all instances.

Source positions below are relative to `src/src/`.

## 1. Inventory of the system

| component | state | operations | where |
|---|---|---|---|
| puncture tree | sparse binary tree of marked nodes, set of leaves, counter | `new`, `puncture`, `is_punctured`, `get_punctured_tags`, `get_puncture_proof`, `verify_puncture_proof`, `zeroize` | `puncture_tree.rs` |
| signing key, structured | attributes, preimages, one puncture tree, a counter beside it | `keygen_structured`, `puncture`, `is_punctured` | `keygen.rs` |
| signing key, legacy map | the serialized structured key, and a second copy of tree and counter | export, import, `puncture`, `puncture_multiple`, local check | `compat.rs`, `puncture.rs`, `verify.rs` |
| policy language | parsed tree and its text | `parse`, `validate`, `satisfies`, `to_lsss` | `policy.rs` |
| linear secret sharing | matrix and row labels | `build_msp`, `solve_linear_system`, `get_reconstruction_constants`, `share`, `reconstruct` | `lsss.rs` |
| policy caches | three process-wide bounded caches, each behind a mutex | three cached lookups that call each other, clear, statistics | `lsss.rs` |
| NTT caches | two more caches of the same structure | plan and matrix lookups, clear, statistics | `mlwe.rs` |
| polynomial arithmetic | none | products by transform (`ntt_forward`, pointwise, `ntt_inverse`) and term by term, matrix and vector products | `mlwe.rs`, `algebra/mod.rs` |
| core signer | the attempt of a call | `core_sign`, `sign_internal` (rejection loop), `combine_policy_witness`, `derive_challenge` | `pabs/mod.rs`, `mlwe.rs` |
| reverse firewall | a precommitment (mask, delta) per attempt | `precommit`, `finalize_precommitted`, `transform_with_mask`, `validate_metadata` | `firewall/mod.rs` |
| verifier | none | `verify_signature_struct`, `verify_compact_signature`, `batch_verify` | `verify.rs` |
| compact form | none | `compress`, `decompress`, blob layout, bit packing, sparse encodings | `serialization/mod.rs`, `compression.rs` |
| hardware root | signed, versioned copy of the punctured tags, which serializes | `puncture`, `puncture_with_keypair`, proofs, verification, full-chain wrapper | `hardware_root.rs` |
| trapdoor | the pair of a public matrix and its trapdoor | generation, gadget decomposition, preimage, `verify_witness_relation` | `trapdoor.rs`, `trapdoor/strict.rs` |
| samplers, setup, parameter sets, hashing, utilities | none that changes | pure functions, sampling | the other files |

How they interact. `sign_structured` asks the key's puncture tree whether the
tag may be used, then loops: the firewall precommits to a mask and hands
`delta = A r` to the core signer, the core signer derives the policy's target
and constants through the policy caches, runs its rejection loop and returns a
signature whose challenge covers delta, and the firewall adds the mask and tags
the result. The verifier recomputes target and challenge through the same
caches. A key and a signature each exist in two forms, a structured one and a
legacy map or a compact blob, and a caller may go back and forth between them.
The products of the signer and the verifier run over the NTT caches. Key
generation asks the trapdoor for the preimages that a key is made of. The
hardware root keeps tags of its own and is called by nobody but its user.

What is hard here. There are no messages and nothing is written to disk, but
blobs and serialized states leave the process and come back, damaged or out of
date. Otherwise what can go wrong lies in *copies of one fact* (the puncture state is held three times in a legacy
map, the counter beside each tree), in *interleavings on the caches* (a lookup
drops its lock before it computes and inserts; statistics hold three locks at a
time), in *conversions* (integers, residues, centred residues, packed offsets,
high parts, digits with a sign, images under the transform, words cut to
thirty-two bits: two sides must agree on each), in *texts* (a policy is read by
three readers: the user's parser, the matrix builder and `is_satisfied`), in
*retries* (firewall attempts around core attempts, each with randomness that must
not be mixed), and in the *elimination* that turns a policy into constants.

What makes each component correct:

* puncture tree: it is a set of tags; marks mirror it; witnesses are sound and
  stay valid.
* keys: a revoked tag is revoked in every form the key takes afterwards; batches
  are all or nothing; the copies of the counter agree.
* caches: callers cannot tell them from the direct computation, but for calls whose
  attributes make one text; they keep their form under every interleaving; nobody
  waits for ever.
* policy language and secret sharing: every reader of a policy reads the same
  tree; constants exist for exactly the satisfying attribute sets, and rebuild the
  secret.
* products: the exact ones, by either way and whatever the caches hold.
* compact form: what arrives is what was sent or is refused, and no bytes are
  read that would not be written.
* trapdoor: digits make up the coefficient they were taken from; a preimage is
  refused only for a cause.
* hardware root: a state verifies exactly when its own key signed last; the proofs
  it issues do not contradict each other.
* signing: what is issued is accepted in either form, what is accepted was
  signed, and changed fields are noticed; the firewall always has room.

## 2. Modules

| module | models | state and actions |
|---|---|---|
| `PunctureSet` | the promise of a puncture tree | a set; `Add`, `Erase` |
| `PunctureTree` | `puncture_tree.rs` | `nodes`, `punctured_leaves`, `puncture_count`, `max_depth` are the struct's fields, `issued` remembers the witnesses handed out; `Puncture`, `PunctureRefused`, `GetPunctureProof`, `Zeroize` |
| `LegacyKey` | a key between its forms | `key` is the structured key, `maps` the legacy maps callers hold; `Puncture`, `SignStructured`, `TryKeygen`, `Export`, `Import`, `LegacyPuncture`, `LegacySign`; `batch` is a `puncture_multiple` under way, a step per tag: `BeginBatch`, `PunctureNext`, `FailBatch`, `FinishBatch`. `key_history`, `map_history` and `signed` are history variables: what was revoked where, and what signed when |
| `BoundedCache` | `BoundedCache` of `lsss.rs` (the one in `mlwe.rs` is the same code) | operators on a record of the struct's fields |
| `PolicyCaches` | the three caches and their callers | `caches`, `holder` (who holds each mutex), and per thread its position `pc`, its `call` and what it `got`; one action per critical section: `Lookup`, `Store`, `Refuse`, `Clear`, `ReadStats`, `Unlock` |
| `PolicyText` | `policy.rs` and the matrix builder's own parser | operators on texts (sequences of tokens, and of letters for the builder) and trees: `Parse`, `Canonical`, `PolicyRepr`, `Satisfies`, `FindTopLevel`, `ReadByBuilder` |
| `Reconstruction` | elimination, constants, shares | the rows held, the augmented system, the loop's column, the pivots, the constants; `Begin`, `Eliminate`, `SkipColumn`, `Return`; operators `Share`, `Reconstruct`. `MachineSpec` is for any rows |
| `SharingMatrix` | from a tree of gates to a matrix (`build_msp`), and the machine of `Reconstruction` on the rows a caller holds | `access` is the tree, `held` the attributes; `Build`, `Select`, and the machine's steps; `BuildMsp` is a recursive function on trees. `MatrixSpec` is for any set of trees |
| `Lsss` | from a text to a tree, and `SharingMatrix` on it | the text and the policy parsed from it; `ParseText`, and the steps of `SharingMatrix` |
| `Ntt` | products in `Z_q[X]/(X^n + 1)` | operators: plans, transforms, pointwise and schoolbook products, with Rust's signs and 32-bit cut |
| `NttCaches` | the matrix and vector products over the two caches | `plans`, `images` are the caches, per thread `pc`, `call`, `plan`, `result`; `Begin`, `Compute`, `GetPlan`, `PutPlan`, `GetImage`, `PutImage`, `Clear`, `ReadStats` |
| `Trapdoor` | trapdoor generation and preimages | `matrix` and `trapdoor` are the pair a caller holds, `val` and `e2` the digit loop; `Generate`, `HoldOther`, `Sample`, `TakeDigit`, `Return` |
| `Wire` | compression, bit packing, blob layout, and the way of a blob | `sent`, `raw`, `read`, `received`; `Send`, `Damage`, `Receive`, `Open` |
| `HardwareRoot` | `hardware_root.rs` | `state` and `saved` are the state in use and a serialized copy; `Puncture`, `PunctureWithKeypair`, `GeneratePunctureProof`, `Save`, `DamageSaved`, `ForgetSecret`, `Restore`. `sealed`, `line` and `proofs` are history: untouched since signed, how many restores, the proofs issued |
| `Rounding` | reduction, centring, high parts, hints | operators on one coefficient |
| `Signing` | core signer, firewall, compact form, verifier | `phase` is the position in `sign_structured`; `Start`, `Precommit`, `CoreRefuse`, `CoreTry`, `Finalize`, `FinalizeByHand`, `Damage`, `Verify` |

`MC*` modules and `*.cfg` files instantiate these for TLC, `*Proofs` modules hold
the theorems. `PolicyCaches` and `NttCaches` are built on `BoundedCache`, `NttCaches`
also on `Ntt`, `SharingMatrix` on `Reconstruction`, `Lsss` on `PolicyText` and
`SharingMatrix`, `Signing` on `Rounding`; `Trapdoor` and `Reconstruction` share the
constant of `Modulus`, and `ModularSums` holds the theory of sums and residues that
their proofs use; `PunctureTree` refines `PunctureSet`. `SharingMatrix` refines
`Reconstruction`, which is proved (`MatrixImplementsMachine`). `Lsss` takes the steps of
`SharingMatrix` by its definitions: `ParseText` is `Build`, given the tree that the
builder's parser makes, which TLC shows to be one of `Trees`; the other
steps are those of `SharingMatrix` themselves, with text and policy beside them. What
is proved of `MatrixSpec` and of `MachineSpec` therefore holds in `Lsss`, for `Trees` the
trees of gates of any size and `Height` their depth. Definitions commented *Variant* are ways the
code could plausibly be wrong; nothing uses them, they serve to confirm that a
property notices the difference.

Abstractions worth knowing:

* A vector of polynomials is one integer modulo `Q` in `Signing` and the matrix
  is one integer `A`; a challenge is plus or minus one. Coefficients of the
  library's products add up over many terms, but bounds, masks, centring,
  packing and rounding act on each coefficient alone.
* A hash is a record of what it is computed from, so equal hashes mean equal
  inputs. `policy_digest` is the exception: it is a constant of the model, with
  the assumption that policies of one digest have one canonical text.
* The limit of eighty non-zero hints, the parameter-set name and the optional
  fields that only travel along are left out of `Signing`; the structured signer
  has a zero error vector and makes no non-zero hint.
* A policy text is a sequence of tokens. The checks of the user's parser that look
  at letters (a word that ends or starts like an operator) are told by constants
  what they see. The matrix builder works on the letters themselves, of one or two
  bytes (`Letters`, `Wide`): it counts the letters before an operator and slices at so
  many bytes, so what it makes of a text with a wide letter in front of an operator
  is another tree or a panic. A row for a text that is no word has the attribute
  `NoName`.
* The keys of `PolicyCaches` are joined texts as in the code: sequences of tokens,
  where a token is a separator or a piece of text without one, and an attribute may
  have separators in it. `Keys` tabulates them. `BarsAssumption` says that equal keys
  have equal parts: the bars delimit a key even when attributes have bars in them,
  since the canonical text of a parsed policy, the numbers and the hexadecimal user
  have none and one part only holds attributes. Within that part nothing is assumed,
  and lists of attributes may coincide. The policies of `Unbuildable` have no matrix
  (`NOT` in a name, `lsss.rs:465`, or a panic of the builder).
* In `LegacyKey` a call is one step but for `puncture_multiple`, whose loop may end at
  any tag. It borrows the caller's map, so others may read that map while the batch
  runs and cannot replace it.
* `Wire` has bytes of two bits, so that lengths wrap early, and one byte for each
  fixed-width header field. zstd is external: it gives back what was compressed.
* `Trapdoor` has ring degree one: each coefficient is decomposed by itself, and
  `Ntt` is about products. What the Gaussian sampler may draw is a constant.
* In `HardwareRoot` a key stands for its pair, and a signature is the key with the
  payload it was made over. `hw_type` and `timestamp` are signed and read nowhere.
* Puncture trees inside `LegacyKey` are sets of tags with a counter, which is
  what `PunctureTree` is shown to be.

## 3. Runs

| run | checks | bounds and why they are enough |
|---|---|---|
| `puncture_tree` | `TypeOK`, `CountIsExact`, `NodesMirrorLeaves`, `WitnessSound`, `WitnessComplete`, refinement `ImplementsSet` | eight tags give three levels between leaf and root, with siblings at each; two tags are beyond the capacity; offered witnesses are all prefixes of paths, single nodes, and walks to a sibling |
| `legacy_key` | `TypeOK`, `ForwardSecure`, `LocalCheckExact`, `BatchIsAtomic` | two tags and one out of range; two maps, so that a punctured copy lives beside its original; batches with a repetition and with a bad tag in the middle, interleaved with every other call |
| `legacy_key_doc` | `LegacyForwardSecure`, expected to be violated | as above |
| `policy_caches` | `TypeOK`, `CachesWellFormed`, `AnswersAreDirect`, `StatsAreOneMoment`, `InsertedIsKept`, `EveryCallReturns`, deadlock | two threads (locks and races are pairwise), caches of one entry (every other insertion evicts), calls that differ in one part of a key, two lists of attributes that make one text, an attribute with a bar, a policy without a matrix; `MaxCalls` bounds the calls |
| `lsss` | `TypeOK`, `SolutionsKept`, `ReducedBehind`, `ReadBack`, `GrantedOnlyIfSatisfied`, `InconsistentOnlyIfUnsatisfied`, `LeadingPivotsReconstruct`, `OrderedSharesRebuild` | every gate tree of up to three leaves with repeated attributes and every tree of four leaves in order, each written with all parentheses and with few; every text of up to five tokens, most of them refused; names that look like operators, names with a two-byte letter at the front, at the end or twice, before and after an operator, and nesting at its limit of two; every attribute set, modulo five; `Trees` are those the builder makes of these texts and others like them; a norm bound of one, small enough to refuse; shares of every residue in every column |
| `lsss_doc` | `SatisfyingReconstruct`, expected to be violated | as above |
| `policy_text_doc` | `IsSatisfiedAsDocumented`, expected to be violated | as `lsss` |
| `signing` | `TypeOK`, `FirewallNeverRefuses`, `IssuedIsAccepted`, `AcceptedAsSigned`, `DamageIsRejected`, `FormsAgree` | modulus 17 with a window of six, so that nonces, masks, rejections and both ends of the packing range occur; two users, an AND and an OR, a second spelling of the AND; one damaged field, with every value of it another signature could have |
| `ntt_caches` | `CachesExact`, `ProductsExact`, deadlock | two threads, caches of one entry, three calls; modulus 17, whose rings of degree two and four lie on both sides of a threshold of four; monomials against a dense polynomial reach every term of a product, and two matrices of different shape share their coefficients; words of eight bits, which cut some naive products and not others, so that `ProductsExact` is about both |
| `trapdoor` | `TypeOK`, `DigitsRecompose`, `RefusedForCause`, deadlock | modulus 17 in two places of base three (both ends of the centred range need every digit), every residue as a target in both rows, noise of both signs, a target with a row too many, a matrix with a column too many, and the trapdoor of another setup |
| `wire` | `ArrivesOrRefused`, `ReadIsCanonical` | coefficients of three, four and five bits over bytes of two, the extreme ones at every place; every combination of optional and sparse fields; two fields too long for their length; one byte changed or lost, a cut anywhere, or the blob twice |
| `hardware_root` | `TypeOK`, `VerifiesIffSealed`, `ProofsAgree`, deadlock | two tags (one in the state, one to come), the own and a foreign key, one restore, which puts two lines of versions side by side, and the two proofs that are compared; tags and keys are symmetric |

`MaxTries`, `MaxAttempts`, `MaxCalls`, `MaxDamages`, `MaxLines` and `MaxProofs` bound what
is unbounded or large in the code (5000 core attempts, 128 firewall attempts, any
number of calls, damages, restores and proofs). The loops carry no state from one
attempt to the next but the counter, so two attempts show all of them. Deadlock
is checked in all passing runs except `lsss`, where a solved system is the end, and
`wire`, where a signature received is. `Done` of `PolicyCaches` and of `NttCaches`
stutters when all calls are spent. `MCNttCaches` also assumes, for TLC to evaluate,
that the roots the code writes out for degree 256 are roots (`RootsOf256`).

What the three runs with expected violations show:

* `legacy_key_doc`: `puncture` (`puncture.rs:46`) rewrites `puncture_tree` and
  `puncture_count`; `sign` reads `sk_struct` (`compat.rs:91`). A legacy map that was
  punctured still signs under the tag, against `keygen.rs:55` ("preventing future
  signing under it"). `ForwardSecure` holds: what the structured key revoked
  before it was exported stays revoked.
* `lsss_doc`: `solve_linear_system` writes the value of equation `i` to `omega[i]`
  (`lsss.rs:797`), which is the variable of that equation only when the pivots are
  the first columns. With a redundant row, as in `(A OR B) AND C` with all three
  attributes, constants are missing or do not rebuild, against `lsss.rs:15`.
  `LeadingPivotsReconstruct` shows that nothing else stands in the way, and
  `GrantedOnlyIfSatisfied` that constants are never given to attributes that do
  not satisfy the policy.

* `policy_text_doc`: `is_satisfied` (`lsss.rs:326`) parses the canonical text again and
  answers no when that fails. Sorting the parts can put a name that ends like an
  operator before one (`nurse OR doctor` becomes `doctor OR nurse`, which in
  capitals contains `OR OR`), a name in an inner group may not be ASCII, and the text may nest
  deeper than what was written, against `lsss.rs:322`. The property sets matrices aside
  that are themselves wrong: `build_msp` (`lsss.rs:656-701`) takes the number of
  characters before an operator for a number of bytes, so a name that is not ASCII in
  front of an operator moves the cut. `(A AND unité) OR B` gets the two rows
  `(A AND unité` and `B`, and a cut inside a character panics. `ReadBack` shows that this
  happens exactly when such a name precedes an operator, that the matrix is otherwise
  that of the policy, and that the parser reads the canonical text as the tree it
  came from or refuses it.

Observations that no document contradicts:

* Nothing in a signature pins `attributes_used` beyond the target it leads to, so
  attributes of weight zero may be added or left out. `DamageIsRejected` names this
  exception, and those of the fields that the compact form does not carry.
* `verify` (`verify.rs:116-144`) hands the attributes of an unchecked signature to the
  caches, and an attribute may contain the `\x1f` that joins them (`lsss.rs:125`): the
  lists `a`, `b\x1fc` and `a`, `b`, `c` share an entry, and who comes second gets the
  answer of who came first. `AnswersAreDirect` says that this is all that can happen:
  an answer is the direct one of *some* list that reads the same, and the call's own
  where no other list does, as for all names that `parse` accepts
  (`PlainNamesAreUnambiguous` in `MCPolicyCaches`). With the stronger "always the call's
  own" in its place, TLC finds the collision. Names of deserialized policies are not
  validated and may have a bar in them, which is outside `BarsAssumption`.
* `reconstruct` pairs constants ordered by row with shares in the order they are
  given: `OrderedSharesRebuild` holds for shares in the order of the matrix, the only
  order its callers, all of them tests, use. Permuted or missing shares are not
  modelled.
* Below degree 64 a product is made of integers and cut to thirty-two bits before
  it is reduced. `ProductsExact` says that a product is exact if and only if nothing
  was cut.
* A challenge that cannot be decoded panics (`compression.rs:164-177`) unless the
  response before it was already too short. A blob that reads as canonical may carry
  one; none that was sent and not damaged does.
* Responses in `Signing`, damaged ones included, lie within gamma1. `pack_z` does not
  check this, and what a larger value does to its neighbours is not modelled.
* A field too long for its sixteen-bit length serializes without error; the reader
  refuses it.
* The status in a puncture proof is not signed, and versions repeat after a
  restore. `ProofsAgree` therefore speaks of proofs from between the same two
  restores, and a puncture with a foreign key is a state that does not verify until
  its own key signs a new tag.

Fairness is assumed in `PolicyCaches` alone: weak fairness of every thread's
steps. A runnable thread is scheduled eventually, and `Step` of a thread that
waits for a mutex is not enabled. `std::sync::Mutex` promises no order among
those who wait; with the calls bounded by `MaxCalls` none is overtaken for ever, so
weak fairness suffices, and `EveryCallReturns` says nothing about an unbounded
stream of rivals. `FirewallNeverRefuses` and `CoreTry` say nothing of how *likely*
a nonce is accepted; termination of the rejection loop is its attempt limit.

## 4. Proofs

All theorems hold for every value of the constants that meets the named
assumptions. TLC evaluates each assumption on the instances. What they demand, and
why the code meets it:

* `PunctureTree`: `DepthAssumption` (at most 63), `ShiftAssumption` (powers of two
  double). `LegacyKey`, `BoundedCache`: capacities are positive.
* `PolicyCaches`, `HardwareRoot`, `LegacyKey`: calls, batches and bounds are of their
  types, `None` is no thread, call, map or key. `PolicyCaches` also: `BarsAssumption` (see
  section 2).
* `Rounding`: `RoundingAssumption` (an odd modulus), `HighPartsAssumption` (there are
  two high parts at least; 44 in every parameter set).
* `Signing`: `WindowAssumption` (what `validate_parameter_consistency` demands, and a
  packing that is wide enough), `PolicyAssumption` (a digest fixes the rows,
  constants and satisfying sets of its policy, since it is over the canonical text;
  whether attributes satisfy depends on the ones used), `KeyAssumption` (a combined
  witness is a preimage of the policy's target), `CoefficientAssumption`, `NoneAssumption`.
* `Trapdoor`: `ParametersAssumption`, `PlacesAssumption` (as many digits as the centred
  range needs, and one digit stays below gamma1: all parameter sets have base 256,
  at least four digits and a gamma1 of 2^19), `InputsAssumption` (vectors and
  matrices of whole numbers).
* `Reconstruction`: `FieldAssumption` (every residue but zero has an inverse: the
  modulus of every parameter set is the prime 8380417), `NormAssumption` (a constant
  of 1 is small enough: the bound is MAX_RECONSTRUCTION_COEFF_NORM).
* `SharingMatrix`: `TreesAssumption` (trees are finite: a gate has a greater height than
  its sides, which are trees, and is an AND or an OR, since `NOT` is refused).

Along which argument:

* **`PunctureTreeProofs`**: type, counter, marks, soundness and completeness of
  witnesses, and the refinement to `PunctureSet`, for every depth. `NodesMirrorLeaves`
  and `CountIsExact` are inductive together with the types once it is known that a
  path begins with the leaf and that marking a path touches nothing else; the
  invariant adds that issued witnesses are paths of punctured leaves.
* **`LegacyKeyProofs`**: `TypeOK`, `ForwardSecure`, `LocalCheckExact`, `BatchIsAtomic`. The
  invariant says that every copy of the tree (in the key, in a map's `sk_struct`, in
  a map's `puncture_tree`) holds exactly the history that belongs to it, and that
  every counter is its tree's; `ForwardSecure` and `LocalCheckExact` are consequences of
  this. For `BatchIsAtomic` it adds `BatchOnTrack`: the map a batch began with still lies
  where it was, all tags behind the loop were in range, and the tree it works on has
  these on top of the map's and no others. A batch that fails therefore had a tag out
  of range and leaves the map as it was, and one that ends had none.
* **`PolicyCachesProofs`**: an insertion keeps a cache well formed, keeps what it
  inserts and changes no value of another key, for every capacity; with that `TypeOK`,
  `CachesWellFormed`, `AnswersAreDirect`, `StatsAreOneMoment` and `InsertedIsKept`. The
  invariant says that every entry of every cache is, for each call that has its key,
  the direct answer of some list of attributes that reads like the call's, and that a
  thread between two critical sections carries answers of the same kind, so that it
  does not matter who stores or clears in between. Two calls of one key have the same
  policy, modulus, dimensions and user and lists that read alike (`KeysTell`, from
  `BarsAssumption`), so an entry may pass from one to the other (`SameKeySameValue`); the
  rows a nested call reads are those of its policy whichever list they came with, so
  what is computed from them is again an answer of such a list; statistics are of one
  moment because a part once read is guarded by the mutex the thread still holds.
* **`HardwareRootProofs`**: `TypeOK`, `VerifiesIffSealed`, `ProofsAgree`, for every finite
  set of tags, every set of keys and any number of restores and proofs. That a
  state stops to verify after an unsigned change is not inductive by itself: an
  old signature could fit the new tags and version. The invariant says that a
  signature is of no later version than its state, so a new tag is always past
  it; that a secret kept in a state is the one of its public key, so signing
  with it seals; and that no proof of the current line is ahead of the state,
  so a proof made now cannot contradict an earlier one. A version exceeds the
  number of tags by at most one for a damage and one for each restore, which is
  the bound in the type.
* **`SigningProofs`**, first the arithmetic of one coefficient: numbers that differ by
  a multiple of the modulus have one residue; a number within half the modulus
  survives reduction and centring; `CommitmentCancels`: the verifier's commitment is
  that of the signer's nonce; `NoErrorNoHint`. Of hints in general: a residue is its
  high part times the width of one and a low part of less than half of it, so an
  error smaller than that moves the high part by at most one, to the side the low
  part is on. Hence `HintRecovers`, and, where `decompose` has one high part more than
  `use_hint` counts, `HintMissesTheTop` (`mlwe.rs:418`): a hint there gives the wrong high
  part. The attribute signatures make no hint; the MLWE signature under them does.
* **`SigningProofs`**, then the specification: `TypeOK`, `FirewallNeverRefuses`,
  `IssuedIsAccepted`, `AcceptedAsSigned`, `DamageIsRejected` and `FormsAgree`. The invariant
  `IInv` adds to the types that a core signature is `CoreSignature(job, delta, y)` for
  some nonce `y` whose response left room for a mask, that a signature's tag carries
  the core signature's challenge whatever else was damaged, and that an undamaged
  signature is a finalization of the core signature. Room is needed because
  `FirewallNeverRefuses` is not inductive by itself: that the refusing branch cannot
  be taken follows from the bound the core used. Acceptance forces the tag's
  challenge to be the signature's and the challenge to be the hash of the message,
  digest, tag, user, target and correction the verifier sees, hence of those the
  signer saw. A damaged signature needs more than that: `OriginInvariance` keeps, as an
  invariant of its own, that it differs in the one damaged field from a signature
  that was finalized. Every field is then either under the tag or the challenge, or
  one of the exceptions `DamageIsRejected` names, and the packed form either gives a
  response back or has refused it.
* **`ModularSums`**: sums over finite sets (a term taken out, two sums exchanged,
  congruent terms), the residues they have, and what a sum with one term or none
  comes to.
* **`TrapdoorProofs`**: `TypeOK`, `DigitsRecompose` and `RefusedForCause`, for every
  dimension, base and modulus. The invariant says that matrix and drawn trapdoor
  are a pair, that the vectors of a running call have the shapes it checked, that
  at each place the digits so far and the rest of the coefficient still add up to
  the coefficient, with the rest in a range that shrinks by the base, and that an
  outcome is that of its call. The range makes the rest zero at the last place,
  where digits recompose. For the verdict, the product of the matrix with a
  preimage is split at its blocks: `A'R e2` cancels, `A' noise` is what was taken from
  the target, and the gadget times the digits is the rest of it. So the witness
  relation fails exactly when `A'` sees the difference between the trapdoor held and
  the drawn one; and as digits are within gamma1, only the upper block of a preimage
  can fail the norm.
* **`ReconstructionProofs`**, first the elimination: `TypeOK`, `SolutionsKept`,
  `ReducedBehind` and `OrderedSharesRebuild`, for every prime modulus and all rows. The invariant has four
  parts: the shapes; that the system has the solutions of the original one, over
  *all* whole numbers and not only the residues the property speaks of; the unit columns
  behind the loop; and that returned constants with leading pivots solve the original
  system. A swap permutes equations and `Cleared` makes each equation a combination of
  two, which is undone by another one because the pivot has an inverse, so solutions
  go both ways. Reading a reduced system off at leading pivots gives a solution,
  since the unit columns leave one term of each equation; that is `ConstantsRebuild`,
  and exchanging the sums over rows and columns turns it into `OrderedSharesRebuild`.
  `InconsistentIsUnsolvable`: an equation `0 = b` at the end means that no weights at
  all bring the rows held to (1, 0, ..., 0), so it is never a refusal of rows that
  would do.
* **`ReconstructionProofs`**, then the rows of trees: `GrantedOnlyIfSatisfied`,
  `InconsistentOnlyIfUnsatisfied` and `LeadingPivotsReconstruct`, for trees of any size,
  with any nesting and any repetition of attributes, over every prime field. What
  `build_msp` makes of a tree is first unfolded from its recursive definition
  (`BuilderUnfolds`). `TreeShares` then says, by induction on trees, that the rows built
  for a tree from a vector *share* that vector among those who satisfy the tree
  (`Sharing`), which has two halves. Complete: the rows of attributes that satisfy it
  can be weighed, by 0 and 1, to exactly the vector. Sound: whole-number weights
  under which every column added for the tree cancels modulo q weigh the rows to a
  multiple of the vector, and to none but zero unless the attributes of the rows
  that have a weight satisfy the tree, and then some of those rows, weighed by 0 and 1,
  already come to the vector. For an OR the two multiples add up; for an AND
  the new column, 1 on the left and -1 on the right, forces them to be the same. The
  second half is stronger than "unsatisfied rows do not span the secret", which is
  not inductive: the right side of an AND gets a vector that is not the secret's.
  At the root, the vector is (1) and all other columns cancel, so the rows held have a
  solution exactly when the attributes satisfy the tree (`SelectedSound`,
  `SelectedComplete`, through the selection by attributes). The invariant `Placed` says
  that from the selection on the rows of the machine are those of `access` that
  `held` selects; with `IInv`, solvable and "not inconsistent" are the same at the end,
  which gives two of the properties. For the third, leading pivots make the constants
  the only solution that is zero beyond them; rows they give a weight have, by the
  sound half, a solution of 0 and 1, which is zero there too. So the constants are
  0 or 1, and neither the sum of the first column nor the norm bound refuses them.

Facts about all finite sets, all lengths or all trees (a sum is a whole number, two sums
exchange, rows share) are proved by taking a smallest counterexample in a
well-founded order on sets of naturals, of finite subsets and of trees by height, as
the library's induction theorems take an operator as a parameter and the provers
cannot instantiate them.

Model-checked only:

* `EveryCallReturns`: liveness under fairness is beyond this prover.
* `ReadBack` of `Lsss`: it is about two parsers of texts, which are `RECURSIVE`
  operators, and no prover handles what they compute for every text.
* `CachesExact` and `ProductsExact` of `NttCaches`: that a transform yields the values at
  the odd powers of psi, and its inverse the coefficients, is an induction over layers
  with powers of roots modulo q, of which the provers know nothing; it would need a
  theory of roots of unity like that of sums in `ModularSums`.
* `ArrivesOrRefused` and `ReadIsCanonical` of `Wire`: the packing is a fold whose buffer
  mixes symbolic powers of two with division, and the provers have no theory of
  either; the layout around it could be proved by itself (section 6).

## 5. Not modelled, and why

* Gaussian and uniform sampling, and hashing: distributions and functions without
  control of their own. The samplers' supports enter as constants (`Noises`,
  `Trapdoors`, the ranges of masks and nonces), hashes as what they are computed from.
* That a key's combined witness is a preimage of the policy's target is an
  assumption of `Signing` (`KeyAssumption`); `Trapdoor` shows where a preimage comes
  from, one coefficient at a time.
* Polynomials over the integers without reduction, and the wrappers in `algebra/`.
* Setup and parameter sets: constants. What `validate_parameter_consistency` demands
  is an assumption of `Signing`.
* `batch_verify` maps the verifier over its inputs. `reject_not` guards deserialized
  policies against a node that parsing never makes. The fallback of the matrix
  code for matrices that tests build by hand is left out.
* Probabilities: how often an attempt is rejected is outside TLA+.
* `optimization.rs` holds stubs. Logging and wording, benchmarks, examples and scripts
  are left out.

## 6. Plan

Done: `PunctureTree`, `LegacyKey`, `PolicyCaches`, `Lsss` with `PolicyText`,
`SharingMatrix` and `Reconstruction`, `Rounding`, `Signing`, `NttCaches`, `Trapdoor`, `Wire` and `HardwareRoot` with
their runs, and the proofs of section 4.

Left, the most important first:

1. The coherence of the NTT caches apart from the transforms, as for the policy
   caches: what a cache holds for a key is what the operators compute for that key,
   whoever stored it.
2. That the blobs `Wire` reads are canonical: the layout of its fields, cut and joined
   again, for bytes of any width.
3. A run of the plain MLWE signature with an error vector, in which the hints of
   `HintRecovers` and `HintMissesTheTop` are made and used. Benchmarks and tests call it,
   the attribute signatures do not.
