------------------------------- MODULE Signing ------------------------------
(***************************************************************************)
(* One signature from the user's key to the verifier's answer: the signer  *)
(* (src/src/sign.rs, src/src/pabs/mod.rs and sign_internal of mlwe.rs),    *)
(* the reverse firewall that commits to a mask before the challenge and    *)
(* applies it after (src/src/firewall/mod.rs), the two forms a signature   *)
(* is handed on in (src/src/serialization/mod.rs, compression.rs), and the *)
(* verifier (src/src/verify.rs).                                           *)
(*                                                                         *)
(* Vectors of polynomials are single integers mod Q: the arithmetic is     *)
(* that of one coefficient, and A is the public matrix.  Hashes are        *)
(* records of what they are computed from.                                 *)
(***************************************************************************)
EXTENDS Rounding, Sequences, FiniteSets

LOCAL INSTANCE FiniteSetsExt

CONSTANTS
    A, Gamma1, Beta, Eta2,
    PackedWidth,      \* 2 to the number of bits of a packed response, see z_bits
    Users,            \* the gids
    Attributes,
    Holds,            \* user -> the attributes of the user's key
    Preimage,         \* user -> attribute -> the key's short preimage
    AttributeTarget,  \* user -> attribute -> what the attribute hashes to
    Policies,
    Digest,           \* policy -> policy_digest
    RowToAttr,        \* policy -> the attribute of each row of its matrix
    Weights,          \* policy -> sets of rows -> row -> constant
    Satisfying,       \* policy -> the sets of attributes that satisfy it
    Messages, Tags,
    Coefficient(_),   \* the coefficient the challenge hash yields
    MaxTries,         \* bound: max_attempts of sign_internal, 5000 there
    MaxAttempts,      \* firewall_max_attempts, 128
    None

VARIABLES
    phase,     \* "idle", "precommit", "core", "finalize", "signed", "failed"
    job,       \* [user, message, policy, tau] of the current signature
    attempt,   \* firewall attempts that were refused
    tries,     \* core attempts that were rejected
    mask,      \* of the current precommitment
    delta,
    core,      \* the core signature, or None
    sig,       \* the firewall signature, or None
    damaged,   \* the field of sig that changed since it was issued, or None
    answer     \* the verifier's last answer, or None

vars == <<phase, job, attempt, tries, mask, delta, core, sig, damaged, answer>>

-----------------------------------------------------------------------------
(* Policies, keys and targets.                                             *)

ZBound == Gamma1 - Beta

(* sign_internal keeps its nonce in half of the window.                    *)
YBound == Larger(ZBound \div 2, 1)

Rows(p, attrs) == {i \in DOMAIN RowToAttr[p] : RowToAttr[p][i] \in attrs}

Reconstructs(p, attrs) == Rows(p, attrs) \in DOMAIN Weights[p]

UsedAttributes(p, attrs) == {RowToAttr[p][i] : i \in Rows(p, attrs)}

(* combine_policy_witness                                                  *)
Witness(p, u) ==
    LET w == Weights[p][Rows(p, Holds[u])]
    IN  Centered(MapThenSumSet(
            LAMBDA i : Centered(w[i]) * Centered(Preimage[u][RowToAttr[p][i]]),
            Rows(p, Holds[u])))

(* The constants w applied to what the attributes of the rows hash to.     *)
TargetOfRows(w, attr, rows, u) ==
    Reduced(MapThenSumSet(LAMBDA i : Reduced(w[i] * AttributeTarget[u][attr[i]]), rows))

(* derive_policy_target                                                    *)
PolicyTarget(p, attrs, u) ==
    TargetOfRows(Weights[p][Rows(p, attrs)], RowToAttr[p], Rows(p, attrs), u)

(* The users that can sign under a policy, as core_sign decides it.        *)
CanSign(p, u) == Holds[u] \in Satisfying[p] /\ Reconstructs(p, Holds[u])

(* validate_parameter_consistency, and a window wider than a mask.         *)
ASSUME WindowAssumption ==
    /\ Gamma1 \in Nat /\ Beta \in Nat /\ Eta2 \in Nat /\ A \in Int
    /\ Gamma1 < Q \div 2
    /\ Eta2 < ZBound
    /\ PackedWidth \in Nat /\ PackedWidth >= 2 * Gamma1
    /\ MaxTries \in Nat \ {0} /\ MaxAttempts \in Nat \ {0}

(* A policy looks at its own attributes only, and its digest stands for    *)
(* all that is derived from it: both come from its canonical text.         *)
ASSUME PolicyAssumption ==
    /\ \A p \in Policies : \A attrs \in Satisfying[p] : UsedAttributes(p, attrs) \in Satisfying[p]
    /\ \A p \in Policies : \A attrs \in SUBSET Attributes :
          UsedAttributes(p, attrs) \in Satisfying[p] => attrs \in Satisfying[p]
    /\ \A p, r \in Policies : Digest[p] = Digest[r] =>
          RowToAttr[p] = RowToAttr[r] /\ Weights[p] = Weights[r] /\ Satisfying[p] = Satisfying[r]

(* The preimages of a key belong to its attributes, so that the combined   *)
(* witness is a preimage of the target of the policy.                      *)
ASSUME KeyAssumption ==
    \A p \in Policies, u \in Users :
        CanSign(p, u) =>
            /\ Witness(p, u) \in Int
            /\ PolicyTarget(p, Holds[u], u) = Reduced(A * Witness(p, u))

-----------------------------------------------------------------------------
(* Hashes.                                                                 *)

(* Variant: the correction is not part of the challenge.                   *)
ChallengeWithoutDelta(w1, target, m, context, d) ==
    LET query == [w1 |-> w1, tr |-> target, message |-> m, context |-> context, delta |-> 0]
    IN  [of |-> query, coeff |-> Coefficient(query)]

(* derive_challenge: tr and pk_hash are both hashes of the target.         *)
Challenge(w1, target, m, context, d) ==
    LET query == [w1 |-> w1, tr |-> target, message |-> m, context |-> context, delta |-> d]
    IN  [of |-> query, coeff |-> Coefficient(query)]

(* challenge_context; the parameter set is the one of this instance.       *)
Context(digest, tau, gid) == <<digest, tau, gid>>

(* Everything a challenge can be the hash of.                              *)
Queries ==
    [w1 : {HighBits(w) : w \in 0..(Q - 1)}, tr : 0..(Q - 1), message : Messages,
     context : {Digest[p] : p \in Policies} \X Tags \X Users, delta : 0..(Q - 1)]

ASSUME CoefficientAssumption == \A query \in Queries : Coefficient(query) \in {-1, 1}

(* Variant: the tag leaves out the response.                               *)
TagWithoutResponse(s) ==
    [tau |-> s.tau, gid |-> s.gid, digest |-> s.digest, message |-> s.message,
     pk |-> s.pk, challenge |-> s.challenge, delta |-> s.delta]

(* firewall_tag: neither policy, attributes_used nor hints.                *)
FirewallTag(s) ==
    [tau |-> s.tau, gid |-> s.gid, digest |-> s.digest, message |-> s.message,
     pk |-> s.pk, challenge |-> s.challenge, z |-> s.z, delta |-> s.delta]

-----------------------------------------------------------------------------
(* Signing.                                                                *)

Init ==
    /\ phase = "idle"
    /\ job = None
    /\ attempt = 0 /\ tries = 0
    /\ mask = 0 /\ delta = 0
    /\ core = None /\ sig = None /\ damaged = None /\ answer = None

(* sign_structured is called under a tag that is not punctured.  Nothing   *)
(* outlives a call, so one signature is followed to its end.               *)
Start(u, m, p, tau) ==
    /\ phase \in {"idle", "failed"}
    /\ phase' = "precommit"
    /\ job' = [user |-> u, message |-> m, policy |-> p, tau |-> tau]
    /\ attempt' = 0 /\ tries' = 0
    /\ mask' = 0 /\ delta' = 0
    /\ core' = None /\ sig' = None /\ damaged' = None /\ answer' = None

(* Variant: delta keeps the representative the product has.                *)
PrecommitUnreduced ==
    /\ phase = "precommit"
    /\ \E r \in -Eta2..Eta2 : mask' = r /\ delta' = A * r
    /\ phase' = "core"
    /\ UNCHANGED <<job, attempt, tries, core, sig, damaged, answer>>

(* precommit: the mask stays with the firewall, delta goes to the signer.  *)
Precommit ==
    /\ phase = "precommit"
    /\ \E r \in -Eta2..Eta2 : mask' = r /\ delta' = Reduced(A * r)
    /\ phase' = "core"
    /\ UNCHANGED <<job, attempt, tries, core, sig, damaged, answer>>

(* core_sign refuses a key that cannot satisfy the policy; the error ends  *)
(* the call.                                                               *)
CoreRefuse ==
    /\ phase = "core"
    /\ ~CanSign(job.policy, job.user)
    /\ phase' = "failed"
    /\ UNCHANGED <<job, attempt, tries, mask, delta, core, sig, damaged, answer>>

(* What the core signer signs with, for a job and a correction d: its      *)
(* target, and for a nonce y the challenge and the response.               *)
SignerTarget(j) == PolicyTarget(j.policy, UsedAttributes(j.policy, Holds[j.user]), j.user)

SignerChallenge(j, d, y) ==
    Challenge(HighBits(Reduced(A * y)), SignerTarget(j), j.message,
              Context(Digest[j.policy], j.tau, j.user), d)

Response(j, d, y) == y + SignerChallenge(j, d, y).coeff * Witness(j.policy, j.user)

CoreSignature(j, d, y) ==
    [z |-> Reduced(Response(j, d, y)), challenge |-> SignerChallenge(j, d, y),
     hint |-> MakeHint(0, Reduced(A * y)), policy |-> j.policy, digest |-> Digest[j.policy],
     message |-> j.message, used |-> UsedAttributes(j.policy, Holds[j.user]), gid |-> j.user,
     pk |-> SignerTarget(j)]

(* Variant: no room is left for the mask.                                  *)
AcceptsWholeWindow(z) == Abs(z) < Larger(ZBound, 1)

(* The core accepts responses that leave room for the mask.                *)
Accepts(z) == Abs(z) < Larger(ZBound - Eta2, 1)

(* One pass of the loop of sign_internal: the response is accepted, or the *)
(* loop goes on with another nonce until it gives up.                      *)
CoreTry ==
    /\ phase = "core"
    /\ CanSign(job.policy, job.user)
    /\ \E y \in -YBound..YBound :
         \/ /\ Accepts(Response(job, delta, y))
            /\ core' = CoreSignature(job, delta, y)
            /\ phase' = "finalize"
            /\ UNCHANGED tries
         \/ /\ ~Accepts(Response(job, delta, y))
            /\ tries' = tries + 1
            /\ phase' = IF tries' = MaxTries THEN "failed" ELSE phase
            /\ UNCHANGED core
    /\ UNCHANGED <<job, attempt, mask, delta, sig, damaged, answer>>

(* finalize_with_parts                                                     *)
Masked(r) == Centered(core.z) + r

Finalized(r, pk, tau) ==
    LET body == [z |-> Reduced(Masked(r)), challenge |-> core.challenge, hint |-> core.hint,
                 policy |-> core.policy, message |-> core.message, used |-> core.used,
                 digest |-> core.digest, delta |-> Reduced(A * r), pk |-> pk, tau |-> tau,
                 gid |-> core.gid, tag |-> None]
    IN  [body EXCEPT !.tag = FirewallTag(body)]

(* finalize_precommitted as sign_structured calls it; a refusal starts     *)
(* over with a fresh precommitment.                                        *)
Finalize ==
    /\ phase = "finalize"
    /\ delta = Reduced(A * mask)
    /\ IF Abs(Masked(mask)) < ZBound
       THEN /\ sig' = Finalized(mask, core.pk, job.tau)
            /\ phase' = "signed"
            /\ UNCHANGED <<attempt, tries>>
       ELSE /\ attempt' = attempt + 1
            /\ tries' = 0
            /\ phase' = IF attempt' = MaxAttempts THEN "failed" ELSE "precommit"
            /\ UNCHANGED sig
    /\ UNCHANGED <<job, mask, delta, core, damaged, answer>>

(* transform_with_mask and finalize_precommitted are public: a caller who  *)
(* drives the firewall by hand may finalize a core signature with another  *)
(* precommitment, another target or another tag than it was signed for.    *)
FinalizeByHand(r, pk, tau) ==
    /\ phase = "finalize"
    /\ Abs(Masked(r)) < ZBound
    /\ sig' = Finalized(r, pk, tau)
    /\ phase' = "signed"
    /\ UNCHANGED <<job, attempt, tries, mask, delta, core, damaged, answer>>

(* The targets of the keys at hand.                                        *)
Targets ==
    {PolicyTarget(x[1], Holds[x[2]], x[2]) :
        x \in {y \in Policies \X Users : CanSign(y[1], y[2])}}

-----------------------------------------------------------------------------
(* Handing on.                                                             *)

(* Values a field may be found with instead of its own.                    *)
Others(field) ==
    CASE field = "z"         -> {v \in 0..(Q - 1) : Abs(Centered(v)) <= Gamma1}
      [] field = "delta"     -> {Reduced(A * r) : r \in -Gamma1..Gamma1}
      [] field = "hint"      -> {0, 1, None}
      [] field = "tau"       -> Tags
      [] field = "gid"       -> Users
      [] field = "message"   -> Messages
      [] field = "policy"    -> Policies
      [] field = "digest"    -> {Digest[p] : p \in Policies}
      [] field = "used"      -> SUBSET Attributes
      [] field = "pk"        -> Targets
      [] field = "challenge" -> {[sig.challenge EXCEPT !.of.w1 = HighBits(w)] : w \in 0..(Q - 1)}

Fields == {"z", "delta", "hint", "tau", "gid", "message", "policy", "digest", "used", "pk",
           "challenge"}

(* An absent hint is no hint, an absent damage no field.                   *)
ASSUME NoneAssumption == None \notin {0, 1} /\ None \notin Fields

(* The signature carries what its challenge was computed for.              *)
FinalizedAsBound ==
    sig.delta = core.challenge.of.delta /\ sig.pk = core.pk /\ sig.tau = job.tau

(* A field is not what it was when the signature was issued: it was stored *)
(* or sent badly, or mixed up with that of another signature.              *)
Damage(field) ==
    /\ phase = "signed"
    /\ damaged = None
    /\ answer = None
    /\ FinalizedAsBound
    /\ \E v \in Others(field) \ {sig[field]} : sig' = [sig EXCEPT ![field] = v]
    /\ damaged' = field
    /\ UNCHANGED <<phase, job, attempt, tries, mask, delta, core, answer>>

(* Variant: the packed response is not centred first.                      *)
CompressUncentered(s) ==
    [packed_z |-> (s.z + Gamma1) % PackedWidth, challenge |-> s.challenge, hint |-> s.hint,
     delta |-> Reduced(s.delta), witness_rows |-> Rows(s.policy, s.used), digest |-> s.digest,
     tag |-> s.tag, pk |-> s.pk, tau |-> s.tau, gid |-> s.gid]

(* compress: the response is shifted to be non-negative, attributes become *)
(* rows, and policy and message hash are left to the verifier.             *)
Compress(s) ==
    [packed_z |-> (Centered(s.z) + Gamma1) % PackedWidth, challenge |-> s.challenge, hint |-> s.hint,
     delta |-> Reduced(s.delta), witness_rows |-> Rows(s.policy, s.used), digest |-> s.digest,
     tag |-> s.tag, pk |-> s.pk, tau |-> s.tau, gid |-> s.gid]

(* decompress_firewall_signature                                           *)
Decompress(c, p, m) ==
    [z |-> Reduced(c.packed_z - Gamma1), challenge |-> c.challenge, hint |-> c.hint,
     policy |-> p, message |-> m, used |-> {RowToAttr[p][i] : i \in c.witness_rows},
     digest |-> c.digest, delta |-> c.delta, tag |-> c.tag, pk |-> c.pk, tau |-> c.tau,
     gid |-> c.gid]

-----------------------------------------------------------------------------
(* Verification.                                                           *)

(* The cheap checks verify_signature_struct makes before any arithmetic.   *)
WellFormed(s, m, p) ==
    /\ s.policy = p
    /\ s.message = m
    /\ s.digest = Digest[p]
    /\ s.used \in Satisfying[p]
    /\ Abs(Centered(s.z)) < ZBound
    /\ s.tag = FirewallTag(s)

(* Variant: the correction is added instead of subtracted.                 *)
CommitmentPlusDelta(s, target) ==
    Reduced(Reduced(A * s.z - s.challenge.coeff * target) + s.delta)

(* A z - c u - delta                                                       *)
Commitment(s, target) ==
    Reduced(Reduced(A * s.z - s.challenge.coeff * target) - s.delta)

(* verify_signature_struct: a target that cannot be derived is an error,   *)
(* every other failure a plain refusal.                                    *)
VerifyStruct(s, m, p) ==
    IF ~WellFormed(s, m, p) THEN "rejected"
    ELSE IF ~Reconstructs(p, s.used) THEN "error"
    ELSE LET target == PolicyTarget(p, s.used, s.gid)
         IN  IF /\ s.pk = target
                /\ s.hint # None
                /\ s.challenge = Challenge(UseHint(s.hint, Commitment(s, target)), target, m,
                                           Context(s.digest, s.tau, s.gid), s.delta)
             THEN "accepted"
             ELSE "rejected"

(* verify_compact_signature                                                *)
VerifyCompact(c, m, p) ==
    IF c.witness_rows \subseteq DOMAIN RowToAttr[p]
    THEN VerifyStruct(Decompress(c, p, m), m, p)
    ELSE "rejected"

Verify(m, p) ==
    /\ phase = "signed"
    /\ \E form \in {"struct", "compact"} :
          answer' = [form |-> form, message |-> m, policy |-> p,
                     verdict |-> IF form = "struct" THEN VerifyStruct(sig, m, p)
                                 ELSE VerifyCompact(Compress(sig), m, p)]
    /\ UNCHANGED <<phase, job, attempt, tries, mask, delta, core, sig, damaged>>

Next ==
    \/ \E u \in Users, m \in Messages, p \in Policies, tau \in Tags : Start(u, m, p, tau)
    \/ Precommit \/ CoreRefuse \/ CoreTry \/ Finalize
    \/ \E r \in -Eta2..Eta2, pk \in Targets, tau \in Tags : FinalizeByHand(r, pk, tau)
    \/ \E field \in Fields : Damage(field)
    \/ \E m \in Messages, p \in Policies : Verify(m, p)

Spec == Init /\ [][Next]_vars

-----------------------------------------------------------------------------
(* Properties.                                                             *)

(* Responses stay in the windows their stage accepts, and counters within  *)
(* the retries allowed.                                                    *)
TypeOK ==
    /\ phase \in {"idle", "precommit", "core", "finalize", "signed", "failed"}
    /\ attempt \in 0..MaxAttempts
    /\ tries \in 0..MaxTries
    /\ mask \in -Eta2..Eta2
    /\ delta = Reduced(A * mask)
    /\ damaged \in Fields \cup {None}
    /\ phase = "finalize" => Accepts(Centered(core.z))
    /\ phase = "signed" /\ damaged # "z" => Abs(Centered(sig.z)) < ZBound

(* The room the core leaves is the room the mask needs: the firewall never *)
(* refuses a response the core accepted, so no signature needs a second    *)
(* precommitment.                                                          *)
FirewallNeverRefuses == attempt = 0

(* A signature that reaches the verifier as it was issued is accepted for  *)
(* its message and policy, in either form and under any spelling of the    *)
(* policy with the same digest in the compact one: masking, rounding,      *)
(* centring and packing lose nothing.                                      *)
IssuedIsAccepted ==
    (/\ answer # None /\ damaged = None /\ FinalizedAsBound
     /\ answer.message = job.message
     /\ \/ answer.policy = job.policy
        \/ answer.form = "compact" /\ Digest[answer.policy] = Digest[job.policy])
        => answer.verdict = "accepted"

(* What is accepted was signed: for that message, a policy of that digest, *)
(* that user and that tag, with the correction and the target the core     *)
(* signer saw.  A core signature finalized for anything else is useless.   *)
AcceptedAsSigned ==
    (answer # None /\ answer.verdict = "accepted") =>
        /\ answer.message = job.message
        /\ Digest[answer.policy] = Digest[job.policy]
        /\ sig.gid = job.user
        /\ FinalizedAsBound

(* A signature with a changed field is not accepted, except for what       *)
(* nothing binds: attributes that leave the target as it was, another      *)
(* spelling of the policy, and what the compact form does not carry.       *)
DamageIsRejected ==
    (damaged # None /\ answer # None /\ answer.verdict = "accepted") =>
        \/ damaged = "used" /\ PolicyTarget(sig.policy, sig.used, sig.gid) = core.pk
        \/ damaged = "policy" /\ Digest[sig.policy] = Digest[core.policy]
        \/ damaged \in {"policy", "message"} /\ answer.form = "compact"

(* The two forms of a signature get the same answer from the verifier,     *)
(* errors included, even when a field both carry is damaged.               *)
FormsAgree ==
    phase = "signed" /\ damaged \notin {"policy", "message"} =>
        \A m \in Messages :
            VerifyCompact(Compress(sig), m, sig.policy) = VerifyStruct(sig, m, sig.policy)

=============================================================================
