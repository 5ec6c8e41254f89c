-------------------------------- MODULE Wire --------------------------------
(***************************************************************************)
(* The compact form of a firewall signature on its way from a signer to a  *)
(* verifier: bit packing (src/src/compression.rs), the binary layout with  *)
(* a header, fields and a trailer (src/src/serialization/mod.rs), and a    *)
(* channel that can change, lose or repeat parts of it.                    *)
(*                                                                         *)
(* A raw blob is a sequence of bytes, scaled: a byte has ByteBits bits, so *)
(* a u16 length wraps early.  Fixed-width header fields are one byte each. *)
(* zstd is external: it gives back what was compressed, and what two       *)
(* frames one after the other hold.  Policy, message hash and attributes   *)
(* do not travel.                                                          *)
(***************************************************************************)
EXTENDS Integers, Sequences, SequencesExt

CONSTANTS
    ByteBits,      \* bits of a byte
    Q, M, K, N,    \* MLWEParameters: q, m, k, n
    TightGamma1s,  \* the values of gamma1 z_bits lists: powers of two
    Signatures,    \* the signatures signers send, see SignatureAssumption
    TextBytes,     \* bytes that are UTF-8
    MaxRaw,        \* MAX_DECOMPRESSED_SIZE
    MaxDamages,    \* bound: damages on the way
    None, Refused,
    Panicked       \* the call ended in a panic

(* gamma1 is the parameter of the set the signature was made under; z and  *)
(* firewall_delta are sequences of coefficients in 0..(q - 1), z centred   *)
(* below gamma1 as the verifier demands; hints is None or a sequence of k  *)
(* sequences over {0, 1}; challenge is a sequence over {-1, 0, 1}.         *)
ASSUME SignatureAssumption ==
    \A s \in Signatures :
        /\ DOMAIN s = {"gamma1", "z", "challenge", "hints", "firewall_delta",
                       "witness_rows", "pk_hash", "parameter_set_id", "tau"}
        /\ Len(s.z) = M * N
        /\ \A i \in DOMAIN s.z : s.z[i] \in 0..(s.gamma1 - 1) \cup (Q - s.gamma1 + 1)..(Q - 1)

ASSUME BoundsAssumption == ByteBits \in Nat \ {0} /\ MaxRaw \in Nat /\ MaxDamages \in Nat

VARIABLES
    sent,       \* the signature sent, or None
    raw,        \* the decompressed blob at the receiver
    damages,    \* damages it suffered
    read,       \* deserialize_compressed_signature: None, Refused or fields
    received    \* decompress_firewall_signature: None, Refused, Panicked or signature

vars == <<sent, raw, damages, read, received>>

-----------------------------------------------------------------------------
(* Bit packing.                                                            *)

Byte == 2^ByteBits

BitLength(x) == CHOOSE b \in 0..x : 2^b > x /\ \A c \in 0..(b - 1) : 2^c <= x

(* Variant: the listed widths serve every gamma1 up to the listed one.     *)
ZBitsListed(gamma1) == BitLength(2 * gamma1 + 1) - 1

ZBits(gamma1) ==
    IF gamma1 \in TightGamma1s THEN BitLength(2 * gamma1 - 1) ELSE BitLength(2 * gamma1 + 1)

(* The low n bytes of a buffer.                                            *)
LowBytes(buf, n) == [i \in 1..n |-> (buf \div Byte^(i - 1)) % Byte]

(* The packing loop: a value enters above the bits still in the buffer and *)
(* whole bytes leave; the rest is flushed at the end.                      *)
PackBits(vals, bits) ==
    LET enter(acc, val) ==
            LET buf   == acc.buf + val * 2^acc.count
                whole == (acc.count + bits) \div ByteBits
            IN  [out   |-> acc.out \o LowBytes(buf, whole),
                 buf   |-> buf \div Byte^whole,
                 count |-> (acc.count + bits) % ByteBits]
        end == FoldLeft(enter, [out |-> <<>>, buf |-> 0, count |-> 0], vals)
    IN  end.out \o LowBytes(end.buf, IF end.count > 0 THEN 1 ELSE 0)

CeilDiv(a, b) == (a + b - 1) \div b

(* The unpacking loop, past the length check: bytes enter until a value's  *)
(* bits are there.                                                         *)
UnpackBits(data, bits, n) ==
    LET leave(acc, i) ==
            LET load == CeilDiv(IF bits > acc.count THEN bits - acc.count ELSE 0, ByteBits)
                buf  == FoldLeftDomain(LAMBDA b, j :
                            b + data[acc.index + j] * 2^(acc.count + ByteBits * (j - 1)),
                            acc.buf, [j \in 1..load |-> j])
            IN  [out   |-> Append(acc.out, buf % 2^bits),
                 buf   |-> buf \div 2^bits,
                 count |-> acc.count + ByteBits * load - bits,
                 index |-> acc.index + load]
    IN  FoldLeft(leave, [out |-> <<>>, buf |-> 0, count |-> 0, index |-> 0],
                 [i \in 1..n |-> i]).out

(* unpack_z and unpack_polyvec_mod_q read on only from enough bytes.       *)
LongEnough(data, bits, n) == Len(data) >= CeilDiv(n * bits, ByteBits)

CenterCoefficient(c) == IF c > Q \div 2 THEN c - Q ELSE c

PackZ(z, gamma1) ==
    PackBits([i \in DOMAIN z |-> CenterCoefficient(z[i]) + gamma1], ZBits(gamma1))

UnpackZ(data, gamma1) ==
    LET vals == UnpackBits(data, ZBits(gamma1), M * N)
    IN  [i \in 1..(M * N) |-> (vals[i] - gamma1) % Q]

PackPolyvecModQ(v) == PackBits([i \in DOMAIN v |-> v[i] % Q], BitLength(Q - 1))

UnpackPolyvecModQ(data) == UnpackBits(data, BitLength(Q - 1), K * N)

-----------------------------------------------------------------------------
(* Sparse encodings, as little-endian bytes.                               *)

U16(v) == LowBytes(v % Byte^2, 2)

U32(v) == LowBytes(v % Byte^4, 4)

ReadU16(bytes, at) == bytes[at] + Byte * bytes[at + 1]

(* The positions where a sequence has a value, in order.                   *)
Positions(s, value) == SelectSeq([i \in DOMAIN s |-> i], LAMBDA i : s[i] = value)

EncodeIndices(positions) ==
    FlattenSeq([i \in DOMAIN positions |-> U16(positions[i] - 1)])

EncodeChallenge(c) ==
    <<Len(Positions(c, 1)) % Byte>>
        \o EncodeIndices(Positions(c, 1)) \o EncodeIndices(Positions(c, -1))

(* decode_challenge panics on anything else.                               *)
ChallengeReadable(data) ==
    /\ data # <<>>
    /\ 1 + 2 * data[1] <= Len(data)
    /\ \A i \in 1..((Len(data) - 1) \div 2) : ReadU16(data, 2 * i) < N

(* Later indices overwrite earlier ones, the negative ones come last.      *)
DecodeChallenge(data) ==
    LET index(i) == ReadU16(data, 2 * i) + 1
        all == 1..((Len(data) - 1) \div 2)
    IN  [p \in 1..N |->
            IF \E i \in all : i > data[1] /\ index(i) = p THEN -1
            ELSE IF \E i \in all : i <= data[1] /\ index(i) = p THEN 1
            ELSE 0]

PackHints(hints) ==
    LET entries(i) == LET at == Positions(hints[i], 1)
                      IN  [j \in DOMAIN at |-> U16(i - 1) \o U16(at[j] - 1)]
        all == FlattenSeq([i \in DOMAIN hints |-> entries(i)])
    IN  U32(Len(all)) \o FlattenSeq(all)

HintCount(data) == ReadU16(data, 1) + Byte^2 * ReadU16(data, 3)

(* unpack_hints succeeds: the entries are there and within the vector.     *)
HintsReadable(data) ==
    /\ Len(data) >= 4
    /\ HintCount(data) * 4 + 4 <= Len(data)
    /\ \A e \in 1..HintCount(data) :
          ReadU16(data, 4 * e + 1) < K /\ ReadU16(data, 4 * e + 3) < N

UnpackHints(data) ==
    [i \in 1..K |-> [j \in 1..N |->
        IF \E e \in 1..HintCount(data) :
              ReadU16(data, 4 * e + 1) = i - 1 /\ ReadU16(data, 4 * e + 3) = j - 1
        THEN 1 ELSE 0]]

-----------------------------------------------------------------------------
(* compress_ and decompress_firewall_signature.                            *)

Compress(s) ==
    [packed_z |-> PackZ(s.z, s.gamma1), packed_delta |-> PackPolyvecModQ(s.firewall_delta),
     encoded_c |-> EncodeChallenge(s.challenge),
     packed_hints |-> IF s.hints = None THEN None ELSE PackHints(s.hints),
     witness_rows |-> s.witness_rows, pk_hash |-> s.pk_hash,
     parameter_set_id |-> s.parameter_set_id, tau |-> s.tau]

(* The receiver knows gamma1 from its parameters.  A response too short is *)
(* refused before the challenge is looked at, hints and delta after.       *)
Decompress(c, gamma1) ==
    IF ~LongEnough(c.packed_z, ZBits(gamma1), M * N) THEN Refused
    ELSE IF ~ChallengeReadable(c.encoded_c) THEN Panicked
    ELSE IF \/ c.packed_hints # None /\ ~HintsReadable(c.packed_hints)
            \/ ~LongEnough(c.packed_delta, BitLength(Q - 1), K * N)
    THEN Refused
    ELSE [gamma1 |-> gamma1, z |-> UnpackZ(c.packed_z, gamma1),
          challenge |-> DecodeChallenge(c.encoded_c),
          hints |-> IF c.packed_hints = None THEN None ELSE UnpackHints(c.packed_hints),
          firewall_delta |-> UnpackPolyvecModQ(c.packed_delta),
          witness_rows |-> c.witness_rows, pk_hash |-> c.pk_hash,
          parameter_set_id |-> c.parameter_set_id, tau |-> c.tau]

-----------------------------------------------------------------------------
(* The layout.                                                             *)

Magic == 1
Version == 2

(* Magic, version and tau (gid, policy_digest and firewall_tag travel like *)
(* tau), then two lengths of two bytes and one of one byte.                *)
HeaderSize == 8

TrailerSize == 13

HintsBytes(c) == IF c.packed_hints = None THEN <<>> ELSE c.packed_hints

SerializeCompressed(c) ==
    LET pid_len == Len(c.parameter_set_id) % Byte
    IN  <<Magic, Version, c.tau>>
            \o U16(Len(c.pk_hash)) \o <<pid_len>> \o U16(Len(c.witness_rows))
        \o c.packed_z \o c.packed_delta \o c.encoded_c \o HintsBytes(c) \o c.pk_hash
            \o FlattenSeq([i \in DOMAIN c.witness_rows |-> U16(c.witness_rows[i])])
            \o c.parameter_set_id
        \o U16(Len(c.packed_z)) \o U16(Len(c.packed_delta)) \o U16(Len(c.encoded_c))
            \o U16(Len(HintsBytes(c))) \o U16(Len(c.pk_hash))
            \o U16(Len(c.witness_rows)) \o <<pid_len>>

(* What the trailer of a blob says; rows take two bytes each.              *)
Trailer(blob) ==
    LET at == Len(blob) - TrailerSize
        u16(i) == ReadU16(blob, at + 2 * i - 1)
    IN  [z |-> u16(1), delta |-> u16(2), c |-> u16(3), hints |-> u16(4), pkh |-> u16(5),
         rows |-> u16(6), pid |-> blob[at + 13]]

FieldBytes(t) == t.z + t.delta + t.c + t.hints + t.pkh + 2 * t.rows + t.pid

(* The fields, cut one after the other at the lengths of the trailer.      *)
Fields(blob, t) ==
    LET cut(skip, len) == SubSeq(blob, HeaderSize + skip + 1, HeaderSize + skip + len)
        c_at    == t.z + t.delta
        pkh_at  == c_at + t.c + t.hints
        rows_at == pkh_at + t.pkh
        rows    == cut(rows_at, 2 * t.rows)
    IN  [packed_z |-> cut(0, t.z), packed_delta |-> cut(t.z, t.delta),
         encoded_c |-> cut(c_at, t.c),
         packed_hints |-> IF t.hints > 0 THEN cut(c_at + t.c, t.hints) ELSE None,
         pk_hash |-> cut(pkh_at, t.pkh),
         witness_rows |-> [i \in 1..t.rows |-> ReadU16(rows, 2 * i - 1)],
         parameter_set_id |-> cut(rows_at + 2 * t.rows, t.pid), tau |-> blob[3]]

(* Variant: the lengths of the header are not compared with the trailer's. *)
HeaderUnchecked(blob, t) == TRUE

HeaderAgrees(blob, t) ==
    ReadU16(blob, 4) = t.pkh /\ blob[6] = t.pid /\ ReadU16(blob, 7) = t.rows

DeserializeCompressed(blob) ==
    IF \/ Len(blob) > MaxRaw
       \/ Len(blob) < HeaderSize + TrailerSize
       \/ blob[1] # Magic \/ blob[2] # Version
    THEN Refused
    ELSE LET t == Trailer(blob) IN
         IF \/ HeaderSize + FieldBytes(t) + TrailerSize # Len(blob)
            \/ \E i \in DOMAIN Fields(blob, t).parameter_set_id :
                  Fields(blob, t).parameter_set_id[i] \notin TextBytes
            \/ ~HeaderAgrees(blob, t)
         THEN Refused
         ELSE Fields(blob, t)

-----------------------------------------------------------------------------

Init ==
    /\ sent = None
    /\ raw = <<>>
    /\ damages = 0
    /\ read = None
    /\ received = None

Send(s) ==
    /\ sent = None
    /\ sent' = s
    /\ raw' = SerializeCompressed(Compress(s))
    /\ UNCHANGED <<damages, read, received>>

(* A byte changed or lost, the end lost, or the whole repeated.            *)
Damaged(blob) ==
    {ReplaceAt(blob, i, b) : i \in DOMAIN blob, b \in 0..(Byte - 1)}
    \cup {RemoveAt(blob, i) : i \in DOMAIN blob}
    \cup {SubSeq(blob, 1, i) : i \in 0..Len(blob)}
    \cup {blob \o blob}

Damage ==
    /\ sent # None
    /\ read = None
    /\ damages < MaxDamages
    /\ damages' = damages + 1
    /\ raw' \in Damaged(raw) \ {raw}
    /\ UNCHANGED <<sent, read, received>>

Receive ==
    /\ sent # None
    /\ read = None
    /\ read' = DeserializeCompressed(raw)
    /\ UNCHANGED <<sent, raw, damages, received>>

Open ==
    /\ read \notin {None, Refused}
    /\ received = None
    /\ received' = Decompress(read, sent.gamma1)
    /\ UNCHANGED <<sent, raw, damages, read>>

Next ==
    \/ \E s \in Signatures : Send(s)
    \/ Damage
    \/ Receive
    \/ Open

Spec == Init /\ [][Next]_vars

-----------------------------------------------------------------------------

(* Every length fits the bytes that carry it.                              *)
LengthsFit(c) ==
    /\ \A f \in {"packed_z", "packed_delta", "encoded_c", "pk_hash", "witness_rows"} :
          Len(c[f]) < Byte^2
    /\ Len(HintsBytes(c)) < Byte^2
    /\ Len(c.parameter_set_id) < Byte
    /\ Len(SerializeCompressed(c)) <= MaxRaw

(* What arrives undamaged is the signature that was sent, coefficient by   *)
(* coefficient across the byte boundaries; one with a field too long for   *)
(* its length serializes without error and is refused by the reader, never *)
(* read as another.  None of them makes the receiver panic.                *)
ArrivesOrRefused ==
    damages = 0 =>
        /\ read # None => (read = Refused <=> ~LengthsFit(Compress(sent)))
        /\ received # None => received = sent

(* Whatever was done to a blob, what is read from it serializes to it      *)
(* again: no byte is without meaning and no two readings are mixed, a      *)
(* truncated or repeated blob included.                                    *)
ReadIsCanonical ==
    read \notin {None, Refused} => SerializeCompressed(read) = raw

=============================================================================
