---------------------------- MODULE SigningProofs ---------------------------
(***************************************************************************)
(* For every modulus, window, policy and key: the firewall never refuses   *)
(* what the core accepted, what was issued is accepted by the verifier,    *)
(* and what the verifier accepts is what the core signer signed.           *)
(***************************************************************************)
EXTENDS Signing, TLAPS

-----------------------------------------------------------------------------
(* What reduction, centring and rounding preserve.                         *)

(* Reduction lands in the residues.                                        *)
LEMMA ReducedRange ==
    ASSUME NEW c \in Int
    PROVE  Reduced(c) \in 0..(Q - 1)
  <1>1. Q \in Nat /\ Q > 0
    BY RoundingAssumption
  <1>2. c % Q \in Int /\ 0 <= c % Q /\ c % Q < Q
    BY <1>1
  <1> QED
    BY <1>1, <1>2 DEF Reduced

(* Reduction subtracts a multiple of the modulus.                          *)
LEMMA ReducedShift ==
    ASSUME NEW c \in Int
    PROVE  \E k \in Int : Reduced(c) = c + Q * k
  <1>1. c = Q * (c \div Q) + (c % Q) /\ c \div Q \in Int
    BY RoundingAssumption
  <1>2. -(c \div Q) \in Int /\ Reduced(c) = c + Q * (-(c \div Q))
    BY <1>1, RoundingAssumption DEF Reduced
  <1> QED
    BY <1>2

(* Two residues that differ by a multiple of the modulus are the same.     *)
LEMMA ResiduesApart ==
    ASSUME NEW r \in 0..(Q - 1), NEW s \in 0..(Q - 1), NEW k \in Int, r = s + Q * k
    PROVE  r = s
  <1>1. CASE k = 0
    BY <1>1, RoundingAssumption
  <1>2. CASE k >= 1
    <2>1. Q * k >= Q
      BY <1>2, RoundingAssumption
    <2> QED
      BY <2>1, RoundingAssumption
  <1>3. CASE k <= -1
    <2>1. Q * k <= -Q
      BY <1>3, RoundingAssumption
    <2> QED
      BY <2>1, RoundingAssumption
  <1> QED
    BY <1>1, <1>2, <1>3

(* Numbers that differ by a multiple of the modulus reduce to the same.    *)
LEMMA SameResidue ==
    ASSUME NEW a \in Int, NEW b \in Int, NEW k \in Int, a = b + Q * k
    PROVE  Reduced(a) = Reduced(b)
  <1>1. PICK i \in Int : Reduced(a) = a + Q * i
    BY ReducedShift
  <1>2. PICK j \in Int : Reduced(b) = b + Q * j
    BY ReducedShift
  <1>3. /\ Reduced(a) \in 0..(Q - 1) /\ Reduced(b) \in 0..(Q - 1)
        /\ k + i - j \in Int
    BY ReducedRange
  <1>4. Reduced(a) = Reduced(b) + Q * (k + i - j)
    BY <1>1, <1>2, RoundingAssumption
  <1> QED
    BY <1>3, <1>4, ResiduesApart

(* Reducing twice is reducing once.                                        *)
LEMMA ReducedTwice ==
    ASSUME NEW c \in Int
    PROVE  Reduced(Reduced(c)) = Reduced(c)
  <1>1. PICK k \in Int : Reduced(c) = c + Q * k
    BY ReducedShift
  <1> QED
    BY <1>1, ReducedRange, SameResidue

(* A number within half the modulus survives reduction and centring: what  *)
(* a signature carries modulo Q is the integer the signer computed.        *)
LEMMA CenteredSmall ==
    ASSUME NEW c \in Int, -(Q \div 2) <= c, c <= Q \div 2
    PROVE  Centered(Reduced(c)) = c
  <1>1. Q = 2 * (Q \div 2) + 1 /\ Q \div 2 \in Nat
    BY RoundingAssumption
  <1>2. CASE c >= 0
    <2>1. Reduced(c) = c
      BY <1>1, <1>2, RoundingAssumption, SMTT(20) DEF Reduced
    <2> QED
      BY <2>1, <1>1 DEF Centered
  <1>3. CASE c < 0
    <2>1. c + Q \in 0..(Q - 1) /\ c + Q = c + Q * 1
      BY <1>1, <1>3, RoundingAssumption
    <2>2. Reduced(c + Q) = c + Q
      BY <2>1, RoundingAssumption, SMTT(20) DEF Reduced
    <2>3. Reduced(c) = c + Q
      BY <2>1, <2>2, SameResidue, RoundingAssumption
    <2> QED
      BY <2>2, <2>3, <1>1, <1>3, RoundingAssumption DEF Centered
  <1> QED
    BY <1>2, <1>3

(* The high part looks at the residue only.                                *)
LEMMA HighOfReduced ==
    ASSUME NEW c \in Int
    PROVE  HighBits(Reduced(c)) = HighBits(c)
  BY ReducedTwice DEF HighBits, Decompose

(* The structured signer has no error vector: its hints are zero, and a    *)
(* zero hint reads the high part off the verifier's commitment.            *)
THEOREM NoErrorNoHint ==
    ASSUME NEW r \in Int
    PROVE  MakeHint(0, r) = 0 /\ UseHint(0, r) = HighBits(r)
  <1>1. Reduced(0) = 0
    BY RoundingAssumption DEF Reduced
  <1>2. Reduced(r) + Reduced(0) = Reduced(r)
    BY <1>1, ReducedRange
  <1>3. MakeHint(0, r) = 0
    BY <1>2, HighOfReduced DEF MakeHint
  <1>4. UseHint(0, r) = HighBits(r)
    BY DEF UseHint, HighBits
  <1> QED
    BY <1>3, <1>4

(* A hint is never without effect: it moves a high part to another one.    *)
LEMMA HintMoves ==
    ASSUME NEW r \in Int
    PROVE  UseHint(1, r) # HighBits(r)
  <1> DEFINE m == (Q - 1) \div (2 * Gamma2)
             h == HighBits(r)
  <1>1. m \in Int /\ m >= 2
    <2> DEFINE g == 2 * Gamma2
               u == Q - 1
    <2>1. u \in Nat /\ g \in Nat /\ g > 0 /\ 2 * g <= u
      BY RoundingAssumption, HighPartsAssumption
    <2> HIDE DEF g, u
    <2>2. u \div g \in Int /\ u = g * (u \div g) + (u % g) /\ u % g < g
      BY <2>1
    <2>3. CASE u \div g <= 1
      <3>1. g * (u \div g) <= g
        BY <2>1, <2>2, <2>3
      <3> QED
        BY <2>1, <2>2, <3>1
    <2> QED
      BY <2>2, <2>3 DEF g, u
  <1>2. h \in Int
    <2>1. Reduced(r) \in Int /\ 2 * Gamma2 \in Nat \ {0}
      BY ReducedRange, RoundingAssumption
    <2>2. (Reduced(r) + Gamma2) \div (2 * Gamma2) \in Int
      BY <2>1, RoundingAssumption
    <2> QED
      BY <2>2 DEF HighBits, Decompose
  <1>3. UseHint(1, r) \in {(h + 1) % m, (h - 1 + m) % m}
    BY DEF UseHint, HighBits
  <1> HIDE DEF m, h
  <1>4. ASSUME NEW k \in Int PROVE m * k # 1
    BY <1>1
  <1>5. (h + 1) % m # h
    <2>1. h + 1 = m * ((h + 1) \div m) + ((h + 1) % m) /\ (h + 1) \div m \in Int
      BY <1>1, <1>2
    <2> QED
      BY <1>1, <1>2, <1>4, <2>1
  <1>6. (h - 1 + m) % m # h
    <2>1. h - 1 + m = m * ((h - 1 + m) \div m) + ((h - 1 + m) % m) /\ (h - 1 + m) \div m \in Int
      BY <1>1, <1>2
    <2>2. m * (1 - ((h - 1 + m) \div m)) = m - m * ((h - 1 + m) \div m)
      BY <1>1, <2>1
    <2> QED
      BY <1>1, <1>2, <1>4, <2>1, <2>2
  <1> QED
    BY <1>3, <1>5, <1>6 DEF h

(* A number, its quotient and its remainder.                               *)
LEMMA Division ==
    ASSUME NEW a \in Nat, NEW g \in Nat, g > 0
    PROVE  \E h \in Nat, r \in Nat :
              a \div g = h /\ a % g = r /\ a = g * h + r /\ r < g
  <1>1. a \div g \in Int /\ a = g * (a \div g) + (a % g) /\ a % g < g
    OBVIOUS
  <1>2. a % g \in Nat
    OBVIOUS
  <1>3. a \div g >= 0
    OBVIOUS
  <1>4. a \div g \in Nat
    BY <1>1, <1>3
  <1> QED
    BY <1>1, <1>2, <1>4

(* The high parts that use_hint counts, from 0 up to this number less one. *)
Buckets == (Q - 1) \div (2 * Gamma2)

(* There are several.                                                     *)
LEMMA BucketsFacts == Buckets \in Nat /\ Buckets >= 2
  <1> DEFINE g == 2 * Gamma2
             u == Q - 1
  <1>1. u \in Nat /\ g \in Nat /\ g > 0 /\ 2 * g <= u
    BY RoundingAssumption, HighPartsAssumption
  <1> HIDE DEF g, u
  <1>2. u \div g \in Int /\ u = g * (u \div g) + (u % g) /\ u % g < g
    BY <1>1
  <1>3. CASE u \div g <= 1
    <2>1. g * (u \div g) <= g
      BY <1>1, <1>2, <1>3
    <2> QED
      BY <1>1, <1>2, <2>1
  <1> QED
    BY <1>2, <1>3 DEF g, u, Buckets

(* A residue is its high part times the width of one, and a low part.      *)
LEMMA HighParts ==
    ASSUME NEW r \in 0..(Q - 1)
    PROVE  \E h \in Nat, l \in Int :
              /\ HighBits(r) = h /\ Decompose(r).low = l
              /\ r = h * (2 * Gamma2) + l
              /\ -Gamma2 <= l /\ l < Gamma2
  <1>1. PICK g \in Nat : g = 2 * Gamma2 /\ g > 0
    BY RoundingAssumption
  <1>2. PICK a \in Nat : a = r + Gamma2
    BY RoundingAssumption
  <1>3. PICK h \in Nat, b \in Nat : a \div g = h /\ a = g * h + b /\ b < g
    BY <1>1, Division
  <1>4. PICK p \in Int : p = h * g
    OBVIOUS
  <1>5. p <= a /\ a < p + g
    BY <1>1, <1>3, <1>4
  <1>6. PICK l \in Int : l = r - p
    OBVIOUS
  <1>7. -Gamma2 <= l /\ l < Gamma2 /\ ~ (l > Gamma2)
    BY <1>1, <1>2, <1>5, <1>6, RoundingAssumption
  <1>8. Reduced(r) = r
    BY RoundingAssumption DEF Reduced
  <1>9. Decompose(r) = [high |-> h, low |-> l]
    BY <1>1, <1>2, <1>3, <1>4, <1>6, <1>7, <1>8 DEF Decompose
  <1> QED
    BY <1>1, <1>4, <1>6, <1>7, <1>9 DEF HighBits

(* A number below a modulus is its own residue, with or without a turn.    *)
LEMMA SmallModulo ==
    ASSUME NEW m \in Nat, NEW a \in Nat, a < m
    PROVE  a % m = a /\ (a + m) % m = a
  <1>1. ASSUME NEW x \in Int, NEW k \in {0, 1}, x = k * m + a PROVE x % m = a
    <2>1. PICK q \in Int : q = x \div m
      BY <1>1
    <2>2. PICK r \in Int : r = x % m
      BY <1>1
    <2>3. x = m * q + r /\ 0 <= r /\ r < m
      BY <1>1, <2>1, <2>2
    <2>4. CASE q <= -1
      <3>1. m * q <= -m
        BY <2>1, <2>4
      <3> QED
        BY <1>1, <2>3, <3>1
    <2>5. CASE q = 0
      BY <1>1, <2>2, <2>3, <2>5
    <2>6. CASE q = 1
      BY <1>1, <2>2, <2>3, <2>6
    <2>7. CASE q >= 2
      <3>1. m * q >= 2 * m
        BY <2>1, <2>7
      <3> QED
        BY <1>1, <2>3, <3>1
    <2> QED
      BY <2>1, <2>4, <2>5, <2>6, <2>7
  <1> QED
    BY <1>1

(* A hint made of an error in a commitment gives the high part of the      *)
(* exact commitment from the erroneous one: sign_internal makes it of the  *)
(* commitment v + e, verification uses it at v.  The error is smaller than *)
(* half a high part and the exact commitment is not at the top.            *)
THEOREM HintRecovers ==
    ASSUME NEW v \in 0..(Q - 1), NEW e \in Int, -Gamma2 < e, e < Gamma2,
           v + e \in 0..(Q - 1), HighBits(v + e) < Buckets
    PROVE  UseHint(MakeHint(-e, v + e), v) = HighBits(v + e)
  <1>1. PICK g \in Nat : g = 2 * Gamma2 /\ g > 0
    BY RoundingAssumption
  <1>2. PICK w \in 0..(Q - 1) : w = v + e
    OBVIOUS
  <1>3. PICK h \in Nat, l \in Int : /\ HighBits(v) = h /\ Decompose(v).low = l
                                    /\ v = h * g + l /\ -Gamma2 <= l /\ l < Gamma2
    BY <1>1, HighParts
  <1>4. PICK k \in Nat, j \in Int : /\ HighBits(w) = k
                                    /\ w = k * g + j /\ -Gamma2 <= j /\ j < Gamma2
    BY <1>1, HighParts
  <1>5. PICK d \in Int : d = k - h
    OBVIOUS
  <1>6. d * g = e + l - j
    BY <1>2, <1>3, <1>4, <1>5
  <1>7. (d >= 2 => d * g >= 2 * g) /\ (d >= 1 => d * g >= g)
        /\ (d <= -2 => d * g <= -2 * g) /\ (d <= -1 => d * g <= -g)
    BY <1>1
  <1>8. PICK p \in Int : p = d * g
    OBVIOUS
  <1>9. l > 0 => d \in {0, 1}
    BY <1>1, <1>3, <1>4, <1>6, <1>7, <1>8, RoundingAssumption
  <1>10. l <= 0 => d \in {0, -1}
    BY <1>1, <1>3, <1>4, <1>6, <1>7, <1>8, RoundingAssumption
  <1>11. MakeHint(-e, w) = IF k = h THEN 0 ELSE 1
    <2>1. Reduced(Reduced(w) + Reduced(-e)) = Reduced(v)
      <3>1. PICK a \in Int : Reduced(w) = w + Q * a
        BY ReducedShift
      <3>2. PICK b \in Int : Reduced(-e) = -e + Q * b
        BY ReducedShift
      <3>3. Reduced(w) + Reduced(-e) = v + Q * (a + b)
        BY <1>2, <3>1, <3>2, RoundingAssumption
      <3>4. Reduced(w) + Reduced(-e) \in Int /\ a + b \in Int
        BY <3>1, <3>2, RoundingAssumption
      <3> QED
        BY <3>3, <3>4, SameResidue
    <2>2. Reduced(w) + Reduced(-e) \in Int
      BY ReducedRange
    <2>3. HighBits(Reduced(w) + Reduced(-e)) = HighBits(v)
      BY <2>1, <2>2, HighOfReduced
    <2> QED
      BY <1>3, <1>4, <2>3 DEF MakeHint
  <1>12. CASE k = h
    BY <1>2, <1>3, <1>4, <1>11, <1>12 DEF UseHint, HighBits
  <1>13. CASE k # h
    <2>1. PICK m \in Nat : m = Buckets /\ k < m
      BY <1>2, <1>4, BucketsFacts
    <2>2. UseHint(1, v) = IF l > 0 THEN (h + 1) % m ELSE (h - 1 + m) % m
      BY <1>3, <2>1 DEF UseHint, HighBits, Buckets
    <2>3. CASE l > 0
      <3>1. h + 1 = k
        BY <1>5, <1>9, <1>13, <2>3
      <3> QED
        BY <1>2, <1>4, <1>11, <1>13, <2>1, <2>2, <2>3, <3>1, SmallModulo
    <2>4. CASE ~ (l > 0)
      <3>1. h - 1 = k
        BY <1>5, <1>10, <1>13, <2>4
      <3> QED
        BY <1>2, <1>4, <1>11, <1>13, <2>1, <2>2, <2>4, <3>1, SmallModulo
    <2> QED
      BY <2>3, <2>4
  <1> QED
    BY <1>12, <1>13

(* decompose does have a high part at the top, where use_hint wraps        *)
(* (mlwe.rs:418): no hint ever leads to it.                                *)
THEOREM HintMissesTheTop ==
    /\ (Q - 1) % (2 * Gamma2) = 0 => HighBits(Q - 1) = Buckets
    /\ \A v, w \in 0..(Q - 1) :
          HighBits(w) >= Buckets /\ HighBits(v) # HighBits(w)
              => UseHint(MakeHint(v - w, w), v) # HighBits(w)
  <1>1. ASSUME (Q - 1) % (2 * Gamma2) = 0 PROVE HighBits(Q - 1) = Buckets
    <2>1. PICK g \in Nat : g = 2 * Gamma2 /\ g > 0
      BY RoundingAssumption
    <2>2. PICK u \in Nat : u = Q - 1
      BY RoundingAssumption
    <2>3. PICK m \in Nat : m = Buckets
      BY BucketsFacts
    <2>4. u = g * m
      <3>1. PICK h \in Nat, r \in Nat :
                  u \div g = h /\ u % g = r /\ u = g * h + r /\ r < g
        BY <2>1, <2>2, Division
      <3>2. u \div g = m /\ u % g = 0
        BY <1>1, <2>1, <2>2, <2>3 DEF Buckets
      <3> QED
        BY <3>1, <3>2
    <2>5. u \in 0..(Q - 1)
      BY <2>2
    <2>6. PICK h \in Nat, l \in Int : /\ HighBits(u) = h
                                      /\ u = h * g + l /\ -Gamma2 <= l /\ l < Gamma2
      BY <2>1, <2>5, HighParts
    <2>7. PICK d \in Int : d = m - h
      OBVIOUS
    <2>8. d * g = l
      BY <2>4, <2>6, <2>7
    <2>9. (d >= 1 => d * g >= g) /\ (d <= -1 => d * g <= -g)
      BY <2>1
    <2>10. d = 0
      BY <2>1, <2>6, <2>8, <2>9, RoundingAssumption
    <2> QED
      BY <2>2, <2>3, <2>6, <2>7, <2>10
  <1>2. ASSUME NEW v \in 0..(Q - 1), NEW w \in 0..(Q - 1),
               HighBits(w) >= Buckets, HighBits(v) # HighBits(w)
        PROVE  UseHint(MakeHint(v - w, w), v) # HighBits(w)
    <2>1. MakeHint(v - w, w) \in {0, 1}
      BY DEF MakeHint
    <2>2. UseHint(0, v) # HighBits(w)
      BY <1>2 DEF UseHint, HighBits
    <2>3. UseHint(1, v) < Buckets
      <3>1. PICK m \in Nat : m = Buckets /\ m > 0
        BY BucketsFacts
      <3>2. PICK h \in Nat : HighBits(v) = h
        BY HighParts
      <3>3. (h + 1) % m < m /\ (h - 1 + m) % m < m
        BY <3>1
      <3>4. UseHint(1, v) \in {(h + 1) % m, (h - 1 + m) % m}
        BY <3>1, <3>2 DEF UseHint, HighBits, Buckets
      <3> QED
        BY <3>1, <3>3, <3>4
    <2>4. UseHint(1, v) # HighBits(w)
      <3>1. PICK a \in Int : a = UseHint(1, v)
        <4>1. PICK m \in Nat : m = Buckets /\ m > 0
          BY BucketsFacts
        <4>2. PICK h \in Nat : HighBits(v) = h
          BY HighParts
        <4>3. (h + 1) % m \in Int /\ (h - 1 + m) % m \in Int
          BY <4>1
        <4>4. UseHint(1, v) \in {(h + 1) % m, (h - 1 + m) % m}
          BY <4>1, <4>2 DEF UseHint, HighBits, Buckets
        <4> QED
          BY <4>3, <4>4
      <3>2. PICK b \in Nat : b = HighBits(w)
        BY HighParts
      <3> QED
        BY <1>2, <2>3, <3>1, <3>2, BucketsFacts
    <2> QED
      BY <2>1, <2>2, <2>4
  <1> QED
    BY <1>1, <1>2

(* The commitment recomputed from the response y + c w + r, the target a w *)
(* and the correction a r.                                                 *)
Recomputed(a, y, c, w, r) ==
    Reduced(Reduced(a * Reduced(y + c * w + r) - c * Reduced(a * w)) - Reduced(a * r))

(* The verifier's commitment is the signer's: the response z + r, the      *)
(* challenge times the target and the correction cancel to the nonce.      *)
THEOREM CommitmentCancels ==
    ASSUME NEW a \in Int, NEW y \in Int, NEW c \in Int, NEW w \in Int, NEW r \in Int
    PROVE  Recomputed(a, y, c, w, r) = Reduced(a * y)
  <1>0. a * w \in Int /\ a * r \in Int /\ a * y \in Int /\ c * w \in Int
    OBVIOUS
  <1>1. PICK i \in Int : Reduced(y + c * w + r) = y + c * w + r + Q * i
    BY <1>0, ReducedShift
  <1>2. PICK j \in Int : Reduced(a * w) = a * w + Q * j
    BY <1>0, ReducedShift
  <1>3. PICK k \in Int : Reduced(a * r) = a * r + Q * k
    BY <1>0, ReducedShift
  <1> DEFINE left == a * Reduced(y + c * w + r) - c * Reduced(a * w)
  <1>4. left = a * (y + c * w + r + Q * i) - c * (a * w + Q * j)
    BY <1>1, <1>2
  <1>5. left \in Int
    BY <1>4, <1>0, RoundingAssumption
  <1>6. PICK l \in Int : Reduced(left) = left + Q * l
    BY <1>5, ReducedShift
  <1>7. left = a * y + a * r + Q * (a * i - c * j)
    <2>1. a * (y + c * w + r + Q * i) = a * y + a * (c * w) + a * r + a * (Q * i)
      BY <1>0, RoundingAssumption
    <2>2. c * (a * w + Q * j) = c * (a * w) + c * (Q * j)
      BY <1>0, RoundingAssumption
    <2>3. a * (c * w) = c * (a * w)
      OBVIOUS
    <2>4. a * (Q * i) - c * (Q * j) = Q * (a * i - c * j)
      BY RoundingAssumption
    <2> QED
      BY <1>4, <2>1, <2>2, <2>3, <2>4, <1>0, RoundingAssumption
  <1>8. /\ Reduced(left) - Reduced(a * r) = a * y + Q * (a * i - c * j + l - k)
        /\ a * i - c * j + l - k \in Int
        /\ Reduced(left) - Reduced(a * r) \in Int
    <2>1. a * i \in Int /\ c * j \in Int /\ Q * l \in Int /\ Q * k \in Int /\ Q * (a * i - c * j) \in Int
      BY RoundingAssumption
    <2>2. Q * (a * i - c * j + l - k) = Q * (a * i - c * j) + Q * l - Q * k
      BY <2>1, RoundingAssumption
    <2> QED
      BY <2>1, <2>2, <1>0, <1>3, <1>5, <1>6, <1>7
  <1> QED
    BY <1>0, <1>8, SameResidue DEF Recomputed

-----------------------------------------------------------------------------
(* The inductive invariant.                                                *)

Jobs == [user : Users, message : Messages, policy : Policies, tau : Tags]

SigFields == Fields \cup {"tag"}

Counters ==
    /\ phase \in {"idle", "precommit", "core", "finalize", "signed", "failed"}
    /\ attempt = 0
    /\ tries \in 0..MaxTries
    /\ phase \in {"precommit", "core"} => tries < MaxTries

MaskMade == mask \in -Eta2..Eta2 /\ delta = Reduced(A * mask)

JobMade == phase # "idle" => job \in Jobs

(* The core signature answers its own challenge and left room for a mask.  *)
CoreMade ==
    phase \in {"finalize", "signed"} =>
        /\ CanSign(job.policy, job.user)
        /\ \E y \in -YBound..YBound :
              core = CoreSignature(job, delta, y) /\ Accepts(Response(job, delta, y))

(* A signature keeps the tag it was issued with, whatever else changes.    *)
SigMade ==
    phase = "signed" =>
        /\ sig = [x \in SigFields |-> sig[x]]
        /\ sig.tag.challenge = core.challenge
        /\ sig.delta \in 0..(Q - 1)
        /\ damaged # "z" => Abs(Centered(sig.z)) < ZBound
        /\ damaged = None =>
              \E r \in -Eta2..Eta2 : \E pk : \E tau :
                  Abs(Masked(r)) < ZBound /\ sig = Finalized(r, pk, tau)

DamageMade == damaged \in Fields \cup {None} /\ (phase # "signed" => damaged = None)

AnswerMade ==
    answer # None =>
        /\ phase = "signed"
        /\ answer.policy \in Policies
        /\ answer.form \in {"struct", "compact"}
        /\ answer.verdict = IF answer.form = "struct" THEN VerifyStruct(sig, answer.message, answer.policy)
                            ELSE VerifyCompact(Compress(sig), answer.message, answer.policy)

IInv == Counters /\ MaskMade /\ JobMade /\ CoreMade /\ SigMade /\ DamageMade /\ AnswerMade

-----------------------------------------------------------------------------
(* Windows, targets and challenges.                                        *)

(* The windows are nested, and all of them fit in half the modulus.        *)
LEMMA Windows ==
    /\ Q \in Nat /\ A \in Int /\ Eta2 \in Nat /\ ZBound \in Int /\ YBound \in Nat
    /\ 0 <= Eta2 /\ Eta2 < ZBound /\ ZBound <= Gamma1
    /\ Gamma1 \in Nat /\ Gamma1 < Q \div 2 /\ Q \div 2 \in Nat
    /\ PackedWidth \in Nat /\ PackedWidth >= 2 * Gamma1
    /\ MaxTries \in Nat /\ MaxTries > 0
  <1>1. Q \div 2 \in Nat
    BY RoundingAssumption
  <1>2. ZBound \in Int /\ ZBound <= Gamma1
    BY WindowAssumption DEF ZBound
  <1>3. YBound \in Nat
    <2>1. ZBound \div 2 \in Int
      BY <1>2
    <2> QED
      BY <2>1 DEF YBound, Larger
  <1> QED
    BY <1>1, <1>2, <1>3, WindowAssumption, RoundingAssumption

(* A response the core accepts leaves Eta2 of the window.                  *)
LEMMA AcceptsLeavesRoom ==
    ASSUME NEW z \in Int
    PROVE  Accepts(z) <=> -(ZBound - Eta2) < z /\ z < ZBound - Eta2
  BY Windows DEF Accepts, Larger, Abs

(* A number within the window survives reduction and centring.             *)
LEMMA InWindow ==
    ASSUME NEW z \in Int, Abs(z) < ZBound
    PROVE  Centered(Reduced(z)) = z
  BY Windows, CenteredSmall DEF Abs

(* A residue is its own reduction.                                         *)
LEMMA ReducedOfResidue ==
    ASSUME NEW c \in 0..(Q - 1)
    PROVE  Reduced(c) = c
  BY RoundingAssumption, SMTT(20) DEF Reduced

(* Replacing attributes by those that own a row leaves the rows alone.     *)
LEMMA SameRows ==
    ASSUME NEW p, NEW attrs
    PROVE  Rows(p, UsedAttributes(p, attrs)) = Rows(p, attrs)
  BY DEF Rows, UsedAttributes

(* The target the signer hashes is A times its witness.                    *)
LEMMA SignerTargetIs ==
    ASSUME NEW j \in Jobs, CanSign(j.policy, j.user)
    PROVE  /\ Witness(j.policy, j.user) \in Int
           /\ SignerTarget(j) = Reduced(A * Witness(j.policy, j.user))
           /\ SignerTarget(j) \in 0..(Q - 1)
  <1>1. j.policy \in Policies /\ j.user \in Users
    BY DEF Jobs
  <1>2. SignerTarget(j) = PolicyTarget(j.policy, Holds[j.user], j.user)
    BY SameRows DEF SignerTarget, PolicyTarget
  <1>3. /\ Witness(j.policy, j.user) \in Int
        /\ SignerTarget(j) = Reduced(A * Witness(j.policy, j.user))
    BY <1>1, <1>2, KeyAssumption
  <1>4. A * Witness(j.policy, j.user) \in Int
    BY <1>3, Windows
  <1> QED
    BY <1>3, <1>4, ReducedRange

(* A challenge is plus or minus one, so a response is a whole number.      *)
LEMMA ResponseIs ==
    ASSUME NEW j \in Jobs, CanSign(j.policy, j.user), NEW d \in 0..(Q - 1), NEW y \in -YBound..YBound
    PROVE  /\ SignerChallenge(j, d, y).coeff \in Int
           /\ Response(j, d, y) \in Int
  <1> DEFINE query == [w1 |-> HighBits(Reduced(A * y)), tr |-> SignerTarget(j), message |-> j.message,
                       context |-> Context(Digest[j.policy], j.tau, j.user), delta |-> d]
  <1>1. y \in Int /\ Reduced(A * y) \in 0..(Q - 1)
    BY Windows, ReducedRange
  <1>2. query.w1 \in {HighBits(w) : w \in 0..(Q - 1)}
    BY <1>1
  <1>3. query.context \in {Digest[p] : p \in Policies} \X Tags \X Users
    BY DEF Context, Jobs
  <1>4. query \in Queries
    BY <1>2, <1>3, SignerTargetIs DEF Queries, Jobs
  <1>5. SignerChallenge(j, d, y).coeff = Coefficient(query)
    BY DEF SignerChallenge, Challenge
  <1>6. SignerChallenge(j, d, y).coeff \in Int
    BY <1>4, <1>5, CoefficientAssumption
  <1> QED
    BY <1>1, <1>6, SignerTargetIs DEF Response

(* In the states where a core signature exists, its response and the room  *)
(* it leaves for every mask.                                               *)
LEMMA CoreResponse ==
    ASSUME IInv, phase \in {"finalize", "signed"}
    PROVE  \E y \in -YBound..YBound :
              /\ core = CoreSignature(job, delta, y)
              /\ Centered(core.z) = Response(job, delta, y)
              /\ Response(job, delta, y) \in Int
              /\ Accepts(Response(job, delta, y))
  <1>1. PICK y \in -YBound..YBound :
           core = CoreSignature(job, delta, y) /\ Accepts(Response(job, delta, y))
    BY DEF IInv, CoreMade
  <1>2. job \in Jobs /\ CanSign(job.policy, job.user)
    BY DEF IInv, JobMade, CoreMade
  <1>3. delta \in 0..(Q - 1)
    <2>1. A * mask \in Int
      BY Windows DEF IInv, MaskMade
    <2> QED
      BY <2>1, ReducedRange DEF IInv, MaskMade
  <1>4. Response(job, delta, y) \in Int
    BY <1>2, <1>3, ResponseIs
  <1>5. Abs(Response(job, delta, y)) < ZBound
    BY <1>1, <1>4, AcceptsLeavesRoom, Windows DEF Abs
  <1>6. core.z = Reduced(Response(job, delta, y))
    BY <1>1 DEF CoreSignature
  <1>7. Centered(core.z) = Response(job, delta, y)
    BY <1>4, <1>5, <1>6, InWindow
  <1> QED
    BY <1>1, <1>4, <1>7

(* Every mask fits in the room the core left.                              *)
LEMMA MaskFits ==
    ASSUME IInv, phase \in {"finalize", "signed"}, NEW r \in -Eta2..Eta2
    PROVE  Masked(r) \in Int /\ Abs(Masked(r)) < ZBound
  <1>1. PICK z \in Int : Centered(core.z) = z /\ Accepts(z)
    BY CoreResponse
  <1>2. Masked(r) = z + r
    BY <1>1 DEF Masked
  <1>3. Masked(r) \in Int
    BY <1>1, <1>2, Windows
  <1>4. -(ZBound - Eta2) < z /\ z < ZBound - Eta2
    BY <1>1, AcceptsLeavesRoom
  <1> QED
    BY <1>1, <1>2, <1>3, <1>4, Windows DEF Abs

-----------------------------------------------------------------------------
(* The invariant holds initially and every action preserves it.            *)

(* Nothing is signed initially.                                            *)
LEMMA InitIInv == Init => IInv
  <1> SUFFICES ASSUME Init PROVE IInv
    OBVIOUS
  <1>1. Reduced(A * 0) = 0
    BY Windows, RoundingAssumption DEF Reduced
  <1>2. Counters
    BY Windows DEF Init, Counters
  <1>3. MaskMade
    BY <1>1, Windows DEF Init, MaskMade
  <1>4. JobMade /\ CoreMade /\ SigMade /\ DamageMade /\ AnswerMade
    BY DEF Init, JobMade, CoreMade, SigMade, DamageMade, AnswerMade
  <1> QED
    BY <1>2, <1>3, <1>4 DEF IInv

(* A call that starts forgets all that went before.                        *)
LEMMA StartStep ==
    ASSUME IInv, NEW u \in Users, NEW m \in Messages, NEW p \in Policies, NEW tau \in Tags,
           Start(u, m, p, tau)
    PROVE  IInv'
  <1>1. Reduced(A * 0) = 0
    BY Windows, RoundingAssumption DEF Reduced
  <1>2. Counters'
    BY Windows DEF Start, Counters, IInv
  <1>3. MaskMade'
    BY <1>1, Windows DEF Start, MaskMade
  <1>4. JobMade'
    BY DEF Start, JobMade, Jobs
  <1>5. CoreMade' /\ SigMade' /\ DamageMade' /\ AnswerMade'
    BY DEF Start, CoreMade, SigMade, DamageMade, AnswerMade
  <1> QED
    BY <1>2, <1>3, <1>4, <1>5 DEF IInv

(* A precommitment draws a short mask and its correction.                  *)
LEMMA PrecommitStep == IInv /\ Precommit => IInv'
  <1> SUFFICES ASSUME IInv, Precommit PROVE IInv'
    OBVIOUS
  <1>1. Counters'
    BY DEF Precommit, Counters, IInv
  <1>2. MaskMade'
    BY DEF Precommit, MaskMade
  <1>3. JobMade' /\ CoreMade' /\ SigMade'
    BY DEF Precommit, JobMade, CoreMade, SigMade, IInv
  <1>4. DamageMade' /\ AnswerMade'
    BY DEF Precommit, DamageMade, AnswerMade, IInv
  <1> QED
    BY <1>1, <1>2, <1>3, <1>4 DEF IInv

(* A refusal ends the call.                                                *)
LEMMA CoreRefuseStep == IInv /\ CoreRefuse => IInv'
  <1> SUFFICES ASSUME IInv, CoreRefuse PROVE IInv'
    OBVIOUS
  <1>1. Counters' /\ MaskMade'
    BY DEF CoreRefuse, Counters, MaskMade, IInv
  <1>2. JobMade' /\ CoreMade' /\ SigMade' /\ DamageMade' /\ AnswerMade'
    BY DEF CoreRefuse, JobMade, CoreMade, SigMade, DamageMade, AnswerMade, IInv
  <1> QED
    BY <1>1, <1>2 DEF IInv

(* A nonce is accepted, and its signature leaves room for a mask, or it is *)
(* rejected and counted.                                                   *)
LEMMA CoreTryStep == IInv /\ CoreTry => IInv'
  <1> SUFFICES ASSUME IInv, CoreTry PROVE IInv'
    OBVIOUS
  <1>1. MaskMade' /\ JobMade' /\ DamageMade' /\ AnswerMade'
    BY DEF CoreTry, MaskMade, JobMade, DamageMade, AnswerMade, IInv
  <1>2. PICK y \in -YBound..YBound :
           \/ /\ Accepts(Response(job, delta, y))
              /\ core' = CoreSignature(job, delta, y)
              /\ phase' = "finalize"
              /\ UNCHANGED tries
           \/ /\ ~Accepts(Response(job, delta, y))
              /\ tries' = tries + 1
              /\ phase' = IF tries' = MaxTries THEN "failed" ELSE phase
              /\ UNCHANGED core
    BY DEF CoreTry
  <1>3. Counters'
    BY <1>2, Windows DEF CoreTry, Counters, IInv
  <1>4. CoreMade'
    <2>1. job' = job /\ delta' = delta /\ CanSign(job.policy, job.user)
      BY DEF CoreTry
    <2>2. CASE phase' = "finalize"
      BY <1>2, <2>1, <2>2 DEF CoreMade, CoreTry
    <2>3. CASE phase' # "finalize"
      BY <1>2, <2>3 DEF CoreMade, CoreTry
    <2> QED
      BY <2>2, <2>3
  <1>5. SigMade'
    BY <1>2 DEF SigMade, CoreTry
  <1> QED
    BY <1>1, <1>3, <1>4, <1>5 DEF IInv

(* What finalization makes of a core signature: a record with the core's   *)
(* challenge and its response masked, whose tag is computed from itself.   *)
LEMMA FinalizedIs ==
    ASSUME NEW r, NEW pk, NEW tau, NEW s, s = Finalized(r, pk, tau)
    PROVE  /\ s = [x \in SigFields |-> s[x]]
           /\ s.z = Reduced(Masked(r)) /\ s.challenge = core.challenge /\ s.hint = core.hint
           /\ s.policy = core.policy /\ s.message = core.message /\ s.used = core.used
           /\ s.digest = core.digest /\ s.delta = Reduced(A * r) /\ s.pk = pk /\ s.tau = tau
           /\ s.gid = core.gid /\ s.tag = FirewallTag(s)
           /\ s.tag.challenge = core.challenge
  <1> DEFINE body == [z |-> Reduced(Masked(r)), challenge |-> core.challenge, hint |-> core.hint,
                      policy |-> core.policy, message |-> core.message, used |-> core.used,
                      digest |-> core.digest, delta |-> Reduced(A * r), pk |-> pk, tau |-> tau,
                      gid |-> core.gid, tag |-> None]
  <1>1. s = [body EXCEPT !.tag = FirewallTag(body)]
    BY DEF Finalized
  <1>2. s = [x \in SigFields |-> s[x]]
    BY <1>1 DEF SigFields, Fields
  <1>3. /\ s.z = body.z /\ s.challenge = body.challenge /\ s.hint = body.hint
        /\ s.policy = body.policy /\ s.message = body.message /\ s.used = body.used
        /\ s.digest = body.digest /\ s.delta = body.delta /\ s.pk = body.pk /\ s.tau = body.tau
        /\ s.gid = body.gid /\ s.tag = FirewallTag(body)
    BY <1>1
  <1>4. FirewallTag(body) = FirewallTag(s)
    BY <1>3 DEF FirewallTag
  <1>5. FirewallTag(s).challenge = s.challenge
    BY DEF FirewallTag
  <1> QED
    BY <1>2, <1>3, <1>4, <1>5

(* A signature finalized within the window is as the invariant has it.     *)
LEMMA FinalizedMade ==
    ASSUME IInv, phase = "finalize", NEW r \in -Eta2..Eta2, NEW pk, NEW tau, NEW s,
           s = Finalized(r, pk, tau)
    PROVE  /\ s = [x \in SigFields |-> s[x]]
           /\ s.tag.challenge = core.challenge
           /\ s.delta \in 0..(Q - 1)
           /\ Abs(Centered(s.z)) < ZBound
           /\ Abs(Masked(r)) < ZBound
  <1>1. A * r \in Int
    BY Windows
  <1>2. s.delta \in 0..(Q - 1)
    BY <1>1, FinalizedIs, ReducedRange
  <1>3. Centered(s.z) = Masked(r) /\ Abs(Masked(r)) < ZBound
    BY MaskFits, InWindow, FinalizedIs
  <1> QED
    BY <1>2, <1>3, FinalizedIs

(* A finalized signature, however the firewall was driven.                 *)
LEMMA SignedStep ==
    ASSUME IInv, phase = "finalize", NEW r \in -Eta2..Eta2, NEW pk, NEW tau,
           sig' = Finalized(r, pk, tau), phase' = "signed",
           UNCHANGED <<job, attempt, tries, mask, delta, core, damaged, answer>>
    PROVE  IInv'
  <1>1. Counters' /\ MaskMade' /\ JobMade'
    BY DEF Counters, MaskMade, JobMade, IInv
  <1>2. CoreMade'
    <2>1. PICK y \in -YBound..YBound :
             core = CoreSignature(job, delta, y) /\ Accepts(Response(job, delta, y))
      BY DEF IInv, CoreMade
    <2>2. CanSign(job.policy, job.user) /\ core' = core /\ job' = job /\ delta' = delta
      BY DEF IInv, CoreMade
    <2> QED
      BY <2>1, <2>2 DEF CoreMade
  <1>3. SigMade'
    <2>1. PICK s : s = Finalized(r, pk, tau)
      OBVIOUS
    <2>2. sig' = s /\ core' = core
      BY <2>1
    <2>3. /\ s = [x \in SigFields |-> s[x]]
          /\ s.tag.challenge = core.challenge
          /\ s.delta \in 0..(Q - 1)
          /\ Abs(Centered(s.z)) < ZBound
          /\ Abs(Masked(r)) < ZBound
      BY <2>1, FinalizedMade
    <2>4. Masked(r)' = Masked(r) /\ Finalized(r, pk, tau)' = Finalized(r, pk, tau)
      BY <2>2 DEF Masked, Finalized
    <2>5. \E q \in -Eta2..Eta2 : \E k : \E t :
             Abs(Masked(q)') < ZBound /\ sig' = Finalized(q, k, t)'
      BY <2>1, <2>2, <2>3, <2>4
    <2> QED
      BY <2>2, <2>3, <2>5 DEF SigMade
  <1>4. DamageMade' /\ AnswerMade'
    BY DEF DamageMade, AnswerMade, IInv
  <1> QED
    BY <1>1, <1>2, <1>3, <1>4 DEF IInv

(* The refusal branch of finalization is never taken.                      *)
LEMMA FinalizeStep == IInv /\ Finalize => IInv'
  <1> SUFFICES ASSUME IInv, Finalize PROVE IInv'
    OBVIOUS
  <1>1. phase = "finalize" /\ mask \in -Eta2..Eta2
    BY DEF Finalize, IInv, MaskMade
  <1>2. Abs(Masked(mask)) < ZBound
    BY <1>1, MaskFits
  <1>3. /\ sig' = Finalized(mask, core.pk, job.tau) /\ phase' = "signed"
        /\ UNCHANGED <<job, attempt, tries, mask, delta, core, damaged, answer>>
    BY <1>2 DEF Finalize
  <1> QED
    BY <1>1, <1>3, SignedStep

(* Driving the firewall by hand changes what is signed, not the windows.   *)
LEMMA FinalizeByHandStep ==
    ASSUME IInv, NEW r \in -Eta2..Eta2, NEW pk \in Targets, NEW tau \in Tags,
           FinalizeByHand(r, pk, tau)
    PROVE  IInv'
  BY SignedStep DEF FinalizeByHand

(* A correction found in another signature is a residue too.               *)
LEMMA OtherDelta ==
    ASSUME NEW v \in Others("delta")
    PROVE  v \in 0..(Q - 1)
  <1>1. PICK r \in -Gamma1..Gamma1 : v = Reduced(A * r)
    BY DEF Others
  <1>2. A * r \in Int
    BY Windows
  <1> QED
    BY <1>1, <1>2, ReducedRange

(* Damage touches one field and never the tag.                             *)
LEMMA DamageStep ==
    ASSUME IInv, NEW field \in Fields, Damage(field)
    PROVE  IInv'
  <1>1. Counters' /\ MaskMade' /\ JobMade'
    BY DEF Damage, Counters, MaskMade, JobMade, IInv
  <1>2. CoreMade'
    <2>1. PICK y \in -YBound..YBound :
             core = CoreSignature(job, delta, y) /\ Accepts(Response(job, delta, y))
      BY DEF IInv, CoreMade, Damage
    <2>2. CanSign(job.policy, job.user) /\ core' = core /\ job' = job /\ delta' = delta
      BY DEF IInv, CoreMade, Damage
    <2> QED
      BY <2>1, <2>2 DEF CoreMade
  <1>3. SigMade'
    <2>1. PICK v \in Others(field) : sig' = [sig EXCEPT ![field] = v]
      BY DEF Damage
    <2>2. /\ sig = [x \in SigFields |-> sig[x]] /\ sig.tag.challenge = core.challenge
          /\ sig.delta \in 0..(Q - 1)
          /\ damaged # "z" => Abs(Centered(sig.z)) < ZBound
          /\ damaged = None
      BY DEF IInv, SigMade, Damage
    <2>3. /\ field # "tag" /\ field \in SigFields
          /\ {"tag", "delta", "z"} \subseteq SigFields
      BY DEF SigFields, Fields
    <2>4. sig' = [x \in SigFields |-> IF x = field THEN v ELSE sig[x]]
      BY <2>1, <2>2
    <2>5. sig' = [x \in SigFields |-> sig'[x]] /\ sig'["tag"] = sig["tag"]
      BY <2>3, <2>4
    <2>6. sig'["delta"] \in 0..(Q - 1)
      <3>1. CASE field = "delta"
        BY <2>1, <2>3, <2>4, <3>1, OtherDelta
      <3>2. CASE field # "delta"
        BY <2>2, <2>3, <2>4, <3>2
      <3> QED
        BY <3>1, <3>2
    <2>7. field # "z" => sig'["z"] = sig["z"]
      BY <2>3, <2>4
    <2>8. "z" # None
      BY NoneAssumption DEF Fields
    <2>9. damaged' = field /\ damaged' # None /\ core' = core
      BY NoneAssumption DEF Damage
    <2> QED
      BY <2>2, <2>5, <2>6, <2>7, <2>8, <2>9 DEF SigMade
  <1>4. DamageMade' /\ AnswerMade'
    BY DEF Damage, DamageMade, AnswerMade, IInv
  <1> QED
    BY <1>1, <1>2, <1>3, <1>4 DEF IInv

(* Verifying changes nothing but the answer.                               *)
LEMMA VerifyStep ==
    ASSUME IInv, NEW m \in Messages, NEW p \in Policies, Verify(m, p)
    PROVE  IInv'
  <1>1. UNCHANGED <<phase, job, attempt, tries, mask, delta, core, sig, damaged>>
    BY DEF Verify
  <1>2. Counters' /\ MaskMade' /\ JobMade' /\ DamageMade'
    BY <1>1 DEF Counters, MaskMade, JobMade, DamageMade, IInv
  <1>3. CoreMade' /\ SigMade'
    <2>1. CoreMade'
      BY <1>1 DEF CoreMade, IInv
    <2>2. SigMade'
      <3>1. /\ \A r : Masked(r)' = Masked(r)
            /\ \A r, pk, tau : Finalized(r, pk, tau)' = Finalized(r, pk, tau)
        BY <1>1 DEF Masked, Finalized
      <3> QED
        BY <1>1, <3>1 DEF SigMade, IInv
    <2> QED
      BY <2>1, <2>2
  <1>4. AnswerMade'
    <2>1. PICK form \in {"struct", "compact"} :
             answer' = [form |-> form, message |-> m, policy |-> p,
                        verdict |-> IF form = "struct" THEN VerifyStruct(sig, m, p)
                                    ELSE VerifyCompact(Compress(sig), m, p)]
      BY DEF Verify
    <2>2. phase' = "signed" /\ sig' = sig
      BY DEF Verify
    <2>3. /\ answer'["form"] = form /\ answer'["message"] = m /\ answer'["policy"] = p
          /\ answer'["verdict"] = IF form = "struct" THEN VerifyStruct(sig, m, p)
                                  ELSE VerifyCompact(Compress(sig), m, p)
      BY <2>1
    <2> QED
      BY <2>2, <2>3 DEF AnswerMade
  <1> QED
    BY <1>2, <1>3, <1>4 DEF IInv

(* A step that changes nothing.                                            *)
LEMMA StutterStep == IInv /\ UNCHANGED vars => IInv'
  <1> SUFFICES ASSUME IInv, UNCHANGED vars PROVE IInv'
    OBVIOUS
  <1>1. Counters' /\ MaskMade' /\ JobMade' /\ DamageMade'
    BY DEF vars, Counters, MaskMade, JobMade, DamageMade, IInv
  <1>2. CoreMade' /\ SigMade'
    <2>1. CoreMade'
      BY DEF vars, CoreMade, IInv
    <2>2. SigMade'
      <3>1. /\ \A r : Masked(r)' = Masked(r)
            /\ \A r, pk, tau : Finalized(r, pk, tau)' = Finalized(r, pk, tau)
        BY DEF vars, Masked, Finalized
      <3> QED
        BY <3>1 DEF vars, SigMade, IInv
    <2> QED
      BY <2>1, <2>2
  <1>3. AnswerMade'
    BY DEF vars, AnswerMade, IInv
  <1> QED
    BY <1>1, <1>2, <1>3 DEF IInv

(* The invariant is inductive: src/src/sign.rs 73-115 with all it calls.   *)
THEOREM Invariance == Spec => []IInv
  <1>1. Init => IInv
    BY InitIInv
  <1>2. IInv /\ [Next]_vars => IInv'
    BY StartStep, PrecommitStep, CoreRefuseStep, CoreTryStep, FinalizeStep, FinalizeByHandStep,
       DamageStep, VerifyStep, StutterStep DEF Next
  <1> QED
    BY <1>1, <1>2, PTL DEF Spec

-----------------------------------------------------------------------------
(* What follows from the invariant.                                        *)

(* Responses stay in the windows their stage accepts (mlwe.rs 1080-1184,   *)
(* firewall/mod.rs 104-125) and counters within the retries allowed.       *)
THEOREM TypeCorrect == Spec => []TypeOK
  <1>1. IInv => TypeOK
    <2> SUFFICES ASSUME IInv PROVE TypeOK
      OBVIOUS
    <2>1. attempt \in 0..MaxAttempts
      BY WindowAssumption DEF IInv, Counters
    <2>2. phase = "finalize" => Accepts(Centered(core.z))
      BY CoreResponse
    <2>3. phase = "signed" /\ damaged # "z" => Abs(Centered(sig.z)) < ZBound
      BY DEF IInv, SigMade
    <2> QED
      BY <2>1, <2>2, <2>3 DEF TypeOK, IInv, Counters, MaskMade, DamageMade
  <1> QED
    BY <1>1, Invariance, PTL

(* The bound sign_internal rejects at leaves room for every mask of        *)
(* precommit: finalize_precommitted never refuses what the core accepted.  *)
THEOREM FirewallAcceptsCore == Spec => []FirewallNeverRefuses
  <1>1. IInv => FirewallNeverRefuses
    BY DEF IInv, Counters, FirewallNeverRefuses
  <1> QED
    BY <1>1, Invariance, PTL

(* What the verifier recomputes before it accepts.                         *)
LEMMA AcceptedMeans ==
    ASSUME NEW s, NEW m, NEW p, VerifyStruct(s, m, p) = "accepted"
    PROVE  /\ s.tag.challenge = s.challenge
           /\ s.digest = Digest[p]
           /\ s.challenge.of.message = m
           /\ s.challenge.of.context = <<s.digest, s.tau, s.gid>>
           /\ s.challenge.of.delta = s.delta
           /\ s.challenge.of.tr = s.pk
  <1> DEFINE target == PolicyTarget(p, s.used, s.gid)
             w1 == UseHint(s.hint, Commitment(s, target))
             context == Context(s.digest, s.tau, s.gid)
  <1>1. WellFormed(s, m, p)
    BY DEF VerifyStruct
  <1>2. s.pk = target /\ s.challenge = Challenge(w1, target, m, context, s.delta)
    BY <1>1 DEF VerifyStruct
  <1>3. s.tag.challenge = s.challenge /\ s.digest = Digest[p]
    BY <1>1 DEF WellFormed, FirewallTag
  <1> HIDE DEF target, w1, context
  <1>4. /\ s.challenge.of.message = m /\ s.challenge.of.context = context
        /\ s.challenge.of.delta = s.delta /\ s.challenge.of.tr = target
    BY <1>2 DEF Challenge
  <1> QED
    BY <1>2, <1>3, <1>4 DEF context, Context

(* What the core signer hashed.                                            *)
LEMMA CoreChallengeIs ==
    ASSUME IInv, phase = "signed"
    PROVE  /\ core.challenge.of.message = job.message
           /\ core.challenge.of.context = <<Digest[job.policy], job.tau, job.user>>
           /\ core.challenge.of.delta = delta
           /\ core.challenge.of.tr = core.pk
  <1>1. PICK y \in -YBound..YBound : core = CoreSignature(job, delta, y)
    BY DEF IInv, CoreMade
  <1>2. core.challenge = SignerChallenge(job, delta, y) /\ core.pk = SignerTarget(job)
    BY <1>1 DEF CoreSignature
  <1>3. PICK w1 : w1 = HighBits(Reduced(A * y))
    OBVIOUS
  <1>4. SignerChallenge(job, delta, y) =
            Challenge(w1, SignerTarget(job), job.message,
                      Context(Digest[job.policy], job.tau, job.user), delta)
    BY <1>3 DEF SignerChallenge
  <1> QED
    BY <1>2, <1>4 DEF Challenge, Context

(* An accepted signature names what the core signer signed, whatever was   *)
(* done to it in between: the tag pins the challenge (firewall/mod.rs      *)
(* 263-304), the challenge pins the rest (mlwe.rs 1285-1339).              *)
THEOREM AcceptedWasSigned == Spec => []AcceptedAsSigned
  <1>1. IInv => AcceptedAsSigned
    <2> SUFFICES ASSUME IInv, answer # None, answer.verdict = "accepted"
                 PROVE  /\ answer.message = job.message
                        /\ Digest[answer.policy] = Digest[job.policy]
                        /\ sig.gid = job.user
                        /\ FinalizedAsBound
      BY DEF AcceptedAsSigned
    <2>1. phase = "signed" /\ answer.form \in {"struct", "compact"}
      BY DEF IInv, AnswerMade
    <2>2. /\ sig.tag.challenge = core.challenge /\ sig.delta \in 0..(Q - 1)
          /\ sig.delta = Reduced(sig.delta)
      <3>1. sig.tag.challenge = core.challenge /\ sig.delta \in 0..(Q - 1)
        BY <2>1 DEF IInv, SigMade
      <3> QED
        BY <3>1, ReducedOfResidue
    <2>3. PICK s : /\ VerifyStruct(s, answer.message, answer.policy) = "accepted"
                   /\ s.tag = sig.tag /\ s.challenge = sig.challenge /\ s.digest = sig.digest
                   /\ s.delta = sig.delta /\ s.pk = sig.pk /\ s.tau = sig.tau /\ s.gid = sig.gid
      <3>1. CASE answer.form = "struct"
        BY <3>1 DEF IInv, AnswerMade
      <3>2. CASE answer.form = "compact"
        <4> DEFINE s == Decompress(Compress(sig), answer.policy, answer.message)
        <4>1. VerifyCompact(Compress(sig), answer.message, answer.policy) = "accepted"
          BY <3>2 DEF IInv, AnswerMade
        <4>2. VerifyStruct(s, answer.message, answer.policy) = "accepted"
          BY <4>1 DEF VerifyCompact
        <4>3. /\ s.tag = sig.tag /\ s.challenge = sig.challenge /\ s.digest = sig.digest
              /\ s.delta = Reduced(sig.delta) /\ s.pk = sig.pk /\ s.tau = sig.tau /\ s.gid = sig.gid
          BY DEF Decompress, Compress
        <4> HIDE DEF s
        <4> QED
          BY <2>2, <4>2, <4>3
      <3> QED
        BY <2>1, <3>1, <3>2
    <2>4. /\ s.challenge = core.challenge
          /\ s.digest = Digest[answer.policy]
          /\ s.challenge.of.message = answer.message
          /\ s.challenge.of.context = <<s.digest, s.tau, s.gid>>
          /\ s.challenge.of.delta = s.delta
          /\ s.challenge.of.tr = s.pk
      BY <2>2, <2>3, AcceptedMeans
    <2>5. <<s.digest, s.tau, s.gid>> = <<Digest[job.policy], job.tau, job.user>>
      BY <2>1, <2>4, CoreChallengeIs
    <2> QED
      BY <2>1, <2>3, <2>4, <2>5, CoreChallengeIs DEF FinalizedAsBound
  <1> QED
    BY <1>1, Invariance, PTL

-----------------------------------------------------------------------------
(* What was issued is accepted.                                            *)

(* The core signature, field by field, for the nonce it was made with.     *)
LEMMA CoreFields ==
    ASSUME NEW j, NEW d, NEW y, NEW c, c = CoreSignature(j, d, y)
    PROVE  /\ c.challenge = SignerChallenge(j, d, y) /\ c.hint = MakeHint(0, Reduced(A * y))
           /\ c.policy = j.policy /\ c.digest = Digest[j.policy] /\ c.message = j.message
           /\ c.used = UsedAttributes(j.policy, Holds[j.user]) /\ c.gid = j.user
           /\ c.pk = SignerTarget(j)
  BY DEF CoreSignature

(* Policies with one digest have the same rows, targets and satisfying     *)
(* sets.                                                                   *)
LEMMA SameDigest ==
    ASSUME NEW p \in Policies, NEW r \in Policies, Digest[p] = Digest[r]
    PROVE  /\ RowToAttr[p] = RowToAttr[r] /\ Weights[p] = Weights[r] /\ Satisfying[p] = Satisfying[r]
           /\ \A attrs : Rows(p, attrs) = Rows(r, attrs)
           /\ \A attrs, u : PolicyTarget(p, attrs, u) = PolicyTarget(r, attrs, u)
           /\ \A attrs : Reconstructs(p, attrs) <=> Reconstructs(r, attrs)
  <1>1. RowToAttr[p] = RowToAttr[r] /\ Weights[p] = Weights[r] /\ Satisfying[p] = Satisfying[r]
    BY PolicyAssumption
  <1>2. \A attrs : Rows(p, attrs) = Rows(r, attrs)
    BY <1>1 DEF Rows
  <1>3. \A attrs, u : PolicyTarget(p, attrs, u) = PolicyTarget(r, attrs, u)
    BY <1>1, <1>2 DEF PolicyTarget
  <1>4. \A attrs : Reconstructs(p, attrs) <=> Reconstructs(r, attrs)
    BY <1>1, <1>2 DEF Reconstructs
  <1> QED
    BY <1>1, <1>2, <1>3, <1>4

(* A signature as issued, its policy possibly spelled otherwise, passes    *)
(* every check of the verifier.                                            *)
LEMMA IssuedVerifies ==
    ASSUME IInv, phase = "signed", damaged = None, FinalizedAsBound,
           NEW p \in Policies, Digest[p] = Digest[job.policy],
           NEW s, s.policy = p, s.message = job.message,
           s.z = sig.z, s.challenge = sig.challenge, s.hint = sig.hint, s.used = sig.used,
           s.digest = sig.digest, s.delta = sig.delta, s.tag = sig.tag, s.pk = sig.pk,
           s.tau = sig.tau, s.gid = sig.gid
    PROVE  VerifyStruct(s, job.message, p) = "accepted"
  <1>1. PICK y \in -YBound..YBound :
           core = CoreSignature(job, delta, y) /\ Centered(core.z) = Response(job, delta, y)
      BY CoreResponse
  <1>2. job \in Jobs /\ job.policy \in Policies /\ CanSign(job.policy, job.user)
    BY DEF IInv, JobMade, CoreMade, Jobs
  <1>3. PICK r \in -Eta2..Eta2 : \E pk : \E tau :
           Abs(Masked(r)) < ZBound /\ sig = Finalized(r, pk, tau)
    BY DEF IInv, SigMade
  <1>3a. PICK pk : \E tau : Abs(Masked(r)) < ZBound /\ sig = Finalized(r, pk, tau)
    BY <1>3
  <1>4. PICK tau : Abs(Masked(r)) < ZBound /\ sig = Finalized(r, pk, tau)
    BY <1>3a
  <1>5. /\ sig.z = Reduced(Masked(r)) /\ sig.challenge = core.challenge /\ sig.hint = core.hint
        /\ sig.message = core.message /\ sig.used = core.used /\ sig.digest = core.digest
        /\ sig.delta = Reduced(A * r) /\ sig.gid = core.gid /\ sig.tag = FirewallTag(sig)
    BY <1>4, FinalizedIs
  <1>6. /\ core.challenge = SignerChallenge(job, delta, y)
        /\ core.hint = MakeHint(0, Reduced(A * y))
        /\ core.digest = Digest[job.policy] /\ core.message = job.message
        /\ core.used = UsedAttributes(job.policy, Holds[job.user]) /\ core.gid = job.user
        /\ core.pk = SignerTarget(job)
    BY <1>1, CoreFields
  <1>7. /\ sig.delta = core.challenge.of.delta /\ sig.pk = core.pk /\ sig.tau = job.tau
        /\ core.challenge.of.delta = delta
    BY CoreChallengeIs DEF FinalizedAsBound
  <1>8. WellFormed(s, job.message, p)
    <2>1. s.used \in Satisfying[p]
      BY <1>2, <1>5, <1>6, SameDigest, PolicyAssumption DEF CanSign
    <2>2. Abs(Centered(s.z)) < ZBound
      BY <1>4, <1>5, InWindow, MaskFits
    <2>3. s.tag = FirewallTag(s)
      BY <1>5, <1>6 DEF FirewallTag
    <2> QED
      BY <1>5, <1>6, <2>1, <2>2, <2>3 DEF WellFormed
  <1>9. Reconstructs(p, s.used)
    <2>1. Reconstructs(job.policy, Holds[job.user])
      BY <1>2 DEF CanSign
    <2>2. Reconstructs(job.policy, s.used)
      BY <1>5, <1>6, <2>1, SameRows DEF Reconstructs
    <2> QED
      BY <1>2, <2>2, SameDigest
  <1> DEFINE target == PolicyTarget(p, s.used, s.gid)
             c == SignerChallenge(job, delta, y).coeff
             w == Witness(job.policy, job.user)
  <1>10. target = SignerTarget(job)
    BY <1>2, <1>5, <1>6, SameDigest DEF SignerTarget
  <1>11. Commitment(s, target) = Reduced(A * y)
    <2>1. /\ w \in Int /\ c \in Int /\ y \in Int /\ r \in Int /\ A \in Int
          /\ SignerTarget(job) = Reduced(A * w)
      <3>1. delta \in 0..(Q - 1)
        BY <1>5, <1>7 DEF IInv, SigMade
      <3> QED
        BY <1>2, <3>1, SignerTargetIs, ResponseIs, Windows
    <2>2. s.z = Reduced(y + c * w + r)
      BY <1>1, <1>5 DEF Masked, Response
    <2>3. s.challenge.coeff = c /\ s.delta = Reduced(A * r)
      BY <1>5, <1>6
    <2> HIDE DEF c, w, target
    <2>4. Recomputed(A, y, c, w, r) = Reduced(A * y)
      BY <2>1, CommitmentCancels
    <2> QED
      BY <1>10, <2>1, <2>2, <2>3, <2>4 DEF Commitment, Recomputed
  <1>12. Reduced(A * y) \in Int
    BY Windows, ReducedRange
  <1>13. s.hint # None /\ UseHint(s.hint, Commitment(s, target)) = HighBits(Reduced(A * y))
    BY <1>5, <1>6, <1>11, <1>12, NoErrorNoHint, NoneAssumption
  <1>14. s.challenge = Challenge(UseHint(s.hint, Commitment(s, target)), target, job.message,
                                 Context(s.digest, s.tau, s.gid), s.delta)
    <2>1. s.digest = Digest[job.policy] /\ s.tau = job.tau /\ s.gid = job.user /\ s.delta = delta
      BY <1>5, <1>6, <1>7
    <2> HIDE DEF target
    <2> QED
      BY <1>5, <1>6, <1>10, <1>13, <2>1 DEF SignerChallenge
  <1>15. s.pk = target
    BY <1>6, <1>7, <1>10
  <1> QED
    BY <1>8, <1>9, <1>13, <1>14, <1>15 DEF VerifyStruct

(* Packing a response of the window and unpacking it gives it back.        *)
LEMMA PackedIsLossless ==
    ASSUME NEW z \in Int, Abs(z) < ZBound
    PROVE  Reduced(((z + Gamma1) % PackedWidth) - Gamma1) = Reduced(z)
  <1>1. z + Gamma1 \in 0..(PackedWidth - 1) /\ PackedWidth \in Nat /\ PackedWidth > 0
    BY Windows DEF Abs
  <1>2. (z + Gamma1) % PackedWidth = z + Gamma1
    BY <1>1, SMTT(20)
  <1> QED
    BY <1>2, Windows

(* A signature that reaches the verifier as issued is accepted, in either  *)
(* form: verify.rs 93-214 after sign.rs 73-115 and serialization/mod.rs.   *)
THEOREM IssuedVerdict == Spec => []IssuedIsAccepted
  <1>1. IInv => IssuedIsAccepted
    <2> SUFFICES ASSUME IInv, answer # None, damaged = None, FinalizedAsBound,
                        answer.message = job.message,
                        \/ answer.policy = job.policy
                        \/ answer.form = "compact" /\ Digest[answer.policy] = Digest[job.policy]
                 PROVE  answer.verdict = "accepted"
      BY DEF IssuedIsAccepted
    <2>1. phase = "signed" /\ answer.form \in {"struct", "compact"} /\ answer.policy \in Policies
      BY DEF IInv, AnswerMade
    <2>2. PICK r \in -Eta2..Eta2 : \E pk : \E tau :
             Abs(Masked(r)) < ZBound /\ sig = Finalized(r, pk, tau)
      BY <2>1 DEF IInv, SigMade
    <2>3. /\ sig.z = Reduced(Masked(r)) /\ sig.policy = core.policy /\ sig.message = core.message
          /\ sig.used = core.used /\ sig.delta \in 0..(Q - 1)
      BY <2>1, <2>2, FinalizedIs DEF IInv, SigMade
    <2>4. PICK y : core = CoreSignature(job, delta, y)
      BY <2>1 DEF IInv, CoreMade
    <2>5. /\ core.policy = job.policy /\ core.message = job.message
          /\ core.used = UsedAttributes(job.policy, Holds[job.user])
      BY <2>4, CoreFields
    <2>6. Digest[answer.policy] = Digest[job.policy]
      OBVIOUS
    <2>7. CASE answer.form = "struct"
      <3>1. answer.policy = job.policy
        BY <2>7
      <3>2. VerifyStruct(sig, job.message, answer.policy) = "accepted"
        BY <2>1, <2>3, <2>5, <3>1, IssuedVerifies
      <3> QED
        BY <2>7, <3>2 DEF IInv, AnswerMade
    <2>8. CASE answer.form = "compact"
      <3> DEFINE packed == Compress(sig)
                 s == Decompress(packed, answer.policy, job.message)
      <3>1. packed.witness_rows = Rows(job.policy, sig.used)
        BY <2>3, <2>5 DEF Compress
      <3>2. packed.witness_rows \subseteq DOMAIN RowToAttr[answer.policy]
        <4>1. Rows(answer.policy, sig.used) = Rows(job.policy, sig.used)
          BY <2>1, <2>6, SameDigest DEF IInv, JobMade, Jobs
        <4> QED
          BY <3>1, <4>1 DEF Rows
      <3>3. s.z = sig.z
        <4>1. Masked(r) \in Int /\ Abs(Masked(r)) < ZBound
          BY <2>1, MaskFits
        <4>2. Centered(sig.z) = Masked(r)
          BY <2>3, <4>1, InWindow
        <4>3. packed.packed_z = (Masked(r) + Gamma1) % PackedWidth
          BY <4>2 DEF Compress
        <4>4. s.z = Reduced(packed.packed_z - Gamma1)
          BY DEF Decompress
        <4> HIDE DEF s, packed
        <4> QED
          BY <2>3, <4>1, <4>3, <4>4, PackedIsLossless
      <3>4. s.used = sig.used
        <4>1. s.used = {RowToAttr[answer.policy][i] : i \in packed.witness_rows}
          BY DEF Decompress
        <4>2. RowToAttr[answer.policy] = RowToAttr[job.policy]
          BY <2>1, <2>6, SameDigest DEF IInv, JobMade, Jobs
        <4>3. s.used = {RowToAttr[job.policy][i] : i \in Rows(job.policy, Holds[job.user])}
          BY <2>3, <2>5, <3>1, <4>1, <4>2, SameRows
        <4> HIDE DEF s
        <4> QED
          BY <2>3, <2>5, <4>3 DEF UsedAttributes
      <3>5. s.delta = sig.delta
        <4>1. s.delta = Reduced(sig.delta)
          BY DEF Decompress, Compress
        <4> HIDE DEF s
        <4> QED
          BY <2>3, <4>1, ReducedOfResidue
      <3>6. /\ s.policy = answer.policy /\ s.message = job.message
            /\ s.challenge = sig.challenge /\ s.hint = sig.hint /\ s.digest = sig.digest
            /\ s.tag = sig.tag /\ s.pk = sig.pk /\ s.tau = sig.tau /\ s.gid = sig.gid
        BY DEF Decompress, Compress
      <3> HIDE DEF s
      <3>7. VerifyStruct(s, job.message, answer.policy) = "accepted"
        BY <2>1, <2>6, <3>3, <3>4, <3>5, <3>6, IssuedVerifies
      <3>8. VerifyCompact(packed, job.message, answer.policy) = "accepted"
        BY <3>2, <3>7 DEF VerifyCompact, s
      <3> QED
        BY <2>8, <3>8 DEF IInv, AnswerMade
    <2> QED
      BY <2>1, <2>7, <2>8
  <1> QED
    BY <1>1, Invariance, PTL

-----------------------------------------------------------------------------
(* Damage is noticed, and by both forms alike.                             *)

(* A damaged signature differs in the damaged field alone from one that    *)
(* was finalized as its challenge has it, and what is found there is a     *)
(* value of its kind.                                                      *)
Origin ==
    phase = "signed" /\ damaged # None =>
        \E r \in -Eta2..Eta2 :
            /\ Finalized(r, core.pk, job.tau).delta = core.challenge.of.delta
            /\ sig = [Finalized(r, core.pk, job.tau) EXCEPT ![damaged] = sig[damaged]]
            /\ sig[damaged] # Finalized(r, core.pk, job.tau)[damaged]
            /\ damaged = "z" => sig.z \in 0..(Q - 1) /\ Abs(Centered(sig.z)) <= Gamma1
            /\ damaged = "hint" => sig.hint \in {0, 1, None}
            /\ damaged = "used" => sig.used \subseteq Attributes

(* Damage starts from a signature as it was issued and changes one field.  *)
LEMMA DamageOrigin ==
    ASSUME IInv, NEW field \in Fields, Damage(field)
    PROVE  Origin'
  <1>1. /\ phase = "signed" /\ damaged = None /\ FinalizedAsBound
        /\ damaged' = field /\ UNCHANGED <<job, core>>
    BY DEF Damage
  <1>2. PICK v \in Others(field) \ {sig[field]} : sig' = [sig EXCEPT ![field] = v]
    BY DEF Damage
  <1>3. PICK r \in -Eta2..Eta2 : \E pk : \E tau :
           Abs(Masked(r)) < ZBound /\ sig = Finalized(r, pk, tau)
    BY <1>1 DEF IInv, SigMade
  <1>3a. PICK pk : \E tau : Abs(Masked(r)) < ZBound /\ sig = Finalized(r, pk, tau)
    BY <1>3
  <1>3b. PICK tau : Abs(Masked(r)) < ZBound /\ sig = Finalized(r, pk, tau)
    BY <1>3a
  <1>4. pk = core.pk /\ tau = job.tau /\ sig.delta = core.challenge.of.delta
    BY <1>1, <1>3b, FinalizedIs DEF FinalizedAsBound
  <1>5. sig = Finalized(r, core.pk, job.tau)
    BY <1>3b, <1>4
  <1>6. Finalized(r, core.pk, job.tau)' = sig
    BY <1>1, <1>5 DEF Finalized, Masked
  <1>7. sig = [x \in SigFields |-> sig[x]] /\ field \in SigFields
    BY <1>1 DEF IInv, SigMade, SigFields
  <1>8. sig'[field] = v /\ v # sig[field] /\ sig' = [sig EXCEPT ![field] = sig'[field]]
    BY <1>2, <1>7
  <1>9. field = "z" => v \in 0..(Q - 1) /\ Abs(Centered(v)) <= Gamma1
    BY <1>2 DEF Others
  <1>10. field = "hint" => v \in {0, 1, None}
    BY <1>2 DEF Others
  <1>11. field = "used" => v \subseteq Attributes
    BY <1>2 DEF Others
  <1> QED
    BY <1>1, <1>4, <1>6, <1>8, <1>9, <1>10, <1>11 DEF Origin

(* Where a damaged signature comes from is never forgotten: issuing and    *)
(* verifying damage nothing.                                               *)
THEOREM OriginInvariance == Spec => []Origin
  <1>1. Init => Origin
    BY DEF Init, Origin
  <1>2. IInv /\ Origin /\ [Next]_vars => Origin'
    <2> SUFFICES ASSUME IInv, Origin, [Next]_vars PROVE Origin'
      OBVIOUS
    <2>1. CASE UNCHANGED <<phase, job, core, sig, damaged>>
      <3>1. \A r : Finalized(r, core.pk, job.tau)' = Finalized(r, core.pk, job.tau)
        BY <2>1 DEF Finalized, Masked
      <3> QED
        BY <2>1, <3>1 DEF Origin
    <2>2. CASE phase' # "signed" \/ damaged' = None
      BY <2>2 DEF Origin
    <2>3. ASSUME NEW field \in Fields, Damage(field) PROVE Origin'
      BY <2>3, DamageOrigin
    <2>4. ASSUME NEW u \in Users, NEW m \in Messages, NEW p \in Policies, NEW tau \in Tags,
                 Start(u, m, p, tau)
          PROVE  Origin'
      BY <2>2, <2>4 DEF Start
    <2>5. CASE Precommit \/ CoreRefuse
      BY <2>2, <2>5 DEF Precommit, CoreRefuse
    <2>6. CASE CoreTry
      BY <2>2, <2>6 DEF CoreTry
    <2>7. CASE Finalize
      BY <2>2, <2>7 DEF Finalize, IInv, DamageMade
    <2>8. ASSUME NEW r \in -Eta2..Eta2, NEW pk \in Targets, NEW tau \in Tags,
                 FinalizeByHand(r, pk, tau)
          PROVE  Origin'
      BY <2>2, <2>8 DEF FinalizeByHand, IInv, DamageMade
    <2>9. ASSUME NEW m \in Messages, NEW p \in Policies, Verify(m, p)
          PROVE  Origin'
      BY <2>1, <2>9 DEF Verify
    <2>10. CASE UNCHANGED vars
      BY <2>1, <2>10 DEF vars
    <2> QED
      BY <2>3, <2>4, <2>5, <2>6, <2>7, <2>8, <2>9, <2>10 DEF Next
  <1> QED
    BY <1>1, <1>2, Invariance, PTL DEF Spec

(* The signature as it was finalized, behind one that may be damaged: its  *)
(* fields, and which of them the signature still has.                      *)
LEMMA IssuedBehind ==
    ASSUME IInv, Origin, phase = "signed"
    PROVE  \E r \in -Eta2..Eta2 : \E s :
              /\ Abs(Masked(r)) < ZBound /\ Masked(r) \in Int
              /\ s.z = Reduced(Masked(r)) /\ s.challenge = core.challenge /\ s.hint = core.hint
              /\ s.policy = core.policy /\ s.message = core.message /\ s.used = core.used
              /\ s.digest = core.digest /\ s.delta = Reduced(A * r) /\ s.gid = core.gid
              /\ s.tag = FirewallTag(s) /\ sig.tag = s.tag
              /\ \A x \in Fields : x # damaged => sig[x] = s[x]
              /\ damaged # None =>
                    /\ sig[damaged] # s[damaged]
                    /\ s.delta = delta /\ s.pk = core.pk /\ s.tau = job.tau
  <1>1. CASE damaged = None
    <2>1. PICK r \in -Eta2..Eta2 : \E pk : \E tau :
             Abs(Masked(r)) < ZBound /\ sig = Finalized(r, pk, tau)
      BY <1>1 DEF IInv, SigMade
    <2>2. PICK pk : \E tau : Abs(Masked(r)) < ZBound /\ sig = Finalized(r, pk, tau)
      BY <2>1
    <2>3. PICK tau : Abs(Masked(r)) < ZBound /\ sig = Finalized(r, pk, tau)
      BY <2>2
    <2>4. Masked(r) \in Int
      BY MaskFits
    <2> QED
      BY <1>1, <2>3, <2>4, FinalizedIs
  <1>2. CASE damaged # None
    <2>1. PICK r \in -Eta2..Eta2 :
            /\ Finalized(r, core.pk, job.tau).delta = core.challenge.of.delta
            /\ sig = [Finalized(r, core.pk, job.tau) EXCEPT ![damaged] = sig[damaged]]
            /\ sig[damaged] # Finalized(r, core.pk, job.tau)[damaged]
      BY <1>2 DEF Origin
    <2>2. PICK s : s = Finalized(r, core.pk, job.tau)
      OBVIOUS
    <2>3. Masked(r) \in Int /\ Abs(Masked(r)) < ZBound
      BY MaskFits
    <2>4. /\ s = [x \in SigFields |-> s[x]]
          /\ s.z = Reduced(Masked(r)) /\ s.challenge = core.challenge /\ s.hint = core.hint
          /\ s.policy = core.policy /\ s.message = core.message /\ s.used = core.used
          /\ s.digest = core.digest /\ s.delta = Reduced(A * r) /\ s.pk = core.pk /\ s.tau = job.tau
          /\ s.gid = core.gid /\ s.tag = FirewallTag(s)
      BY <2>2, FinalizedIs
    <2>5. sig = [s EXCEPT ![damaged] = sig[damaged]] /\ sig[damaged] # s[damaged]
      BY <2>1, <2>2
    <2>6. damaged \in Fields /\ damaged # "tag"
      BY <1>2 DEF IInv, DamageMade, Fields
    <2>7. sig.tag = s.tag /\ \A x \in Fields : x # damaged => sig[x] = s[x]
      BY <2>4, <2>5, <2>6 DEF SigFields
    <2>8. s.delta = delta
      BY <2>1, <2>2, CoreChallengeIs
    <2> QED
      BY <2>3, <2>4, <2>5, <2>7, <2>8
  <1> QED
    BY <1>1, <1>2

(* A response of another value never unpacks to the one that was issued,   *)
(* not even where the packed offset wraps.                                 *)
LEMMA OtherResponse ==
    ASSUME NEW v \in 0..(Q - 1), Abs(Centered(v)) <= Gamma1,
           NEW z \in Int, Abs(z) < ZBound, v # Reduced(z)
    PROVE  Reduced(((Centered(v) + Gamma1) % PackedWidth) - Gamma1) # Reduced(z)
  <1> DEFINE c == Centered(v)
  <1>1. v \in Int /\ Reduced(v) = v
    BY Windows, ReducedOfResidue
  <1>2. c \in Int /\ (c = v \/ c = v + Q * (-1))
    BY <1>1, Windows DEF Centered
  <1>3. Reduced(c) = v
    BY <1>1, <1>2, SameResidue, Windows
  <1>4. Abs(c) <= Gamma1
    OBVIOUS
  <1> HIDE DEF c
  <1>5. -Gamma1 <= c /\ c <= Gamma1 /\ 0 < Gamma1
    BY <1>2, <1>4, Windows DEF Abs
  <1>6. CASE c + Gamma1 < PackedWidth
    <2>1. (c + Gamma1) % PackedWidth = c + Gamma1
      BY <1>2, <1>5, <1>6, Windows, SMTT(20)
    <2>2. ((c + Gamma1) % PackedWidth) - Gamma1 = c
      BY <1>2, <2>1, Windows
    <2> QED
      BY <1>3, <2>2 DEF c
  <1>7. CASE c + Gamma1 >= PackedWidth
    <2>1. c + Gamma1 = PackedWidth /\ PackedWidth \in Nat /\ PackedWidth > 0
      BY <1>2, <1>5, <1>7, Windows
    <2>2. (c + Gamma1) % PackedWidth = 0
      BY <2>1
    <2>3. ((c + Gamma1) % PackedWidth) - Gamma1 = -Gamma1
      BY <2>2, Windows
    <2>4. Centered(Reduced(-Gamma1)) = -Gamma1
      BY Windows, CenteredSmall
    <2>5. Centered(Reduced(z)) = z
      BY InWindow
    <2>6. -Gamma1 # z
      BY Windows DEF Abs
    <2> QED
      BY <2>3, <2>4, <2>5, <2>6 DEF c
  <1> QED
    BY <1>2, <1>6, <1>7, Windows

(* Whoever sees the response, the challenge and the correction as they     *)
(* were issued recomputes the commitment whose high part was hashed.       *)
LEMMA CommitmentOfIssued ==
    ASSUME IInv, phase = "signed", NEW r \in -Eta2..Eta2, NEW v,
           v.z = Reduced(Masked(r)), v.challenge = core.challenge, v.delta = Reduced(A * r)
    PROVE  /\ Commitment(v, core.pk) \in Int
           /\ core.challenge.of.w1 = HighBits(Commitment(v, core.pk))
           /\ core.hint = 0
  <1>1. PICK y \in -YBound..YBound :
           core = CoreSignature(job, delta, y) /\ Centered(core.z) = Response(job, delta, y)
    BY CoreResponse
  <1>2. job \in Jobs /\ CanSign(job.policy, job.user)
    BY DEF IInv, JobMade, CoreMade
  <1>3. delta \in 0..(Q - 1)
    <2>1. A * mask \in Int
      BY Windows DEF IInv, MaskMade
    <2> QED
      BY <2>1, ReducedRange DEF IInv, MaskMade
  <1> DEFINE c == SignerChallenge(job, delta, y).coeff
             w == Witness(job.policy, job.user)
  <1>4. c \in Int /\ w \in Int /\ core.pk = Reduced(A * w)
    BY <1>1, <1>2, <1>3, SignerTargetIs, ResponseIs, CoreFields
  <1>5. y \in Int /\ r \in Int /\ A \in Int
    BY Windows
  <1>6. v.z = Reduced(y + c * w + r) /\ v.challenge.coeff = c
    BY <1>1, <1>4, CoreFields DEF Masked, Response
  <1>7. core.challenge.of.w1 = HighBits(Reduced(A * y))
    <2>1. core.challenge = SignerChallenge(job, delta, y)
      BY <1>1, CoreFields
    <2> QED
      BY <2>1 DEF SignerChallenge, Challenge
  <1>8. core.hint = MakeHint(0, Reduced(A * y)) /\ Reduced(A * y) \in Int
    BY <1>1, <1>5, CoreFields, ReducedRange
  <1>9. core.hint = 0
    BY <1>8, NoErrorNoHint
  <1> HIDE DEF c, w
  <1>10. Commitment(v, core.pk) = Reduced(A * y)
    <2>1. Recomputed(A, y, c, w, r) = Reduced(A * y)
      BY <1>4, <1>5, CommitmentCancels, SMTT(60)
    <2> QED
      BY <1>4, <1>6, <2>1 DEF Commitment, Recomputed
  <1> QED
    BY <1>7, <1>8, <1>9, <1>10

(* What a signature says of itself, when its tag is to match.              *)
LEMMA TagPins ==
    ASSUME NEW v, NEW s, FirewallTag(v) = FirewallTag(s)
    PROVE  /\ v.tau = s.tau /\ v.gid = s.gid /\ v.digest = s.digest /\ v.message = s.message
           /\ v.pk = s.pk /\ v.challenge = s.challenge /\ v.z = s.z /\ v.delta = s.delta
  <1>1. /\ FirewallTag(v).tau = v.tau /\ FirewallTag(v).gid = v.gid
        /\ FirewallTag(v).digest = v.digest /\ FirewallTag(v).message = v.message
        /\ FirewallTag(v).pk = v.pk /\ FirewallTag(v).challenge = v.challenge
        /\ FirewallTag(v).z = v.z /\ FirewallTag(v).delta = v.delta
    BY DEF FirewallTag
  <1>2. /\ FirewallTag(s).tau = s.tau /\ FirewallTag(s).gid = s.gid
        /\ FirewallTag(s).digest = s.digest /\ FirewallTag(s).message = s.message
        /\ FirewallTag(s).pk = s.pk /\ FirewallTag(s).challenge = s.challenge
        /\ FirewallTag(s).z = s.z /\ FirewallTag(s).delta = s.delta
    BY DEF FirewallTag
  <1> QED
    BY <1>1, <1>2

(* What travels in the compact form, and what the verifier puts back.      *)
LEMMA UnpackedFields ==
    ASSUME IInv, phase = "signed", NEW p, NEW m, NEW v, v = Decompress(Compress(sig), p, m)
    PROVE  /\ v.challenge = sig.challenge /\ v.hint = sig.hint /\ v.digest = sig.digest
           /\ v.delta = sig.delta /\ v.tag = sig.tag /\ v.pk = sig.pk /\ v.tau = sig.tau
           /\ v.gid = sig.gid /\ v.policy = p /\ v.message = m
           /\ v.used = {RowToAttr[p][i] : i \in Rows(sig.policy, sig.used)}
           /\ v.z = Reduced(((Centered(sig.z) + Gamma1) % PackedWidth) - Gamma1)
  <1>1. /\ v.challenge = sig.challenge /\ v.hint = sig.hint /\ v.digest = sig.digest
        /\ v.tag = sig.tag /\ v.pk = sig.pk /\ v.tau = sig.tau
        /\ v.gid = sig.gid /\ v.policy = p /\ v.message = m
        /\ v.used = {RowToAttr[p][i] : i \in Rows(sig.policy, sig.used)}
        /\ v.z = Reduced(((Centered(sig.z) + Gamma1) % PackedWidth) - Gamma1)
        /\ v.delta = Reduced(sig.delta)
    BY DEF Decompress, Compress
  <1>2. sig.delta \in 0..(Q - 1)
    BY DEF IInv, SigMade
  <1> QED
    BY <1>1, <1>2, ReducedOfResidue

(* A response that was issued arrives, one that was damaged does not turn  *)
(* into the one that was issued.                                           *)
LEMMA ResponseArrives ==
    ASSUME IInv, Origin, phase = "signed", NEW z \in Int, Abs(z) < ZBound,
           damaged # "z" => sig.z = Reduced(z),
           damaged = "z" => sig.z # Reduced(z),
           NEW u, u = Reduced(((Centered(sig.z) + Gamma1) % PackedWidth) - Gamma1)
    PROVE  u = Reduced(z) <=> damaged # "z"
  <1>1. CASE damaged # "z"
    <2>1. Centered(sig.z) = z
      BY <1>1, InWindow
    <2> QED
      BY <1>1, <2>1, PackedIsLossless
  <1>2. CASE damaged = "z"
    <2>1. sig.z \in 0..(Q - 1) /\ Abs(Centered(sig.z)) <= Gamma1
      BY <1>2, NoneAssumption DEF Origin, Fields
    <2> QED
      BY <1>2, <2>1, OtherResponse
  <1> QED
    BY <1>1, <1>2

(* What the verifier recomputes before it accepts, hint and target too.    *)
LEMMA AcceptedRecomputes ==
    ASSUME NEW v, NEW m, NEW p, VerifyStruct(v, m, p) = "accepted"
    PROVE  /\ v.policy = p /\ v.message = m /\ v.digest = Digest[p] /\ v.tag = FirewallTag(v)
           /\ v.pk = PolicyTarget(p, v.used, v.gid)
           /\ v.hint # None
           /\ v.challenge.of.w1 = UseHint(v.hint, Commitment(v, v.pk))
  <1> DEFINE target == PolicyTarget(p, v.used, v.gid)
             w1 == UseHint(v.hint, Commitment(v, target))
             context == Context(v.digest, v.tau, v.gid)
  <1>1. WellFormed(v, m, p)
    BY DEF VerifyStruct
  <1>2. v.pk = target /\ v.hint # None /\ v.challenge = Challenge(w1, target, m, context, v.delta)
    BY <1>1 DEF VerifyStruct
  <1> HIDE DEF context, w1, target
  <1>3. v.challenge.of.w1 = w1
    BY <1>2 DEF Challenge
  <1> QED
    BY <1>1, <1>2, <1>3 DEF WellFormed, target, w1

(* The record the verifier checks, whichever form it was handed: what both *)
(* forms carry is that of the signature, and the response is the one that  *)
(* was issued only if it was not damaged.                                  *)
LEMMA Checked ==
    ASSUME IInv, Origin, phase = "signed", NEW z \in Int, Abs(z) < ZBound,
           damaged # "z" => sig.z = Reduced(z),
           damaged = "z" => sig.z # Reduced(z),
           NEW m, NEW p, NEW v,
           v = sig \/ v = Decompress(Compress(sig), p, m)
    PROVE  /\ v.challenge = sig.challenge /\ v.hint = sig.hint /\ v.digest = sig.digest
           /\ v.delta = sig.delta /\ v.tag = sig.tag /\ v.pk = sig.pk /\ v.tau = sig.tau
           /\ v.gid = sig.gid
           /\ v.z = Reduced(z) <=> damaged # "z"
  <1>1. CASE v = sig
    BY <1>1
  <1>2. CASE v = Decompress(Compress(sig), p, m)
    <2>1. /\ v.challenge = sig.challenge /\ v.hint = sig.hint /\ v.digest = sig.digest
          /\ v.delta = sig.delta /\ v.tag = sig.tag /\ v.pk = sig.pk /\ v.tau = sig.tau
          /\ v.gid = sig.gid
          /\ v.z = Reduced(((Centered(sig.z) + Gamma1) % PackedWidth) - Gamma1)
      BY <1>2, UnpackedFields
    <2>2. v.z = Reduced(z) <=> damaged # "z"
      BY <2>1, ResponseArrives
    <2> QED
      BY <2>1, <2>2
  <1> QED
    BY <1>1, <1>2

(* A changed field is noticed: verify.rs 93-214 against every field of     *)
(* FirewallSignature (firewall/mod.rs 23-38), in the form signed and in    *)
(* the form packed by serialization/mod.rs.                                *)
THEOREM DamageRejected == Spec => []DamageIsRejected
  <1>1. IInv /\ Origin => DamageIsRejected
    <2> SUFFICES ASSUME IInv, Origin, damaged # None, answer # None, answer.verdict = "accepted"
                 PROVE  \/ damaged = "used" /\ PolicyTarget(sig.policy, sig.used, sig.gid) = core.pk
                        \/ damaged = "policy" /\ Digest[sig.policy] = Digest[core.policy]
                        \/ damaged \in {"policy", "message"} /\ answer.form = "compact"
      BY DEF DamageIsRejected
    <2>1. /\ phase = "signed" /\ answer.policy \in Policies
          /\ answer.form \in {"struct", "compact"}
          /\ job.policy \in Policies /\ damaged \in Fields
      BY DEF IInv, AnswerMade, JobMade, Jobs, DamageMade
    <2>2. PICK y : core = CoreSignature(job, delta, y)
      BY <2>1 DEF IInv, CoreMade
    <2>3. core.policy = job.policy /\ core.digest = Digest[job.policy]
      BY <2>2, CoreFields
    <2>4. PICK r \in -Eta2..Eta2 : \E s :
              /\ Abs(Masked(r)) < ZBound /\ Masked(r) \in Int
              /\ s.z = Reduced(Masked(r)) /\ s.challenge = core.challenge /\ s.hint = core.hint
              /\ s.policy = core.policy /\ s.message = core.message /\ s.used = core.used
              /\ s.digest = core.digest /\ s.delta = Reduced(A * r) /\ s.gid = core.gid
              /\ s.tag = FirewallTag(s) /\ sig.tag = s.tag
              /\ \A x \in Fields : x # damaged => sig[x] = s[x]
              /\ sig[damaged] # s[damaged]
              /\ s.delta = delta /\ s.pk = core.pk /\ s.tau = job.tau
      BY <2>1, IssuedBehind
    <2>5. PICK s :
              /\ Abs(Masked(r)) < ZBound /\ Masked(r) \in Int
              /\ s.z = Reduced(Masked(r)) /\ s.challenge = core.challenge /\ s.hint = core.hint
              /\ s.policy = core.policy /\ s.message = core.message /\ s.used = core.used
              /\ s.digest = core.digest /\ s.delta = Reduced(A * r) /\ s.gid = core.gid
              /\ s.tag = FirewallTag(s) /\ sig.tag = s.tag
              /\ \A x \in Fields : x # damaged => sig[x] = s[x]
              /\ sig[damaged] # s[damaged]
              /\ s.delta = delta /\ s.pk = core.pk /\ s.tau = job.tau
      BY <2>4
    <2>6. PICK v : v = IF answer.form = "struct" THEN sig
                       ELSE Decompress(Compress(sig), answer.policy, answer.message)
      OBVIOUS
    <2>7. VerifyStruct(v, answer.message, answer.policy) = "accepted"
      BY <2>1, <2>6 DEF IInv, AnswerMade, VerifyCompact
    <2>8. /\ v.policy = answer.policy /\ v.message = answer.message
          /\ v.digest = Digest[answer.policy] /\ v.tag = FirewallTag(v)
          /\ v.pk = PolicyTarget(answer.policy, v.used, v.gid)
          /\ v.hint # None
          /\ v.challenge.of.w1 = UseHint(v.hint, Commitment(v, v.pk))
      BY <2>7, AcceptedRecomputes
    <2>9. /\ damaged # "z" => sig.z = Reduced(Masked(r))
          /\ damaged = "z" => sig.z # Reduced(Masked(r))
      BY <2>5 DEF Fields
    <2>10. /\ v.challenge = sig.challenge /\ v.hint = sig.hint /\ v.digest = sig.digest
           /\ v.delta = sig.delta /\ v.tag = sig.tag /\ v.pk = sig.pk /\ v.tau = sig.tau
           /\ v.gid = sig.gid
           /\ v.z = Reduced(Masked(r)) <=> damaged # "z"
      BY <2>1, <2>5, <2>6, <2>9, Checked
    <2>11. FirewallTag(v) = FirewallTag(s)
      BY <2>5, <2>8, <2>10
    <2>12. /\ v.tau = s.tau /\ v.gid = s.gid /\ v.digest = s.digest /\ v.message = s.message
           /\ v.pk = s.pk /\ v.challenge = s.challenge /\ v.z = s.z /\ v.delta = s.delta
      BY <2>11, TagPins
    <2>13. damaged \notin {"z", "delta", "tau", "gid", "digest", "pk", "challenge"}
      <3>1. sig[damaged] # s[damaged] /\ s.z = Reduced(Masked(r))
        BY <2>5
      <3> QED
        BY <2>10, <2>12, <3>1
    <2>14. damaged \in {"hint", "used", "policy", "message"}
      BY <2>1, <2>13 DEF Fields
    <2>15. CASE damaged = "hint"
      <3>1. /\ Commitment(v, core.pk) \in Int
            /\ core.challenge.of.w1 = HighBits(Commitment(v, core.pk))
            /\ core.hint = 0
        BY <2>1, <2>5, <2>12, CommitmentOfIssued
      <3>2. sig.hint \in {0, 1, None}
        BY <2>1, <2>15, NoneAssumption DEF Origin
      <3>3. v.hint = 1
        BY <2>5, <2>8, <2>10, <2>15, <3>1, <3>2
      <3>4. core.challenge.of.w1 = UseHint(1, Commitment(v, core.pk))
        BY <2>5, <2>8, <2>12, <3>3
      <3> QED
        BY <3>1, <3>4, HintMoves
    <2>16. CASE damaged = "used"
      <3>1. Digest[answer.policy] = Digest[job.policy]
        BY <2>3, <2>5, <2>8, <2>12
      <3>2. sig.policy = job.policy
        BY <2>3, <2>5, <2>16 DEF Fields
      <3>3. v.used = sig.used \/ v.used = UsedAttributes(job.policy, sig.used)
        <4>1. CASE answer.form = "struct"
          BY <2>6, <4>1
        <4>2. CASE answer.form = "compact"
          <5>1. v.used = {RowToAttr[answer.policy][i] : i \in Rows(sig.policy, sig.used)}
            BY <2>1, <2>6, <4>2, UnpackedFields
          <5>2. RowToAttr[answer.policy] = RowToAttr[job.policy]
            BY <2>1, <3>1, SameDigest
          <5> QED
            BY <3>2, <5>1, <5>2 DEF UsedAttributes
        <4> QED
          BY <2>1, <4>1, <4>2
      <3>4. v.pk = PolicyTarget(job.policy, v.used, v.gid)
        BY <2>1, <2>8, <3>1, SameDigest
      <3>5. PolicyTarget(job.policy, v.used, v.gid) = PolicyTarget(job.policy, sig.used, v.gid)
        BY <3>3, SameRows DEF PolicyTarget
      <3>6. v.pk = core.pk /\ v.gid = sig.gid
        BY <2>5, <2>10, <2>12
      <3> QED
        BY <2>16, <3>2, <3>4, <3>5, <3>6
    <2>17. CASE damaged = "policy"
      <3>1. CASE answer.form = "struct"
        <4>1. Digest[sig.policy] = sig.digest
          BY <2>6, <2>8, <3>1
        <4>2. s.digest = core.digest
          BY <2>5
        <4> QED
          BY <2>3, <2>10, <2>12, <2>17, <4>1, <4>2
      <3> QED
        BY <2>1, <2>17, <3>1
    <2>18. CASE damaged = "message"
      <3>1. answer.form # "struct"
        BY <2>5, <2>6, <2>12, <2>18
      <3> QED
        BY <2>1, <2>18, <3>1
    <2> QED
      BY <2>14, <2>15, <2>16, <2>17, <2>18
  <1> QED
    BY <1>1, Invariance, OriginInvariance, PTL

(* The verifier looks at attributes through the rows they own only.        *)
LEMMA SameVerdict ==
    ASSUME NEW p, NEW m, NEW s, NEW v,
           v.policy = s.policy, v.message = s.message, v.challenge = s.challenge, v.hint = s.hint,
           v.digest = s.digest, v.delta = s.delta, v.tag = s.tag, v.pk = s.pk, v.tau = s.tau,
           v.gid = s.gid, v.z = s.z,
           v.used = UsedAttributes(p, s.used),
           v.used \in Satisfying[p] <=> s.used \in Satisfying[p]
    PROVE  VerifyStruct(v, m, p) = VerifyStruct(s, m, p)
  <1>1. FirewallTag(v) = FirewallTag(s)
    BY DEF FirewallTag
  <1>2. WellFormed(v, m, p) <=> WellFormed(s, m, p)
    BY <1>1 DEF WellFormed
  <1>3. Rows(p, v.used) = Rows(p, s.used)
    BY SameRows
  <1>4. Reconstructs(p, v.used) <=> Reconstructs(p, s.used)
    BY <1>3 DEF Reconstructs
  <1>5. PolicyTarget(p, v.used, v.gid) = PolicyTarget(p, s.used, s.gid)
    BY <1>3 DEF PolicyTarget
  <1>6. \A target : Commitment(v, target) = Commitment(s, target)
    BY DEF Commitment
  <1> QED
    BY <1>2, <1>4, <1>5, <1>6 DEF VerifyStruct

(* A tag other than its own gets a record rejected.                        *)
LEMMA ForeignTag ==
    ASSUME NEW v, NEW m, NEW p, v.tag # FirewallTag(v)
    PROVE  VerifyStruct(v, m, p) = "rejected"
  BY DEF VerifyStruct, WellFormed

(* The struct and the compact form of a signature get one verdict:         *)
(* verify_compact_signature (verify.rs) after compress and decompress of   *)
(* serialization/mod.rs.                                                   *)
THEOREM FormsAgreement == Spec => []FormsAgree
  <1>1. IInv /\ Origin => FormsAgree
    <2> SUFFICES ASSUME IInv, Origin, phase = "signed", damaged \notin {"policy", "message"},
                        NEW m \in Messages
                 PROVE  VerifyCompact(Compress(sig), m, sig.policy) = VerifyStruct(sig, m, sig.policy)
      BY DEF FormsAgree
    <2>1. PICK y : core = CoreSignature(job, delta, y)
      BY DEF IInv, CoreMade
    <2>2. /\ core.policy = job.policy /\ job.policy \in Policies
          /\ core.used = UsedAttributes(job.policy, Holds[job.user])
      BY <2>1, CoreFields DEF IInv, JobMade, Jobs
    <2>3. PICK r \in -Eta2..Eta2 : \E s :
              /\ Abs(Masked(r)) < ZBound /\ Masked(r) \in Int
              /\ s.z = Reduced(Masked(r))
              /\ s.policy = core.policy /\ s.used = core.used
              /\ s.tag = FirewallTag(s) /\ sig.tag = s.tag
              /\ \A x \in Fields : x # damaged => sig[x] = s[x]
              /\ damaged # None => sig[damaged] # s[damaged]
      BY IssuedBehind
    <2>4. PICK s :
              /\ Abs(Masked(r)) < ZBound /\ Masked(r) \in Int
              /\ s.z = Reduced(Masked(r))
              /\ s.policy = core.policy /\ s.used = core.used
              /\ s.tag = FirewallTag(s) /\ sig.tag = s.tag
              /\ \A x \in Fields : x # damaged => sig[x] = s[x]
              /\ damaged # None => sig[damaged] # s[damaged]
      BY <2>3
    <2>5. sig.policy = job.policy /\ sig.message = s.message
      BY <2>2, <2>4 DEF Fields
    <2>6. PICK v : v = Decompress(Compress(sig), sig.policy, m)
      OBVIOUS
    <2>7. VerifyCompact(Compress(sig), m, sig.policy) = VerifyStruct(v, m, sig.policy)
      <3>1. Compress(sig).witness_rows = Rows(sig.policy, sig.used)
        BY DEF Compress
      <3>2. Compress(sig).witness_rows \subseteq DOMAIN RowToAttr[sig.policy]
        BY <3>1 DEF Rows
      <3> QED
        BY <2>6, <3>2 DEF VerifyCompact
    <2>8. /\ damaged # "z" => sig.z = Reduced(Masked(r))
          /\ damaged = "z" => sig.z # Reduced(Masked(r))
      BY <2>4, NoneAssumption DEF Fields
    <2>9. /\ v.challenge = sig.challenge /\ v.hint = sig.hint /\ v.digest = sig.digest
          /\ v.delta = sig.delta /\ v.tag = sig.tag /\ v.pk = sig.pk /\ v.tau = sig.tau
          /\ v.gid = sig.gid
          /\ v.z = Reduced(Masked(r)) <=> damaged # "z"
      BY <2>4, <2>6, <2>8, Checked
    <2>10. v.policy = sig.policy /\ v.message = m /\ v.used = UsedAttributes(sig.policy, sig.used)
      BY <2>6, UnpackedFields DEF UsedAttributes
    <2>11. CASE m # sig.message
      <3>1. VerifyStruct(sig, m, sig.policy) = "rejected"
        BY <2>11 DEF VerifyStruct, WellFormed
      <3>2. v.tag # FirewallTag(v)
        BY <2>4, <2>5, <2>9, <2>10, <2>11, TagPins
      <3> QED
        BY <2>7, <3>1, <3>2, ForeignTag
    <2>12. CASE damaged = "z"
      <3>1. sig.tag # FirewallTag(sig)
        BY <2>4, <2>8, <2>12, TagPins
      <3>2. v.tag # FirewallTag(v)
        BY <2>4, <2>9, <2>12, TagPins
      <3> QED
        BY <2>7, <3>1, <3>2, ForeignTag
    <2>13. CASE m = sig.message /\ damaged # "z"
      <3>1. v.used \in Satisfying[sig.policy] <=> sig.used \in Satisfying[sig.policy]
        <4>1. CASE damaged = "used"
          <5>1. sig.used \in SUBSET Attributes
            BY <4>1, NoneAssumption DEF Origin, Fields
          <5> QED
            BY <2>2, <2>5, <2>10, <5>1, PolicyAssumption
        <4>2. CASE damaged # "used"
          <5>1. sig.used = UsedAttributes(sig.policy, Holds[job.user])
            BY <2>2, <2>4, <2>5, <4>2 DEF Fields
          <5>2. UsedAttributes(sig.policy, sig.used) = sig.used
            BY <5>1, SameRows DEF UsedAttributes
          <5> QED
            BY <2>10, <5>2
        <4> QED
          BY <4>1, <4>2
      <3>2. v.z = sig.z
        BY <2>8, <2>9, <2>13
      <3>3. VerifyStruct(v, m, sig.policy) = VerifyStruct(sig, m, sig.policy)
        BY <2>9, <2>10, <2>13, <3>1, <3>2, SameVerdict
      <3> QED
        BY <2>7, <3>3
    <2> QED
      BY <2>11, <2>12, <2>13
  <1> QED
    BY <1>1, Invariance, OriginInvariance, PTL

=============================================================================
