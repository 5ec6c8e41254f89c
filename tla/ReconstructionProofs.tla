------------------------ MODULE ReconstructionProofs ------------------------
(***************************************************************************)
(* Proofs about Reconstruction and SharingMatrix.                          *)
(*                                                                         *)
(* For any rows, the elimination keeps the solutions of the system, ends   *)
(* with it reduced, and constants read off leading pivots rebuild every    *)
(* secret.                                                                 *)
(*                                                                         *)
(* For the rows of any tree of gates, the elimination finds a solution for *)
(* exactly the attributes that satisfy the tree.  The rows built for a     *)
(* tree share the vector its builder was called with: rows held by         *)
(* attributes that satisfy it can be weighed, by 0 and 1, to that vector,  *)
(* and weights of the rows that cancel every column added for it weigh     *)
(* them to a multiple of it, which is 0 unless the attributes of the rows  *)
(* they weigh satisfy the tree (TreeShares, by induction on trees).  From  *)
(* there the argument goes through the selection of the rows held and the  *)
(* machine, which runs here on the rows of trees.                          *)
(***************************************************************************)
EXTENDS SharingMatrix, ModularSums

(* What the proofs use of the inverse of a residue.                        *)
LEMMA InverseFacts ==
    ASSUME NEW a \in Residues, a # 0
    PROVE  ModInverse(a) \in 1..(Q - 1) /\ (a * ModInverse(a)) % Q = 1
  <1>1. a \in 1..(Q - 1)
    BY ModulusFacts DEF Residues
  <1>2. \E b \in 1..(Q - 1) : (a * b) % Q = 1
    BY <1>1, FieldAssumption, Zenon
  <1> QED
    BY <1>2, Zenon DEF ModInverse

(* A residue is a whole number, and 0 and 1 are residues.                  *)
LEMMA ResidueFacts == (\A a \in Residues : a \in Int) /\ 0 \in Residues /\ 1 \in Residues
  BY ModulusFacts DEF Residues

(* The places of a vector are finitely many.                               *)
LEMMA PlacesFinite == \A n \in Nat : IsFiniteSet(1..n)
  BY FS_Interval

-----------------------------------------------------------------------------
(* Equations.                                                              *)

(* The equation eq in n unknowns holds of ws.                              *)
Holds(eq, ws, n) == Congruent(Dot(eq, ws, 1..n), eq[n + 1])

(* Whole numbers, as many as unknowns.                                     *)
Vectors(n) == [1..n -> Int]

(* Reduced equations in n unknowns.                                        *)
Equations(n) == [1..(n + 1) -> Residues]

(* An equation's weighted side is its right side when it holds.            *)
LEMMA WeightedHolds ==
    ASSUME NEW n \in Nat, NEW ws \in Vectors(n), NEW eq \in Equations(n)
    PROVE  Weighted(eq, ws) = eq[n + 1] <=> Holds(eq, ws, n)
  <1>1. Product(eq, ws) = Dot(eq, ws, 1..n)
    <2>1. DOMAIN ws = 1..n
      BY DEF Vectors
    <2> QED
      BY <2>1, Zenon DEF Product, Dot
  <1>2. IntsOn(eq, 1..n) /\ IntsOn(ws, 1..n) /\ IsFiniteSet(1..n)
    <2>1. IsFiniteSet(1..n)
      BY PlacesFinite
    <2>2. IntsOn(ws, 1..n)
      BY DEF IntsOn, Vectors
    <2>3. \A j \in 1..n : j \in 1..(n + 1)
      OBVIOUS
    <2>4. IntsOn(eq, 1..n)
      BY <2>3, ResidueFacts DEF IntsOn, Equations
    <2> QED
      BY <2>1, <2>2, <2>4
  <1>3. PICK d \in Int : d = Dot(eq, ws, 1..n)
    BY <1>2, DotInt
  <1>4. eq[n + 1] \in Residues
    BY DEF Equations
  <1>5. PICK b \in Residues : b = eq[n + 1]
    BY <1>4
  <1>6. PICK c : c = d % Q
    OBVIOUS
  <1>7. c \in 0..(Q - 1) /\ Congruent(c, d)
    BY <1>6, Residue
  <1>8. c = b <=> Congruent(d, b)
    <2>1. c = b => Congruent(d, b)
      BY <1>7, CongSym
    <2>2. ASSUME Congruent(d, b) PROVE c = b
      <3>1. Congruent(c, b)
        BY <1>7, <2>2, CongTrans
      <3> QED
        BY <1>7, <3>1, CongReduced DEF Residues
    <2> QED
      BY <2>1, <2>2
  <1> QED
    BY <1>1, <1>3, <1>5, <1>6, <1>8 DEF Weighted, Holds

(* Equation e is k times e1 and l times e2.                                *)
Combines(e, k, e1, l, e2, n) == \A j \in 1..(n + 1) : Congruent(e[j], k * e1[j] + l * e2[j])

(* What holds of two equations holds of their combinations.                *)
LEMMA Combination ==
    ASSUME NEW n \in Nat, NEW ws, IntsOn(ws, 1..n), NEW e, NEW e1, NEW e2,
           IntsOn(e1, 1..(n + 1)), IntsOn(e2, 1..(n + 1)), NEW k \in Int, NEW l \in Int,
           Combines(e, k, e1, l, e2, n),
           Holds(e1, ws, n), Holds(e2, ws, n)
    PROVE  Holds(e, ws, n)
  <1> DEFINE S == 1..n
             a == [j \in S |-> k * e1[j]]
             b == [j \in S |-> l * e2[j]]
             s == [j \in S |-> a[j] + b[j]]
  <1>1. IsFiniteSet(S) /\ S \subseteq 1..(n + 1) /\ n + 1 \in 1..(n + 1)
    BY PlacesFinite
  <1>2. IntsOn(e1, S) /\ IntsOn(e2, S) /\ IntsOn(ws, S)
    BY <1>1 DEF IntsOn
  <1>3. \A j \in S : a[j] = k * e1[j] /\ b[j] = l * e2[j] /\ s[j] = a[j] + b[j]
    OBVIOUS
  <1>4. IntsOn(a, S) /\ IntsOn(b, S)
    BY <1>2, <1>3, IntTimes DEF IntsOn
  <1>5. \A j \in S : Congruent(e[j], s[j])
    BY <1>1, <1>3 DEF Combines
  <1> HIDE DEF S, a, b, s
  <1>6. IntsOn(e, S) /\ IntsOn(s, S)
    BY <1>5 DEF IntsOn, Congruent
  <1>7. Congruent(Dot(ws, e, S), Dot(ws, s, S))
    BY <1>1, <1>2, <1>5, DotCong
  <1>8. Dot(ws, s, S) = Dot(ws, a, S) + Dot(ws, b, S)
    BY <1>1, <1>2, <1>3, <1>4, DotPlus
  <1>9. Dot(ws, a, S) = k * Dot(ws, e1, S) /\ Dot(ws, b, S) = l * Dot(ws, e2, S)
    <2>1. Multiple(a, k, e1, S) /\ Multiple(b, l, e2, S)
      BY <1>3 DEF Multiple
    <2>2. Dot(ws, a, S) = k * Dot(ws, e1, S)
      BY <1>1, <1>2, <2>1, DotTimes
    <2>3. Dot(ws, b, S) = l * Dot(ws, e2, S)
      BY <1>1, <1>2, <2>1, DotTimes
    <2> QED
      BY <2>2, <2>3
  <1>10. /\ Dot(ws, e, S) = Dot(e, ws, S)
         /\ Dot(ws, e1, S) = Dot(e1, ws, S)
         /\ Dot(ws, e2, S) = Dot(e2, ws, S)
    BY <1>1, <1>2, <1>6, DotInt
  <1>11. PICK d : d = Dot(e, ws, S)
    OBVIOUS
  <1>12. PICK d1 : d1 = Dot(e1, ws, S)
    OBVIOUS
  <1>13. PICK d2 : d2 = Dot(e2, ws, S)
    OBVIOUS
  <1>14. PICK t1 : t1 = e1[n + 1]
    OBVIOUS
  <1>15. PICK t2 : t2 = e2[n + 1]
    OBVIOUS
  <1>16. PICK t : t = e[n + 1]
    OBVIOUS
  <1>17. Congruent(d1, t1) /\ Congruent(d2, t2)
    BY <1>12, <1>13, <1>14, <1>15 DEF Holds, S
  <1>18. Congruent(k * d1, k * t1) /\ Congruent(l * d2, l * t2)
    BY <1>17, CongTimes
  <1>19. Congruent(k * d1 + l * d2, k * t1 + l * t2)
    BY <1>18, CongPlus
  <1>20. Congruent(d, k * d1 + l * d2)
    BY <1>7, <1>8, <1>9, <1>10, <1>11, <1>12, <1>13
  <1>21. Congruent(k * t1 + l * t2, t)
    BY <1>1, <1>14, <1>15, <1>16, CongSym DEF Combines
  <1>22. Congruent(d, t)
    BY <1>19, <1>20, <1>21, CongTrans
  <1> QED
    BY <1>11, <1>16, <1>22 DEF Holds, S

-----------------------------------------------------------------------------
(* Systems of m equations in n unknowns.                                   *)

(* m reduced equations in n unknowns.                                      *)
Systems(m, n) == [1..m -> Equations(n)]

(* All of them hold of ws.                                                 *)
AllHold(s, ws, m, n) == \A r \in 1..m : Holds(s[r], ws, n)

(* A system is solved when its equations hold.                             *)
LEMMA SolvesHold ==
    ASSUME NEW m \in Nat, NEW s \in Systems(m, NRows), NRows \in Nat, NEW ws \in Vectors(NRows)
    PROVE  Solves(s, ws) <=> AllHold(s, ws, m, NRows)
  <1>1. DOMAIN s = 1..m /\ \A r \in 1..m : s[r] \in Equations(NRows)
    BY DEF Systems
  <1>2. \A r \in 1..m : Weighted(s[r], ws) = s[r][NRows + 1] <=> Holds(s[r], ws, NRows)
    BY <1>1, WeightedHolds
  <1> QED
    BY <1>1, <1>2 DEF Solves, AllHold

(* Swapping equations.                                                     *)
LEMMA Swapping ==
    ASSUME NEW m \in Nat, NEW n \in Nat, NEW s \in Systems(m, n), NEW a \in 1..m, NEW b \in 1..m,
           NEW t, t = Swapped(s, a, b)
    PROVE  /\ t \in Systems(m, n)
           /\ t[a] = s[b] /\ t[b] = s[a]
           /\ \A ws : AllHold(t, ws, m, n) <=> AllHold(s, ws, m, n)
  <1>1. t[a] = s[b] /\ t[b] = s[a] /\ \A r \in 1..m : r # a /\ r # b => t[r] = s[r]
    BY DEF Swapped, Systems
  <1>2. t \in Systems(m, n)
    BY DEF Swapped, Systems
  <1>3. \A ws : AllHold(t, ws, m, n) <=> AllHold(s, ws, m, n)
    <2>1. ASSUME NEW ws PROVE AllHold(t, ws, m, n) <=> AllHold(s, ws, m, n)
      BY <1>1 DEF AllHold
    <2> QED
      BY <2>1
  <1> QED
    BY <1>1, <1>2, <1>3

(* Scaling one equation to 1 in a column and clearing the column in all    *)
(* the others: the columns that are zero in the scaled equation stay.      *)
LEMMA Clearing ==
    ASSUME NEW m \in Nat, NEW n \in Nat, m = NCols, n = NRows,
           NEW s \in Systems(m, n), NEW p \in 1..m, NEW c \in 1..n, s[p][c] # 0,
           NEW t, t = Cleared(s, p, c)
    PROVE  /\ t \in Systems(m, n)
           /\ t[p][c] = 1
           /\ \A r \in 1..m : r # p => t[r][c] = 0
           /\ \A d \in 1..n : s[p][d] = 0 => \A r \in 1..m : t[r][d] = s[r][d]
           /\ \A ws \in Vectors(n) : AllHold(t, ws, m, n) <=> AllHold(s, ws, m, n)
  <1>1. \A r \in 1..m : \A j \in 1..(n + 1) : s[r][j] \in Residues /\ s[r][j] \in Int
    BY ResidueFacts DEF Systems, Equations
  <1>2. c \in 1..(n + 1)
    OBVIOUS
  <1>3. PICK x \in Residues : x = s[p][c]
    BY <1>1, <1>2
  <1>4. PICK i : i = ModInverse(x)
    OBVIOUS
  <1>5. i \in Int /\ x \in Int /\ (x * i) % Q = 1
    BY <1>3, <1>4, InverseFacts, ResidueFacts, ModulusFacts
  <1>6. PICK normal : normal = [j \in 1..(n + 1) |-> (s[p][j] * i) % Q]
    OBVIOUS
  <1>7. t = [r \in 1..m |->
               IF r = p THEN normal
               ELSE [j \in 1..(n + 1) |-> (s[r][j] - s[r][c] * normal[j]) % Q]]
    BY <1>3, <1>4, <1>6, Zenon DEF Cleared
  <1>8. t[p] = normal
    BY <1>7
  <1>9. \A r \in 1..m : r # p => \A j \in 1..(n + 1) :
            t[r][j] = (s[r][j] - s[r][c] * normal[j]) % Q
    BY <1>7
  <1>10. ASSUME NEW j \in 1..(n + 1)
         PROVE  /\ normal[j] \in Residues
                /\ Congruent(normal[j], i * s[p][j])
                /\ Congruent(s[p][j], x * normal[j])
                /\ s[p][j] = 0 => normal[j] = 0
    <2>1. PICK y \in Int : y = s[p][j]
      BY <1>1
    <2>2. PICK z \in Int : z = y * i
      BY <1>5
    <2>3. PICK w : w = z % Q
      OBVIOUS
    <2>4. normal[j] = w
      BY <1>6, <2>1, <2>2, <2>3
    <2>5. w \in Residues /\ Congruent(w, z)
      BY <2>3, Residue DEF Residues
    <2>6. z = i * y
      BY <1>5, <2>2
    <2>7. Congruent(y, x * w)
      <3>1. PICK one \in Int : one = x * i
        BY <1>5
      <3>2. Congruent(1, one)
        BY <1>5, <3>1, Residue
      <3>3. Congruent(y * 1, y * one)
        BY <3>2, CongTimes
      <3>4. y * 1 = y
        OBVIOUS
      <3>5. y * one = x * z
        <4>1. x * (i * y) = y * (x * i)
          BY <1>5
        <4> QED
          BY <2>6, <3>1, <4>1
      <3>6. Congruent(x * z, x * w)
        <4>1. Congruent(z, w)
          BY <2>5, CongSym
        <4> QED
          BY <1>5, <4>1, CongTimes
      <3> QED
        BY <3>3, <3>4, <3>5, <3>6, CongTrans
    <2>8. y = 0 => w = 0
      <3>1. ASSUME y = 0 PROVE w = 0
        <4>1. z = 0
          BY <1>5, <2>2, <3>1
        <4>2. w = 0 % Q
          BY <2>3, <4>1
        <4>3. 0 \in 0..(Q - 1)
          BY ModulusFacts
        <4> QED
          BY <4>2, <4>3, SmallResidue
      <3> QED
        BY <3>1
    <2> QED
      BY <2>1, <2>4, <2>5, <2>6, <2>7, <2>8
  <1>11. \A j \in 1..(n + 1) : normal[j] \in Int
    BY <1>10, ResidueFacts
  <1>12. ASSUME NEW r \in 1..m, r # p, NEW j \in 1..(n + 1)
         PROVE  /\ t[r][j] \in Residues
                /\ Congruent(t[r][j], s[r][j] - s[r][c] * normal[j])
                /\ s[p][j] = 0 => t[r][j] = s[r][j]
    <2>1. PICK y \in Int : y = s[r][j] /\ y \in Residues
      BY <1>1
    <2>2. PICK k \in Int : k = s[r][c]
      BY <1>1, <1>2
    <2>3. PICK w \in Int : w = normal[j]
      BY <1>11
    <2>4. PICK z \in Int : z = y - k * w
      OBVIOUS
    <2>5. t[r][j] = z % Q
      BY <1>9, <1>12, <2>1, <2>2, <2>3, <2>4
    <2>6. (z % Q) \in Residues /\ Congruent(z % Q, z)
      BY Residue DEF Residues
    <2>7. ASSUME s[p][j] = 0 PROVE z % Q = y
      <3>1. w = 0
        BY <1>10, <2>3, <2>7
      <3>2. z = y
        BY <2>4, <3>1
      <3> QED
        BY <2>1, <3>2, SmallResidue DEF Residues
    <2> QED
      BY <2>1, <2>2, <2>3, <2>4, <2>5, <2>6, <2>7
  <1>13. t \in Systems(m, n)
    <2>1. ASSUME NEW r \in 1..m PROVE t[r] \in Equations(n)
      <3>1. \E f : t[r] = [j \in 1..(n + 1) |-> f[j]]
        <4>1. CASE r = p
          <5>1. t[r] = [j \in 1..(n + 1) |-> normal[j]]
            BY <1>6, <1>8, <4>1
          <5> QED
            BY <5>1
        <4>2. CASE r # p
          <5>1. t[r] = [j \in 1..(n + 1) |-> (s[r][j] - s[r][c] * normal[j]) % Q]
            BY <1>7, <4>2
          <5>2. t[r] = [j \in 1..(n + 1) |-> t[r][j]]
            BY <5>1
          <5> QED
            BY <5>2
        <4> QED
          BY <4>1, <4>2
      <3>2. \A j \in 1..(n + 1) : t[r][j] \in Residues
        BY <1>8, <1>10, <1>12
      <3> QED
        BY <3>1, <3>2 DEF Equations
    <2>2. t = [r \in 1..m |-> t[r]]
      BY <1>7
    <2> QED
      BY <2>1, <2>2 DEF Systems
  <1>14. t[p][c] = 1
    <2>1. normal[c] = (x * i) % Q
      BY <1>2, <1>3, <1>6
    <2> QED
      BY <1>5, <1>8, <2>1
  <1>15. ASSUME NEW r \in 1..m, r # p PROVE t[r][c] = 0
    <2>1. PICK k \in Int : k = s[r][c]
      BY <1>1, <1>2
    <2>2. normal[c] = 1
      BY <1>8, <1>14
    <2>3. t[r][c] = (k - k * 1) % Q
      BY <1>2, <1>9, <1>15, <2>1, <2>2
    <2>4. k - k * 1 = 0
      OBVIOUS
    <2>5. 0 \in 0..(Q - 1)
      BY ModulusFacts
    <2> QED
      BY <2>3, <2>4, <2>5, SmallResidue
  <1>16. \A d \in 1..n : s[p][d] = 0 => \A r \in 1..m : t[r][d] = s[r][d]
    <2>1. ASSUME NEW d \in 1..n, s[p][d] = 0, NEW r \in 1..m PROVE t[r][d] = s[r][d]
      <3>1. d \in 1..(n + 1)
        OBVIOUS
      <3> QED
        BY <1>8, <1>10, <1>12, <2>1, <3>1
    <2> QED
      BY <2>1
  <1>17. \A r \in 1..m : IntsOn(s[r], 1..(n + 1)) /\ IntsOn(t[r], 1..(n + 1))
    <2>1. \A r \in 1..m : \A j \in 1..(n + 1) : t[r][j] \in Int
      BY <1>13, ResidueFacts DEF Systems, Equations
    <2> QED
      BY <1>1, <2>1 DEF IntsOn
  <1>18. ASSUME NEW ws \in Vectors(n), AllHold(s, ws, m, n) PROVE AllHold(t, ws, m, n)
    <2>1. IntsOn(ws, 1..n)
      BY DEF Vectors, IntsOn
    <2>2. Holds(s[p], ws, n)
      BY <1>18 DEF AllHold
    <2>3. PICK e : e = s[p]
      OBVIOUS
    <2>4. IntsOn(e, 1..(n + 1)) /\ Holds(e, ws, n)
      BY <1>17, <2>2, <2>3
    <2>5. Combines(normal, i, e, 0, e, n)
      <3>1. ASSUME NEW j \in 1..(n + 1) PROVE Congruent(normal[j], i * e[j] + 0 * e[j])
        <4>1. PICK y \in Int : y = e[j]
          BY <1>1, <2>3
        <4>2. PICK z \in Int : z = i * y
          BY <1>5
        <4>3. z + 0 * y = z
          OBVIOUS
        <4> QED
          BY <1>10, <2>3, <4>1, <4>2, <4>3
      <3> QED
        BY <3>1 DEF Combines
    <2>6. Holds(normal, ws, n)
      <3>1. 0 \in Int /\ i \in Int
        BY <1>5
      <3> QED
        BY <2>1, <2>4, <2>5, <3>1, Combination
    <2>7. ASSUME NEW r \in 1..m, r # p PROVE Holds(t[r], ws, n)
      <3>1. PICK k \in Int : k = s[r][c]
        BY <1>1, <1>2
      <3>2. PICK g \in Int : g = -k
        OBVIOUS
      <3>3. PICK e1 : e1 = s[r]
        OBVIOUS
      <3>4. PICK u : u = t[r]
        OBVIOUS
      <3>5. Combines(u, 1, e1, g, normal, n)
        <4>1. ASSUME NEW j \in 1..(n + 1) PROVE Congruent(u[j], 1 * e1[j] + g * normal[j])
          <5>1. PICK y \in Int : y = e1[j]
            BY <1>1, <3>3
          <5>2. PICK w \in Int : w = normal[j]
            BY <1>11
          <5>3. y - k * w = 1 * y + g * w
            BY <3>2
          <5> QED
            BY <1>12, <2>7, <3>1, <3>3, <3>4, <5>1, <5>2, <5>3
        <4> QED
          BY <4>1 DEF Combines
      <3>6. IntsOn(e1, 1..(n + 1)) /\ IntsOn(normal, 1..(n + 1)) /\ Holds(e1, ws, n)
        BY <1>11, <1>17, <1>18, <3>3 DEF AllHold, IntsOn
      <3>7. 1 \in Int
        OBVIOUS
      <3>8. Holds(u, ws, n)
        BY <2>1, <2>6, <3>2, <3>5, <3>6, <3>7, Combination
      <3> QED
        BY <3>4, <3>8
    <2> QED
      BY <1>8, <2>6, <2>7 DEF AllHold
  <1>19. ASSUME NEW ws \in Vectors(n), AllHold(t, ws, m, n) PROVE AllHold(s, ws, m, n)
    <2>1. IntsOn(ws, 1..n)
      BY DEF Vectors, IntsOn
    <2>2. Holds(normal, ws, n)
      BY <1>8, <1>19 DEF AllHold
    <2>3. IntsOn(normal, 1..(n + 1))
      BY <1>11 DEF IntsOn
    <2>4. Holds(s[p], ws, n)
      <3>1. PICK e : e = s[p]
        OBVIOUS
      <3>2. Combines(e, x, normal, 0, normal, n)
        <4>1. ASSUME NEW j \in 1..(n + 1) PROVE Congruent(e[j], x * normal[j] + 0 * normal[j])
          <5>1. PICK y \in Int : y = normal[j]
            BY <1>11
          <5>2. PICK z \in Int : z = x * y
            BY <1>5
          <5>3. z + 0 * y = z
            OBVIOUS
          <5> QED
            BY <1>10, <3>1, <5>1, <5>2, <5>3
        <4> QED
          BY <4>1 DEF Combines
      <3>3. 0 \in Int /\ x \in Int
        BY <1>5
      <3>4. Holds(e, ws, n)
        BY <2>1, <2>2, <2>3, <3>2, <3>3, Combination
      <3> QED
        BY <3>1, <3>4
    <2>5. ASSUME NEW r \in 1..m, r # p PROVE Holds(s[r], ws, n)
      <3>1. PICK k \in Int : k = s[r][c]
        BY <1>1, <1>2
      <3>2. 1 \in Int
        OBVIOUS
      <3>3. PICK e1 : e1 = s[r]
        OBVIOUS
      <3>4. PICK u : u = t[r]
        OBVIOUS
      <3>5. IntsOn(u, 1..(n + 1)) /\ Holds(u, ws, n)
        BY <1>17, <1>19, <3>4 DEF AllHold
      <3>6. Combines(e1, 1, u, k, normal, n)
        <4>1. ASSUME NEW j \in 1..(n + 1) PROVE Congruent(e1[j], 1 * u[j] + k * normal[j])
          <5>1. PICK y \in Int : y = e1[j]
            BY <1>1, <3>3
          <5>2. PICK w \in Int : w = normal[j]
            BY <1>11
          <5>3. PICK b \in Int : b = u[j]
            BY <3>5 DEF IntsOn
          <5>4. PICK kw \in Int : kw = k * w
            OBVIOUS
          <5>5. Congruent(b, y - kw)
            BY <1>12, <2>5, <3>1, <3>3, <3>4, <5>1, <5>2, <5>3, <5>4
          <5>6. Congruent(b + kw, (y - kw) + kw)
            <6>1. Congruent(kw, kw)
              BY CongSame
            <6> QED
              BY <5>5, <6>1, CongPlus
          <5>7. (y - kw) + kw = y /\ b + kw = 1 * b + kw
            OBVIOUS
          <5>8. Congruent(y, 1 * b + kw)
            BY <5>6, <5>7, CongSym
          <5> QED
            BY <5>1, <5>2, <5>3, <5>4, <5>8
        <4> QED
          BY <4>1 DEF Combines
      <3>7. Holds(e1, ws, n)
        BY <2>1, <2>2, <2>3, <3>2, <3>5, <3>6, Combination
      <3> QED
        BY <3>3, <3>7
    <2> QED
      BY <2>4, <2>5 DEF AllHold
  <1> QED
    BY <1>13, <1>14, <1>15, <1>16, <1>18, <1>19

-----------------------------------------------------------------------------
(* What is read off a reduced system.                                      *)

(* A residue brought to the middle is the same residue.                    *)
LEMMA CenteredFacts ==
    ASSUME NEW v \in Residues
    PROVE  Centered(v) \in -(Q \div 2)..(Q \div 2) /\ Congruent(Centered(v), v)
  <1>1. v \in Int /\ Q \in Int /\ v >= 0 /\ v < Q
    BY ModulusFacts DEF Residues
  <1>2. PICK h \in Int : h = Q \div 2
    BY ModulusFacts
  <1>3. 2 * h <= Q /\ Q <= 2 * h + 1
    BY <1>2, ModulusFacts
  <1>4. CASE v <= h
    BY <1>1, <1>2, <1>3, <1>4, CongSame DEF Centered
  <1>5. CASE ~ (v <= h)
    <2>1. v - Q = v + (-1) * Q /\ -1 \in Int
      BY <1>1
    <2>2. Congruent(v - Q, v)
      BY <1>1, <2>1 DEF Congruent
    <2>3. v - Q \in -h..h
      BY <1>1, <1>2, <1>3, <1>5
    <2>4. Centered(v) = v - Q
      BY <1>2, <1>5 DEF Centered
    <2> QED
      BY <1>2, <2>2, <2>3, <2>4
  <1> QED
    BY <1>4, <1>5

(* The constants read off solve the system when the first k columns are    *)
(* those of the unit matrix and nothing is left below equation k.          *)
LEMMA ReadOffSolves ==
    ASSUME NEW m \in Nat, NEW n \in Nat, NEW s \in Systems(m, n), NEW k \in Nat, k <= m, k <= n,
           \A c \in 1..k : \A r \in 1..m : s[r][c] = IF r = c THEN 1 ELSE 0,
           \A c \in 1..n : \A r \in (k + 1)..m : s[r][c] = 0,
           \A r \in (k + 1)..m : s[r][n + 1] = 0,
           NEW ws \in Vectors(n),
           \A i \in 1..n : ws[i] = IF i <= k THEN Centered(s[i][n + 1]) ELSE 0
    PROVE  AllHold(s, ws, m, n)
  <1>1. IsFiniteSet(1..n)
    BY PlacesFinite
  <1>2. \A r \in 1..m : s[r][n + 1] \in Residues
    BY DEF Systems, Equations
  <1>3. \A i \in 1..n : ws[i] \in Int
    BY DEF Vectors
  <1>4. ASSUME NEW r \in 1..m, r <= k PROVE Holds(s[r], ws, n)
    <2> DEFINE f == [j \in 1..n |-> s[r][j] * ws[j]]
    <2>1. r \in 1..n /\ r \in 1..k
      BY <1>4
    <2>2. PICK w \in Int : w = ws[r]
      BY <1>3, <2>1
    <2>3. f[r] = w
      <3>1. s[r][r] = 1
        BY <2>1
      <3>2. 1 * w = w
        OBVIOUS
      <3> QED
        BY <2>1, <2>2, <3>1, <3>2
    <2>4. ASSUME NEW j \in 1..n, j # r PROVE f[j] = 0
      <3>1. CASE j <= k
        <4>1. s[r][j] = 0
          BY <2>4, <3>1
        <4> QED
          BY <1>3, <4>1
      <3>2. CASE ~ (j <= k)
        <4>1. ws[j] = 0
          BY <3>2
        <4>2. s[r][j] \in Int
          <5>1. j \in 1..(n + 1)
            OBVIOUS
          <5> QED
            BY <5>1, ResidueFacts DEF Systems, Equations
        <4> QED
          BY <4>1, <4>2
      <3> QED
        BY <3>1, <3>2
    <2>5. Dot(s[r], ws, 1..n) = SumFunctionOnSet(f, 1..n)
      BY DEF Dot
    <2> HIDE DEF f
    <2>6. SumFunctionOnSet(f, 1..n) = w
      <3>1. PICK S : S = 1..n
        OBVIOUS
      <3>2. PICK y : y = r
        OBVIOUS
      <3>3. y \in S /\ f[y] \in Int /\ \A j \in S : j # y => f[j] = 0
        BY <2>1, <2>3, <2>4, <3>1, <3>2
      <3>4. IsFiniteSet(S)
        BY <1>1, <3>1
      <3>5. SumFunctionOnSet(f, S) = f[y]
        BY <3>3, <3>4, SumSingle
      <3> QED
        BY <2>3, <3>1, <3>2, <3>5
    <2>7. PICK v \in Residues : v = s[r][n + 1]
      BY <1>2
    <2>8. w = Centered(v)
      BY <1>4, <2>1, <2>2, <2>7
    <2>9. Congruent(w, v)
      BY <2>8, CenteredFacts
    <2> QED
      BY <2>5, <2>6, <2>7, <2>9 DEF Holds
  <1>5. ASSUME NEW r \in 1..m, ~ (r <= k) PROVE Holds(s[r], ws, n)
    <2> DEFINE f == [j \in 1..n |-> s[r][j] * ws[j]]
    <2>1. r \in (k + 1)..m
      BY <1>5
    <2>2. ASSUME NEW j \in 1..n PROVE f[j] = 0
      <3>1. s[r][j] = 0
        BY <2>1
      <3> QED
        BY <1>3, <3>1
    <2>3. Dot(s[r], ws, 1..n) = SumFunctionOnSet(f, 1..n)
      BY DEF Dot
    <2> HIDE DEF f
    <2>4. SumFunctionOnSet(f, 1..n) = 0
      BY <1>1, <2>2, SumZero
    <2>5. s[r][n + 1] = 0
      BY <2>1
    <2> QED
      BY <2>3, <2>4, <2>5, CongSame DEF Holds
  <1> QED
    BY <1>4, <1>5 DEF AllHold

(* A system of which the columns pv are those of the unit matrix, and      *)
(* nothing is left below their equations.                                  *)
Reduced(s, pv, k, m, n) ==
    /\ s \in Systems(m, n) /\ k \in Nat /\ k <= m
    /\ \A i \in 1..k : pv[i] \in 1..n
    /\ \A i \in 1..k : \A r \in 1..m : s[r][pv[i]] = IF r = i THEN 1 ELSE 0
    /\ \A c \in 1..n : \A r \in (k + 1)..m : s[r][c] = 0
    /\ \A r \in (k + 1)..m : s[r][n + 1] = 0

(* Such a system has a solution: the right sides at the columns pv, and    *)
(* zeros at the others.                                                    *)
LEMMA ReducedSolvable ==
    ASSUME NEW m \in Nat, NEW n \in Nat, NEW s, NEW pv, NEW k, Reduced(s, pv, k, m, n)
    PROVE  \E ws \in Vectors(n) : AllHold(s, ws, m, n)
  <1> DEFINE hit(c) == \E i \in 1..k : pv[i] = c
             at(c) == CHOOSE i \in 1..k : pv[i] = c
             ws == [c \in 1..n |-> IF hit(c) THEN s[at(c)][n + 1] ELSE 0]
  <1>1. /\ s \in Systems(m, n) /\ k \in Nat /\ k <= m
        /\ \A i \in 1..k : pv[i] \in 1..n
        /\ \A i \in 1..k : \A r \in 1..m : s[r][pv[i]] = IF r = i THEN 1 ELSE 0
        /\ \A c \in 1..n : \A r \in (k + 1)..m : s[r][c] = 0
        /\ \A r \in (k + 1)..m : s[r][n + 1] = 0
    BY DEF Reduced
  <1>2. \A r \in 1..m : \A j \in 1..(n + 1) : s[r][j] \in Int
    BY <1>1, ResidueFacts DEF Systems, Equations
  <1>3. \A i \in 1..k : i \in 1..m
    BY <1>1
  <1>4. ASSUME NEW c \in 1..n, hit(c) PROVE at(c) \in 1..k /\ pv[at(c)] = c
    BY <1>4
  <1>5. ASSUME NEW i \in 1..k PROVE hit(pv[i]) /\ at(pv[i]) = i
    <2>1. pv[i] \in 1..n /\ hit(pv[i])
      BY <1>1
    <2>2. PICK j \in 1..k : j = at(pv[i]) /\ pv[j] = pv[i]
      BY <1>4, <2>1
    <2>3. s[i][pv[i]] = 1 /\ s[i][pv[j]] = IF i = j THEN 1 ELSE 0
      BY <1>1, <1>3
    <2>4. i = j
      BY <2>2, <2>3
    <2> QED
      BY <2>1, <2>2, <2>4
  <1> HIDE DEF at
  <1>6. ASSUME NEW c \in 1..n
        PROVE  ws[c] \in Int /\ (~ hit(c) => ws[c] = 0) /\ (hit(c) => ws[c] = s[at(c)][n + 1])
    <2>1. n + 1 \in 1..(n + 1)
      OBVIOUS
    <2>2. hit(c) => s[at(c)][n + 1] \in Int
      BY <1>2, <1>3, <1>4, <2>1
    <2> QED
      BY <2>2
  <1>7. ws \in Vectors(n)
    BY <1>6 DEF Vectors
  <1> HIDE DEF ws
  <1>8. IsFiniteSet(1..n)
    BY PlacesFinite
  <1>9. ASSUME NEW r \in 1..m, r <= k PROVE Holds(s[r], ws, n)
    <2> DEFINE f == [j \in 1..n |-> s[r][j] * ws[j]]
    <2>1. r \in 1..k
      BY <1>9
    <2>2. PICK y \in 1..n : y = pv[r]
      BY <1>1, <2>1
    <2>3. PICK w \in Int : w = ws[y]
      BY <1>6
    <2>4. w = s[r][n + 1]
      BY <1>5, <1>6, <2>1, <2>2, <2>3
    <2>5. f[y] = w
      <3>1. s[r][y] = 1
        BY <1>1, <2>1, <2>2
      <3>2. 1 * w = w
        OBVIOUS
      <3> QED
        BY <2>3, <3>1, <3>2
    <2>6. ASSUME NEW j \in 1..n, j # y PROVE f[j] = 0
      <3>1. CASE hit(j)
        <4>1. PICK i \in 1..k : pv[i] = j
          BY <3>1
        <4>2. r # i
          BY <2>2, <2>6, <4>1
        <4>3. s[r][j] = 0
          BY <1>1, <4>1, <4>2
        <4> QED
          BY <1>6, <4>3
      <3>2. CASE ~ hit(j)
        <4>1. ws[j] = 0
          BY <1>6, <3>2
        <4>2. j \in 1..(n + 1)
          OBVIOUS
        <4>3. s[r][j] \in Int
          BY <1>2, <4>2
        <4> QED
          BY <4>1, <4>3
      <3> QED
        BY <3>1, <3>2
    <2>7. Dot(s[r], ws, 1..n) = SumFunctionOnSet(f, 1..n)
      BY DEF Dot
    <2> HIDE DEF f
    <2>8. PICK S : S = 1..n
      OBVIOUS
    <2>9. y \in S /\ f[y] \in Int /\ (\A j \in S : j # y => f[j] = 0) /\ IsFiniteSet(S)
      BY <1>8, <2>3, <2>5, <2>6, <2>8
    <2>10. SumFunctionOnSet(f, S) = f[y]
      BY <2>9, SumSingle
    <2>11. Dot(s[r], ws, 1..n) = s[r][n + 1]
      BY <2>4, <2>5, <2>7, <2>8, <2>10
    <2> QED
      BY <2>3, <2>4, <2>11, CongSame DEF Holds
  <1>10. ASSUME NEW r \in 1..m, ~ (r <= k) PROVE Holds(s[r], ws, n)
    <2> DEFINE f == [j \in 1..n |-> s[r][j] * ws[j]]
    <2>1. r \in (k + 1)..m
      BY <1>1, <1>10
    <2>2. ASSUME NEW j \in 1..n PROVE f[j] = 0
      <3>1. s[r][j] = 0
        BY <1>1, <2>1
      <3> QED
        BY <1>6, <3>1
    <2>3. Dot(s[r], ws, 1..n) = SumFunctionOnSet(f, 1..n)
      BY DEF Dot
    <2> HIDE DEF f
    <2>4. SumFunctionOnSet(f, 1..n) = 0
      BY <1>8, <2>2, SumZero
    <2>5. s[r][n + 1] = 0
      BY <1>1, <2>1
    <2> QED
      BY <2>3, <2>4, <2>5, CongSame DEF Holds
  <1> QED
    BY <1>7, <1>9, <1>10 DEF AllHold

-----------------------------------------------------------------------------
(* The machine.                                                            *)

(* The columns of the rows held, when some are.                            *)
Width == Len(rows[1].vec)

(* The shape of the system, and where the machine is.                      *)
Shape ==
    /\ phase \in {"parse", "choose", "eliminate", "none", "some", "refused"}
    /\ IsRows(rows)
    /\ col \in 1..(NRows + 1)
    /\ rows = <<>> => augmented = <<>>
    /\ rows # <<>> => augmented \in Systems(Width, NRows)
    /\ pivots \in Seq(Nat)
    /\ \A i \in DOMAIN pivots : pivots[i] \in 1..(col - 1)
    /\ Len(pivots) <= NCols
    /\ phase \in {"parse", "choose"} => rows = <<>> /\ col = 1 /\ pivots = <<>>
    /\ phase \in {"eliminate", "some"} => rows # <<>>
    /\ phase = "some" => omega \in [1..NRows -> -(Q \div 2)..(Q \div 2)]

(* The rows, when there are some, and their system.                        *)
LEMMA RowsFacts ==
    ASSUME NEW rs, IsRows(rs), rs # <<>>, NEW w, w = Len(rs[1].vec), NEW n, n = Len(rs)
    PROVE  /\ n \in Nat \ {0} /\ w \in Nat \ {0}
           /\ DOMAIN rs = 1..n
           /\ \A j \in 1..n : DOMAIN rs[j].vec = 1..w /\ \A c \in 1..w : rs[j].vec[c] \in Int
           /\ System(rs) \in Systems(w, n)
  <1>1. w \in Nat \ {0} /\ rs \in Seq([vec : [1..w -> Int], attr : Attributes])
    BY DEF IsRows
  <1>2. n \in Nat \ {0} /\ DOMAIN rs = 1..n /\ \A j \in 1..n : rs[j].vec \in [1..w -> Int]
    <2>1. PICK T : T = [vec : [1..w -> Int], attr : Attributes]
      OBVIOUS
    <2>2. rs \in Seq(T) /\ rs # <<>>
      BY <1>1, <2>1
    <2>3. n \in Nat \ {0} /\ DOMAIN rs = 1..n /\ \A j \in 1..n : rs[j] \in T
      BY <2>2
    <2>4. \A x \in T : x.vec \in [1..w -> Int]
      BY <2>1
    <2> QED
      BY <2>3, <2>4
  <1>3. \A j \in 1..n : DOMAIN rs[j].vec = 1..w /\ \A c \in 1..w : rs[j].vec[c] \in Int
    BY <1>2
  <1>4. ASSUME NEW i \in 1..w
        PROVE  [j \in 1..(n + 1) |-> IF j <= n THEN rs[j].vec[i] % Q ELSE IF i = 1 THEN 1 ELSE 0]
                  \in Equations(n)
    <2>1. \A j \in 1..n : (rs[j].vec[i] % Q) \in Residues
      BY <1>3, Residue DEF Residues
    <2>2. \A j \in 1..(n + 1) : (IF j <= n THEN rs[j].vec[i] % Q ELSE IF i = 1 THEN 1 ELSE 0)
                                   \in Residues
      BY <1>2, <2>1, ResidueFacts
    <2> QED
      BY <2>2 DEF Equations
  <1>5. System(rs) \in Systems(w, n)
    BY <1>4, Zenon DEF System, Systems
  <1> QED
    BY <1>1, <1>2, <1>3, <1>5

(* The least candidate is a candidate.                                     *)
LEMMA LeastCandidate ==
    ASSUME Candidates(col) # {}, Len(pivots) \in Nat, NCols \in Nat
    PROVE  Min(Candidates(col)) \in Candidates(col)
  <1> DEFINE S == Candidates(col)
             R == {p \in Nat \X Nat : p[1] < p[2]}
  <1>1. S \subseteq Nat
    BY DEF Candidates
  <1>2. IsWellFoundedOn(R, Nat)
    BY NatLessThanWellFounded DEF OpToRel
  <1>3. PICK x \in S : \A y \in S : ~ (<<y, x>> \in R)
    BY <1>1, <1>2, WFMin
  <1>4. \A y \in S : x <= y
    <2>1. ASSUME NEW y \in S, y < x PROVE FALSE
      <3>1. <<y, x>> \in Nat \X Nat /\ <<y, x>>[1] = y /\ <<y, x>>[2] = x
        BY <1>1
      <3> QED
        BY <1>3, <2>1, <3>1
    <2> QED
      BY <1>1, <2>1
  <1> HIDE DEF S
  <1> QED
    BY <1>3, <1>4 DEF Min, S

(* While there are rows, there is a system of their width.                 *)
LEMMA ShapeFacts ==
    ASSUME Shape, rows # <<>>
    PROVE  /\ NRows \in Nat \ {0} /\ NCols = Width /\ Width \in Nat \ {0}
           /\ augmented \in Systems(NCols, NRows)
           /\ System(rows) \in Systems(NCols, NRows)
           /\ Len(pivots) \in Nat /\ Len(pivots) <= NCols /\ DOMAIN pivots = 1..Len(pivots)
  <1>1. PICK w : w = Width
    OBVIOUS
  <1>2. PICK n : n = NRows
    OBVIOUS
  <1>3. n \in Nat \ {0} /\ w \in Nat \ {0} /\ System(rows) \in Systems(w, n)
    <2>1. IsRows(rows) /\ w = Len(rows[1].vec) /\ n = Len(rows)
      BY <1>1, <1>2 DEF Shape, Width, NRows
    <2> QED
      BY <2>1, RowsFacts
  <1>4. augmented \in Systems(w, n)
    BY <1>1, <1>2 DEF Shape
  <1>5. NCols = w
    <2>1. augmented = [i \in 1..w |-> augmented[i]]
      BY <1>4 DEF Systems
    <2>2. w \in Nat
      BY <1>3
    <2> QED
      BY <2>1, <2>2 DEF NCols
  <1>6. Len(pivots) \in Nat /\ Len(pivots) <= NCols /\ DOMAIN pivots = 1..Len(pivots)
    BY DEF Shape
  <1> QED
    BY <1>1, <1>2, <1>3, <1>4, <1>5, <1>6

(* One column with a pivot: what the next system is.                       *)
LEMMA Pivoting ==
    ASSUME Shape, Eliminate, NEW m \in Nat, m = NCols, NEW n \in Nat, n = NRows,
           NEW p \in Nat, p = Len(pivots) + 1
    PROVE  /\ p \in 1..m /\ col \in 1..n
           /\ augmented' \in Systems(m, n)
           /\ augmented'[p][col] = 1
           /\ \A r \in 1..m : r # p => augmented'[r][col] = 0
           /\ \A d \in 1..n : (\A r \in p..m : augmented[r][d] = 0) =>
                 \A r \in 1..m : augmented'[r][d] = augmented[r][d]
           /\ \A ws \in Vectors(n) : AllHold(augmented', ws, m, n) <=> AllHold(augmented, ws, m, n)
  <1>1. /\ n \in Nat /\ m \in Nat /\ augmented \in Systems(m, n)
        /\ Len(pivots) \in Nat
    <2>1. rows # <<>>
      BY DEF Shape, Eliminate
    <2> QED
      BY <2>1, ShapeFacts
  <1>2. col \in 1..n
    BY <1>1 DEF Shape, Eliminate
  <1>3. PICK q : q = Min(Candidates(col))
    OBVIOUS
  <1>4. q \in p..m /\ augmented[q][col] # 0
    <2>1. q \in Candidates(col)
      BY <1>1, <1>3, LeastCandidate DEF Eliminate
    <2> QED
      BY <2>1 DEF Candidates
  <1>5. p \in 1..m /\ q \in 1..m
    BY <1>1, <1>4
  <1>6. PICK s : s = Swapped(augmented, p, q)
    OBVIOUS
  <1>7. PICK t : t = Cleared(s, p, col)
    OBVIOUS
  <1>8. augmented' = t
    BY <1>3, <1>6, <1>7 DEF Eliminate
  <1>9. /\ s \in Systems(m, n)
        /\ s[p] = augmented[q] /\ s[q] = augmented[p]
        /\ \A r \in 1..m : r # p /\ r # q => s[r] = augmented[r]
        /\ \A ws : AllHold(s, ws, m, n) <=> AllHold(augmented, ws, m, n)
    <2>1. PICK a : a = augmented
      OBVIOUS
    <2>2. PICK i \in 1..m : i = p
      BY <1>5
    <2>3. PICK j \in 1..m : j = q
      BY <1>5
    <2>4. a \in Systems(m, n) /\ s = Swapped(a, i, j)
      BY <1>1, <1>6, <2>1, <2>2, <2>3
    <2>5. /\ s \in Systems(m, n)
          /\ s[i] = a[j] /\ s[j] = a[i]
          /\ \A r \in 1..m : r # i /\ r # j => s[r] = a[r]
          /\ \A ws : AllHold(s, ws, m, n) <=> AllHold(a, ws, m, n)
      <3>1. s \in Systems(m, n) /\ s[i] = a[j] /\ s[j] = a[i]
        BY <2>4, Swapping
      <3>2. ASSUME NEW r \in 1..m, r # i, r # j PROVE s[r] = a[r]
        BY <2>4, <3>2 DEF Swapped, Systems
      <3>3. \A ws : AllHold(s, ws, m, n) <=> AllHold(a, ws, m, n)
        BY <2>4, Swapping
      <3> QED
        BY <3>1, <3>2, <3>3
    <2> QED
      BY <2>1, <2>2, <2>3, <2>5
  <1>10. s[p][col] # 0
    BY <1>4, <1>9
  <1>11. /\ t \in Systems(m, n)
         /\ t[p][col] = 1
         /\ \A r \in 1..m : r # p => t[r][col] = 0
         /\ \A d \in 1..n : s[p][d] = 0 => \A r \in 1..m : t[r][d] = s[r][d]
         /\ \A ws \in Vectors(n) : AllHold(t, ws, m, n) <=> AllHold(s, ws, m, n)
    <2>1. PICK c \in 1..n : c = col
      BY <1>2
    <2>2. t = Cleared(s, p, c) /\ s[p][c] # 0
      BY <1>7, <1>10, <2>1
    <2>3. /\ t \in Systems(m, n)
          /\ t[p][c] = 1
          /\ \A r \in 1..m : r # p => t[r][c] = 0
          /\ \A d \in 1..n : s[p][d] = 0 => \A r \in 1..m : t[r][d] = s[r][d]
          /\ \A ws \in Vectors(n) : AllHold(t, ws, m, n) <=> AllHold(s, ws, m, n)
      BY <1>1, <1>5, <1>9, <2>2, Clearing
    <2> QED
      BY <2>1, <2>3
  <1>12. ASSUME NEW d \in 1..n, \A r \in p..m : augmented[r][d] = 0, NEW r \in 1..m
         PROVE  t[r][d] = augmented[r][d]
    <2>1. p \in p..m /\ q \in p..m
      BY <1>4, <1>5
    <2>2. s[p][d] = 0 /\ s[q][d] = 0 /\ augmented[p][d] = 0 /\ augmented[q][d] = 0
      BY <1>9, <1>12, <2>1
    <2>3. s[r][d] = augmented[r][d]
      BY <1>9, <2>2
    <2> QED
      BY <1>11, <2>2, <2>3
  <1>13. \A ws \in Vectors(n) : AllHold(t, ws, m, n) <=> AllHold(augmented, ws, m, n)
    BY <1>9, <1>11
  <1> QED
    BY <1>2, <1>5, <1>8, <1>11, <1>12, <1>13

-----------------------------------------------------------------------------
(* The inductive invariant.                                                *)

(* The system has the solutions it started with, among all whole numbers.  *)
Kept ==
    phase = "eliminate" =>
        \A ws \in Vectors(NRows) : Solves(augmented, ws) <=> Solves(System(rows), ws)

(* Constants that are returned after a pivot in each of the first columns  *)
(* solve the system that was made of the rows.                             *)
Returned == phase = "some" /\ (\A i \in DOMAIN pivots : pivots[i] = i) => Rebuilds(omega)

(* The invariant.                                                          *)
IInv == Shape /\ Kept /\ ReducedBehind /\ Returned

(* Where the elimination ends.                                             *)
Ended == IInv /\ phase = "eliminate" /\ col > NRows

(* What it then leaves is reduced, unless it is inconsistent.              *)
LEMMA EndReduced ==
    ASSUME Ended, ~ Inconsistent
    PROVE  /\ rows # <<>> /\ NRows \in Nat /\ NCols \in Nat
           /\ Reduced(augmented, pivots, Len(pivots), NCols, NRows)
  <1>1. Shape /\ rows # <<>>
    BY DEF Ended, IInv, Shape
  <1>2. /\ NRows \in Nat /\ NCols \in Nat /\ augmented \in Systems(NCols, NRows)
        /\ Len(pivots) \in Nat /\ Len(pivots) <= NCols /\ DOMAIN pivots = 1..Len(pivots)
    BY <1>1, ShapeFacts
  <1>3. col - 1 = NRows
    BY <1>1, <1>2 DEF Ended, Shape
  <1>4. \A i \in 1..Len(pivots) : pivots[i] \in 1..NRows
    BY <1>1, <1>2, <1>3 DEF Shape
  <1>5. /\ \A i \in 1..Len(pivots) : \A r \in 1..NCols :
              augmented[r][pivots[i]] = IF r = i THEN 1 ELSE 0
        /\ \A c \in 1..NRows : \A r \in (Len(pivots) + 1)..NCols : augmented[r][c] = 0
    BY <1>2, <1>3 DEF Ended, IInv, ReducedBehind
  <1>6. \A r \in (Len(pivots) + 1)..NCols : augmented[r][NRows + 1] = 0
    BY DEF Inconsistent
  <1> QED
    BY <1>1, <1>2, <1>4, <1>5, <1>6 DEF Reduced

(* Unless the system that is left is inconsistent, the rows had a solution.*)
LEMMA EndSolvable ==
    ASSUME Ended, ~ Inconsistent
    PROVE  \E ws \in Vectors(NRows) : Solves(System(rows), ws)
  <1>1. /\ rows # <<>> /\ NRows \in Nat /\ NCols \in Nat
        /\ Reduced(augmented, pivots, Len(pivots), NCols, NRows)
    BY EndReduced
  <1>2. PICK ws \in Vectors(NRows) : AllHold(augmented, ws, NCols, NRows)
    BY <1>1, ReducedSolvable
  <1>3. augmented \in Systems(NCols, NRows)
    BY <1>1 DEF Reduced
  <1>4. Solves(augmented, ws)
    BY <1>1, <1>2, <1>3, SolvesHold
  <1>5. Solves(System(rows), ws)
    BY <1>4 DEF Ended, IInv, Kept
  <1> QED
    BY <1>5
(* The constants read off after a pivot in each of the first columns are a *)
(* solution.                                                               *)
LEMMA ReadSolves ==
    ASSUME Ended, ~ Inconsistent, \A i \in DOMAIN pivots : pivots[i] = i
    PROVE  ReadConstants \in Vectors(NRows) /\ Solves(System(rows), ReadConstants)
  <1>1. /\ rows # <<>> /\ NRows \in Nat /\ NCols \in Nat
        /\ Reduced(augmented, pivots, Len(pivots), NCols, NRows)
    BY EndReduced
  <1>2. PICK m \in Nat, n \in Nat : m = NCols /\ n = NRows
    BY <1>1
  <1>3. PICK s : s = augmented
    OBVIOUS
  <1>4. PICK k \in Nat : k = Len(pivots)
    BY <1>1 DEF Reduced
  <1>5. PICK ws : ws = ReadConstants
    OBVIOUS
  <1>6. /\ s \in Systems(m, n) /\ k <= m
        /\ \A i \in 1..k : i \in 1..n
        /\ \A i \in 1..k : \A r \in 1..m : s[r][i] = IF r = i THEN 1 ELSE 0
        /\ \A c \in 1..n : \A r \in (k + 1)..m : s[r][c] = 0
        /\ \A r \in (k + 1)..m : s[r][n + 1] = 0
    <2>1. Reduced(s, pivots, k, m, n)
      BY <1>1, <1>2, <1>3, <1>4
    <2>2. \A i \in 1..k : pivots[i] = i
      <3>1. DOMAIN pivots = 1..k
        BY <1>4 DEF Ended, IInv, Shape
      <3> QED
        BY <3>1
    <2> QED
      BY <2>1, <2>2 DEF Reduced
  <1>7. k <= n
    <2>1. CASE k = 0
      BY <2>1
    <2>2. CASE k # 0
      BY <1>6, <2>2
    <2> QED
      BY <2>1, <2>2
  <1>8. \A i \in 1..n : ws[i] = IF i <= k THEN Centered(s[i][n + 1]) ELSE 0
    BY <1>2, <1>3, <1>4, <1>5 DEF ReadConstants
  <1>9. ws \in Vectors(n)
    <2>1. ws = [i \in 1..n |-> ws[i]]
      BY <1>2, <1>5 DEF ReadConstants
    <2>2. ASSUME NEW i \in 1..n PROVE ws[i] \in Int
      <3>1. CASE i <= k
        <4>1. i \in 1..m /\ n + 1 \in 1..(n + 1)
          BY <1>6, <3>1
        <4>2. s[i][n + 1] \in Residues
          BY <1>6, <4>1 DEF Systems, Equations
        <4>3. PICK h \in Int : h = Q \div 2
          BY ModulusFacts
        <4>4. Centered(s[i][n + 1]) \in -h..h
          BY <4>2, <4>3, CenteredFacts
        <4> QED
          BY <1>8, <3>1, <4>4
      <3>2. CASE ~ (i <= k)
        BY <1>8, <3>2
      <3> QED
        BY <3>1, <3>2
    <2> QED
      BY <2>1, <2>2 DEF Vectors
  <1>10. AllHold(s, ws, m, n)
    BY <1>6, <1>7, <1>8, <1>9, ReadOffSolves
  <1>11. Solves(s, ws)
    <2>1. s \in Systems(m, NRows) /\ ws \in Vectors(NRows)
      BY <1>2, <1>6, <1>9
    <2> QED
      BY <1>2, <1>10, <2>1, SolvesHold
  <1> QED
    BY <1>2, <1>3, <1>5, <1>9, <1>11 DEF Ended, IInv, Kept

(* The machine starts in the invariant.                                    *)
LEMMA Initially == MachineInit => IInv
  <1> SUFFICES ASSUME MachineInit PROVE IInv
    OBVIOUS
  <1> USE DEF MachineInit
  <1>1. IsRows(rows) /\ NRows = 0 /\ NCols = 0 /\ Len(pivots) = 0 /\ DOMAIN pivots = {}
    BY DEF IsRows, NRows, NCols
  <1>2. Shape
    BY <1>1 DEF Shape
  <1> QED
    BY <1>2 DEF IInv, Kept, ReducedBehind, Returned

(* Before there are rows nothing is claimed of them.                       *)
LEMMA PrepareKeeps == IInv /\ Prepare => IInv'
  BY DEF IInv, Shape, Kept, ReducedBehind, Returned, Prepare, IsRows, NRows, NCols, Width

(* The system that is made of the rows has the solutions it starts with.   *)
LEMMA BeginKeeps == IInv /\ IsRows(rows') /\ Begin => IInv'
  <1> SUFFICES ASSUME IInv, IsRows(rows'), Begin PROVE IInv'
    OBVIOUS
  <1>1. phase = "choose" /\ rows = <<>> /\ augmented = <<>> /\ col = 1 /\ pivots = <<>>
    BY DEF Begin, IInv, Shape
  <1>2. col' = 1 /\ pivots' = <<>> /\ Len(pivots') = 0 /\ DOMAIN pivots' = {}
    BY <1>1 DEF Begin
  <1>3. CASE rows' = <<>>
    <2>1. phase' = "none" /\ augmented' = <<>> /\ Len(rows') = 0 /\ Len(augmented') = 0
      BY <1>1, <1>3 DEF Begin
    <2>2. Shape'
      BY <1>2, <1>3, <2>1 DEF Shape, NRows, NCols
    <2> QED
      BY <2>1, <2>2 DEF IInv, Kept, ReducedBehind, Returned
  <1>4. CASE rows' # <<>>
    <2>1. phase' = "eliminate" /\ augmented' = System(rows')
      BY <1>4 DEF Begin
    <2>2. PICK rs : rs = rows'
      OBVIOUS
    <2>3. PICK w : w = Len(rs[1].vec)
      OBVIOUS
    <2>4. PICK n : n = Len(rs)
      OBVIOUS
    <2>5. n \in Nat \ {0} /\ w \in Nat \ {0} /\ System(rs) \in Systems(w, n)
      BY <1>4, <2>2, <2>3, <2>4, RowsFacts
    <2>6. Width' = w /\ NRows' = n /\ augmented' \in Systems(w, n)
      BY <2>1, <2>2, <2>3, <2>4, <2>5 DEF Width, NRows
    <2>7. NCols' = w
      <3>1. augmented' = [i \in 1..w |-> augmented'[i]]
        BY <2>6 DEF Systems
      <3> QED
        BY <2>5, <3>1 DEF NCols
    <2>8. Shape'
      BY <1>2, <1>4, <2>1, <2>5, <2>6, <2>7 DEF Shape
    <2>9. Kept'
      BY <2>1 DEF Kept
    <2>10. ReducedBehind'
      <3>1. 1..(col' - 1) = {}
        BY <1>2
      <3> QED
        BY <1>2, <3>1 DEF ReducedBehind
    <2> QED
      BY <2>1, <2>8, <2>9, <2>10 DEF IInv, Returned
  <1> QED
    BY <1>3, <1>4

(* A column without candidates is zero below the pivots.                   *)
LEMMA SkipKeeps == IInv /\ SkipColumn => IInv'
  <1> SUFFICES ASSUME IInv, SkipColumn PROVE IInv'
    OBVIOUS
  <1>1. /\ phase = "eliminate" /\ rows # <<>> /\ col <= NRows
        /\ UNCHANGED <<phase, rows, augmented, pivots, omega>>
        /\ col' = col + 1 /\ Candidates(col) = {}
    BY DEF SkipColumn, IInv, Shape
  <1>2. /\ NRows \in Nat \ {0} /\ NCols \in Nat
        /\ Len(pivots) \in Nat /\ DOMAIN pivots = 1..Len(pivots)
    BY <1>1, ShapeFacts DEF IInv
  <1>3. NRows' = NRows /\ NCols' = NCols /\ Width' = Width /\ col \in Nat
    BY <1>1, <1>2 DEF NRows, NCols, Width, IInv, Shape
  <1>4. Shape'
    <2>1. \A i \in DOMAIN pivots : pivots[i] \in 1..(col + 1 - 1)
      BY <1>2, <1>3 DEF IInv, Shape
    <2>2. col + 1 \in 1..(NRows + 1)
      BY <1>1, <1>2, <1>3
    <2> QED
      BY <1>1, <1>3, <2>1, <2>2 DEF IInv, Shape
  <1>5. Kept'
    BY <1>1 DEF IInv, Kept, Solves, NRows
  <1>6. ReducedBehind'
    <2>1. ASSUME NEW c \in 1..col, NEW r \in (Len(pivots) + 1)..NCols PROVE augmented[r][c] = 0
      <3>1. CASE c = col
        BY <1>1, <3>1 DEF Candidates
      <3>2. CASE c # col
        <4>1. c \in 1..(col - 1)
          BY <1>3, <3>2
        <4> QED
          BY <1>1, <4>1 DEF IInv, ReducedBehind
      <3> QED
        BY <3>1, <3>2
    <2>2. 1..(col' - 1) = 1..col
      BY <1>1, <1>3
    <2> QED
      BY <1>1, <1>3, <2>1, <2>2 DEF IInv, ReducedBehind
  <1>7. Returned'
    BY <1>1 DEF Returned
  <1> QED
    BY <1>4, <1>5, <1>6, <1>7 DEF IInv

(* A column with a pivot: the columns behind it are zero in both equations *)
(* that are swapped, so clearing the new column leaves them alone.         *)
LEMMA EliminateKeeps == IInv /\ Eliminate => IInv'
  <1> SUFFICES ASSUME IInv, Eliminate PROVE IInv'
    OBVIOUS
  <1>1. /\ phase = "eliminate" /\ rows # <<>> /\ col <= NRows
        /\ UNCHANGED <<phase, rows, omega>>
        /\ col' = col + 1 /\ pivots' = Append(pivots, col)
    BY DEF Eliminate, IInv, Shape
  <1>2. /\ NRows \in Nat /\ NCols \in Nat
        /\ NCols = Width
        /\ augmented \in Systems(NCols, NRows) /\ System(rows) \in Systems(NCols, NRows)
        /\ Len(pivots) \in Nat /\ DOMAIN pivots = 1..Len(pivots)
        /\ pivots \in Seq(Nat)
        /\ col \in 1..(NRows + 1)
    BY <1>1, ShapeFacts DEF IInv, Shape
  <1>3. PICK m \in Nat : m = NCols
    BY <1>2
  <1>4. PICK n \in Nat : n = NRows
    BY <1>2
  <1>5. PICK p \in Nat : p = Len(pivots) + 1
    BY <1>2
  <1>6. PICK k \in Nat : k = Len(pivots)
    BY <1>2
  <1>7. PICK s : s = augmented
    OBVIOUS
  <1>8. PICK t : t = augmented'
    OBVIOUS
  <1>9. /\ p \in 1..m /\ col \in 1..n
        /\ t \in Systems(m, n)
        /\ t[p][col] = 1
        /\ \A r \in 1..m : r # p => t[r][col] = 0
        /\ \A d \in 1..n : (\A r \in p..m : s[r][d] = 0) => \A r \in 1..m : t[r][d] = s[r][d]
        /\ \A ws \in Vectors(n) : AllHold(t, ws, m, n) <=> AllHold(s, ws, m, n)
    <2>1. Shape
      BY DEF IInv
    <2> QED
      BY <1>3, <1>4, <1>5, <1>7, <1>8, <2>1, Pivoting
  <1>10. NRows' = n /\ Width' = m
    BY <1>1, <1>2, <1>3, <1>4 DEF NRows, Width
  <1>11. NCols' = m
    <2>1. t = [i \in 1..m |-> t[i]]
      BY <1>9 DEF Systems
    <2> QED
      BY <1>8, <2>1 DEF NCols
  <1>12. /\ pivots' \in Seq(Nat) /\ Len(pivots') = p /\ DOMAIN pivots' = 1..p
         /\ pivots'[p] = col /\ \A i \in 1..k : pivots'[i] = pivots[i]
    <2>1. col \in Nat
      BY <1>9
    <2> QED
      BY <1>1, <1>2, <1>5, <1>6, <2>1
  <1>13. Shape'
    <2>1. ASSUME NEW i \in 1..p PROVE pivots'[i] \in 1..col
      <3>1. CASE i = p
        BY <1>9, <1>12, <3>1
      <3>2. CASE i # p
        <4>1. i \in 1..k
          BY <1>5, <1>6, <3>2
        <4>2. pivots[i] \in 1..(col - 1)
          BY <1>2, <1>6, <4>1 DEF IInv, Shape
        <4> QED
          BY <1>9, <1>12, <4>1, <4>2
      <3> QED
        BY <3>1, <3>2
    <2>2. col' - 1 = col /\ col' \in 1..(n + 1)
      BY <1>1, <1>9
    <2>3. IsRows(rows)'
      BY <1>1 DEF IInv, Shape
    <2> QED
      BY <1>1, <1>8, <1>9, <1>10, <1>11, <1>12, <2>1, <2>2, <2>3 DEF Shape
  <1>14. Kept'
    <2>1. ASSUME NEW ws \in Vectors(n) PROVE Solves(t, ws) <=> Solves(System(rows), ws)
      <3>1. Solves(s, ws) <=> Solves(System(rows), ws)
        BY <1>1, <1>4, <1>7 DEF IInv, Kept
      <3>2. s \in Systems(m, NRows) /\ t \in Systems(m, NRows) /\ ws \in Vectors(NRows)
        BY <1>2, <1>3, <1>4, <1>7, <1>9
      <3>3. Solves(s, ws) <=> AllHold(s, ws, m, n)
        BY <1>2, <1>4, <3>2, SolvesHold
      <3>4. Solves(t, ws) <=> AllHold(t, ws, m, n)
        BY <1>2, <1>4, <3>2, SolvesHold
      <3> QED
        BY <1>9, <3>1, <3>3, <3>4
    <2>2. \A ws \in Vectors(NRows') : Solves(augmented, ws)' <=> Solves(System(rows), ws)'
      BY <1>1, <1>4, <1>8, <1>10, <2>1 DEF Solves, NRows
    <2> QED
      BY <2>2 DEF Kept
  <1>15. ReducedBehind'
    <2>1. /\ \A i \in 1..k : \A r \in 1..m : s[r][pivots[i]] = IF r = i THEN 1 ELSE 0
          /\ \A c \in 1..(col - 1) : \A r \in p..m : s[r][c] = 0
      BY <1>1, <1>2, <1>3, <1>5, <1>6, <1>7 DEF IInv, ReducedBehind
    <2>2. ASSUME NEW i \in 1..p, NEW r \in 1..m PROVE t[r][pivots'[i]] = IF r = i THEN 1 ELSE 0
      <3>1. CASE i = p
        BY <1>9, <1>12, <3>1
      <3>2. CASE i # p
        <4>1. i \in 1..k
          BY <1>5, <1>6, <3>2
        <4>2. PICK d : d = pivots[i]
          OBVIOUS
        <4>3. d \in 1..(col - 1)
          BY <1>2, <1>6, <4>1, <4>2 DEF IInv, Shape
        <4>4. d \in 1..n
          BY <1>9, <4>3
        <4>5. t[r][d] = s[r][d]
          BY <1>9, <2>1, <4>3, <4>4
        <4> QED
          BY <1>12, <2>1, <4>1, <4>2, <4>5
      <3> QED
        BY <3>1, <3>2
    <2>3. ASSUME NEW c \in 1..col, NEW r \in (p + 1)..m PROVE t[r][c] = 0
      <3>1. r \in 1..m /\ r # p /\ r \in p..m
        OBVIOUS
      <3>2. CASE c = col
        BY <1>9, <3>1, <3>2
      <3>3. CASE c # col
        <4>1. c \in 1..(col - 1) /\ c \in 1..n
          BY <1>9, <3>3
        <4>2. t[r][c] = s[r][c]
          BY <1>9, <2>1, <3>1, <4>1
        <4> QED
          BY <2>1, <3>1, <4>1, <4>2
      <3> QED
        BY <3>2, <3>3
    <2>4. 1..(col' - 1) = 1..col
      BY <1>1, <1>9
    <2> QED
      BY <1>8, <1>11, <1>12, <2>2, <2>3, <2>4 DEF ReducedBehind
  <1>16. Returned'
    BY <1>1 DEF Returned
  <1> QED
    BY <1>13, <1>14, <1>15, <1>16 DEF IInv

(* What is returned is read off a reduced system.                          *)
LEMMA ReturnKeeps == IInv /\ Return => IInv'
  <1> SUFFICES ASSUME IInv, Return PROVE IInv'
    OBVIOUS
  <1>1. /\ phase = "eliminate" /\ rows # <<>> /\ col > NRows
        /\ UNCHANGED <<rows, augmented, col, pivots>>
        /\ phase' \in {"some", "none"}
    BY DEF Return, IInv, Shape
  <1>2. /\ NRows \in Nat /\ NCols \in Nat
        /\ augmented \in Systems(NCols, NRows) /\ System(rows) \in Systems(NCols, NRows)
        /\ Len(pivots) \in Nat /\ Len(pivots) <= NCols /\ DOMAIN pivots = 1..Len(pivots)
        /\ col \in 1..(NRows + 1)
    BY <1>1, ShapeFacts DEF IInv, Shape
  <1>3. PICK m \in Nat : m = NCols
    BY <1>2
  <1>4. PICK n \in Nat : n = NRows
    BY <1>2
  <1>5. PICK k \in Nat : k = Len(pivots)
    BY <1>2
  <1>6. PICK s : s = augmented
    OBVIOUS
  <1>7. PICK ws : ws = ReadConstants
    OBVIOUS
  <1>8. col - 1 = n /\ s \in Systems(m, n) /\ k <= m
    BY <1>1, <1>2, <1>3, <1>4, <1>5, <1>6
  <1>9. \A i \in 1..n : ws[i] = IF i <= k THEN Centered(s[i][n + 1]) ELSE 0
    BY <1>4, <1>5, <1>6, <1>7 DEF ReadConstants
  <1>10. PICK h \in Int : h = Q \div 2
    BY ModulusFacts
  <1>11. ASSUME NEW i \in 1..n PROVE ws[i] \in -h..h
    <2>1. CASE i <= k
      <3>1. i \in 1..m /\ n + 1 \in 1..(n + 1)
        BY <1>8, <2>1
      <3>2. s[i][n + 1] \in Residues
        BY <1>8, <3>1 DEF Systems, Equations
      <3> QED
        BY <1>9, <1>10, <2>1, <3>2, CenteredFacts
    <2>2. CASE ~ (i <= k)
      <3>1. ws[i] = 0
        BY <1>9, <2>2
      <3>2. h >= 0
        BY <1>10, ModulusFacts
      <3> QED
        BY <3>1, <3>2
    <2> QED
      BY <2>1, <2>2
  <1>12. ws \in [1..n -> -h..h]
    <2>1. ws = [i \in 1..n |-> ws[i]]
      BY <1>4, <1>7 DEF ReadConstants
    <2> QED
      BY <1>11, <2>1
  <1>13. phase' = "some" => omega' = ws
    BY <1>7 DEF Return
  <1>14. Shape'
    <2>1. phase' = "some" => omega' \in [1..NRows' -> -(Q \div 2)..(Q \div 2)]
      BY <1>1, <1>4, <1>10, <1>12, <1>13 DEF NRows
    <2> QED
      BY <1>1, <2>1 DEF IInv, Shape, NRows, NCols, Width
  <1>15. Kept' /\ ReducedBehind'
    BY <1>1 DEF Kept, ReducedBehind
  <1>16. Returned'
    <2>1. SUFFICES ASSUME phase' = "some", \A i \in DOMAIN pivots : pivots[i] = i
                   PROVE  Solves(System(rows), ws)
      BY <1>1, <1>13 DEF Returned, Rebuilds, Solves, NRows
    <2>2. Ended /\ ~ Inconsistent
      BY <1>1, <2>1 DEF Ended, Return
    <2> QED
      BY <1>7, <2>1, <2>2, ReadSolves
  <1> QED
    BY <1>14, <1>15, <1>16 DEF IInv

(* A step of other variables changes nothing.                              *)
LEMMA StutterKeeps == IInv /\ UNCHANGED machine_vars => IInv'
  BY DEF IInv, Shape, Kept, ReducedBehind, Returned, Rebuilds, Solves, NRows, NCols, Width,
         machine_vars

(* The invariant is one.                                                   *)
LEMMA Invariance == MachineSpec => []IInv
  <1>1. MachineInit => IInv
    BY Initially
  <1>2. IInv /\ [MachineNext]_machine_vars => IInv'
    BY PrepareKeeps, BeginKeeps, EliminateKeeps, SkipKeeps, ReturnKeeps, StutterKeeps
       DEF MachineNext
  <1> QED
    BY <1>1, <1>2, PTL DEF MachineSpec

-----------------------------------------------------------------------------
(* What follows.                                                           *)

(* TypeOK: whatever the rows, the system keeps its shape, its entries stay *)
(* residues, and what get_reconstruction_constants returns is centered.    *)
THEOREM TypeCorrect == MachineSpec => []TypeOK
  <1>1. IInv => TypeOK
    <2> SUFFICES ASSUME IInv PROVE TypeOK
      OBVIOUS
    <2>1. CASE rows = <<>>
      <3>1. NRows = 0 /\ NCols = 0 /\ augmented = <<>>
        BY <2>1 DEF IInv, Shape, NRows, NCols
      <3> QED
        BY <2>1, <3>1 DEF IInv, Shape, TypeOK
    <2>2. CASE rows # <<>>
      <3>1. /\ NRows \in Nat /\ NCols = Width /\ augmented \in Systems(NCols, NRows)
            /\ Len(pivots) <= NCols /\ DOMAIN pivots = 1..Len(pivots)
        BY <2>2, ShapeFacts DEF IInv
      <3>2. \A r \in 1..NCols : augmented[r] \in [1..(NRows + 1) -> Residues]
        BY <3>1 DEF Systems, Equations
      <3>3. \A i \in DOMAIN pivots : pivots[i] < col
        BY DEF IInv, Shape
      <3> QED
        BY <2>2, <3>1, <3>2, <3>3 DEF IInv, Shape, TypeOK, Width
    <2> QED
      BY <2>1, <2>2
  <1> QED
    BY <1>1, Invariance, PTL

(* SolutionsKept: no swap, scaling or clearing of solve_linear_system      *)
(* gains or loses a solution, of any matrix over any prime field.          *)
THEOREM EliminationKeepsSolutions == MachineSpec => []SolutionsKept
  <1>1. IInv => SolutionsKept
    <2>1. \A n : \A ws \in [1..n -> Residues] : ws \in Vectors(n)
      BY ResidueFacts DEF Vectors
    <2> QED
      BY <2>1 DEF IInv, Kept, SolutionsKept
  <1> QED
    BY <1>1, Invariance, PTL

(* ReducedBehind: the columns the loop has passed are reduced.             *)
THEOREM EliminationReduces == MachineSpec => []ReducedBehind
  <1>1. IInv => ReducedBehind
    BY DEF IInv
  <1> QED
    BY <1>1, Invariance, PTL

(* Weights that bring the rows d to a unit vector bring their products     *)
(* with a vector to one entry of it.                                       *)
LEMMA WeighedProducts ==
    ASSUME NEW S, IsFiniteSet(S), NEW U, IsFiniteSet(U), NEW ws, IntsOn(ws, S), NEW v, IntsOn(v, U),
           NEW d, \A j \in S : IntsOn(d[j], U), NEW unit, NEW y \in U, unit[y] = 1,
           \A c \in U : c # y => unit[c] = 0,
           \A c \in U : Congruent(Dot(ws, ColumnOn(d, c, S), S), unit[c]),
           NEW share, \A j \in S : Congruent(share[j], Dot(d[j], v, U))
    PROVE  Congruent(Dot(ws, share, S), v[y])
  <1> DEFINE de == [j \in S |-> Dot(d[j], v, U)]
             ad == [c \in U |-> Dot(ws, ColumnOn(d, c, S), S)]
             f == [c \in U |-> v[c] * unit[c]]
  <1>1. /\ \A j \in S : de[j] = Dot(d[j], v, U)
        /\ \A c \in U : ad[c] = Dot(ws, ColumnOn(d, c, S), S)
    OBVIOUS
  <1>2. Dot(v, unit, U) = SumFunctionOnSet(f, U)
    BY DEF Dot
  <1>3. PICK x \in Int : x = v[y]
    BY DEF IntsOn
  <1>4. f[y] = x
    <2>1. x * 1 = x
      OBVIOUS
    <2> QED
      BY <1>3, <2>1
  <1>5. \A c \in U : c # y => f[c] = 0
    BY DEF IntsOn
  <1> HIDE DEF de, ad, f
  <1>6. Dot(ws, de, S) = Dot(ad, v, U)
    <2>1. RowProducts(de, d, v, S, U) /\ ColumnProducts(ad, ws, d, S, U)
      BY <1>1 DEF RowProducts, ColumnProducts
    <2> QED
      BY <2>1, DotSwap
  <1>7. Congruent(Dot(ws, share, S), Dot(ws, de, S))
    <2>1. \A j \in S : Congruent(share[j], de[j])
      BY <1>1
    <2> QED
      BY <2>1, DotCong
  <1>8. \A c \in U : Congruent(ad[c], unit[c])
    BY <1>1
  <1>9. Dot(ad, v, U) = Dot(v, ad, U)
    <2>1. IntsOn(ad, U)
      BY <1>8 DEF IntsOn, Congruent
    <2> QED
      BY <2>1, DotInt
  <1>10. Congruent(Dot(v, ad, U), Dot(v, unit, U))
    BY <1>8, DotCong
  <1>11. SumFunctionOnSet(f, U) = f[y]
    <2>1. f[y] \in Int
      BY <1>4
    <2> QED
      BY <1>5, <2>1, SumSingle
  <1> QED
    BY <1>2, <1>3, <1>4, <1>6, <1>7, <1>9, <1>10, <1>11, CongTrans

(* Shares, weighed by constants that weigh the rows to (1, 0, ..., 0), add *)
(* up to the first entry of the vector that was shared.                    *)
LEMMA SharesAddUp ==
    ASSUME NEW m \in Nat \ {0}, NEW n \in Nat, n = NRows, DOMAIN rows = 1..n,
           \A j \in 1..n : \A c \in 1..m : rows[j].vec[c] \in Int,
           System(rows) \in Systems(m, n), Len(rows[1].vec) = m,
           NEW ws \in Vectors(n), Solves(System(rows), ws),
           NEW v \in [1..m -> Residues]
    PROVE  Reconstruct(ws, Share(v)) = v[1]
  <1> DEFINE S == 1..n
             U == 1..m
             d == [j \in S |-> rows[j].vec]
             unit == [c \in U |-> IF c = 1 THEN 1 ELSE 0]
             share == [j \in S |-> Dot(d[j], v, U) % Q]
  <1>1. IsFiniteSet(S) /\ IsFiniteSet(U)
    BY PlacesFinite
  <1>2. IntsOn(ws, S) /\ IntsOn(v, U)
    BY ResidueFacts DEF IntsOn, Vectors
  <1>3. \A j \in S : \A c \in U : d[j][c] \in Int
    OBVIOUS
  <1>4. \A j \in S : IntsOn(d[j], U)
    BY <1>3 DEF IntsOn
  <1>5. Share(v) = share
    <2>1. DOMAIN v = U
      OBVIOUS
    <2>2. \A j \in S : Product(rows[j].vec, v) = Dot(d[j], v, U)
      BY <2>1 DEF Product, Dot
    <2> QED
      BY <2>2 DEF Share
  <1>6. ASSUME NEW c \in U PROVE Congruent(Dot(ws, ColumnOn(d, c, S), S), unit[c])
    <2>1. PICK e : e = System(rows)[c]
      OBVIOUS
    <2>2. e \in Equations(n) /\ e[n + 1] = unit[c]
      <3>1. e \in Equations(n)
        BY <2>1 DEF Systems
      <3>2. e = [j \in 1..(n + 1) |-> IF j <= n THEN rows[j].vec[c] % Q ELSE IF c = 1 THEN 1 ELSE 0]
        BY <2>1 DEF System, NRows
      <3> QED
        BY <3>1, <3>2
    <2>3. \A j \in S : e[j] = rows[j].vec[c] % Q
      BY <2>1 DEF System, NRows
    <2>4. PICK g : g = ColumnOn(d, c, S)
      OBVIOUS
    <2>5. \A j \in S : g[j] = rows[j].vec[c] /\ g[j] \in Int
      BY <1>3, <2>4 DEF ColumnOn
    <2>6. ASSUME NEW j \in S PROVE Congruent(g[j], e[j])
      <3>1. PICK x \in Int : x = g[j]
        BY <2>5
      <3>2. e[j] = x % Q
        BY <2>3, <2>5, <3>1
      <3>3. Congruent(x % Q, x)
        BY Residue
      <3> QED
        BY <3>1, <3>2, <3>3, CongSym
    <2>7. Holds(e, ws, n)
      <3>1. Weighted(e, ws) = e[NRows + 1]
        BY <2>1 DEF Solves, Systems
      <3> QED
        BY <2>2, <3>1, WeightedHolds
    <2>8. Congruent(Dot(e, ws, S), unit[c])
      BY <2>2, <2>7 DEF Holds
    <2>9. IntsOn(e, S)
      BY <2>6 DEF IntsOn, Congruent
    <2> HIDE DEF S, unit
    <2>10. Congruent(Dot(ws, g, S), Dot(ws, e, S))
      BY <1>1, <1>2, <2>6, DotCong
    <2>11. Dot(ws, e, S) = Dot(e, ws, S)
      BY <1>1, <1>2, <2>9, DotInt
    <2> QED
      BY <2>4, <2>8, <2>10, <2>11, CongTrans
  <1>7. PICK y : y = 1
    OBVIOUS
  <1>8. y \in U /\ unit[y] = 1 /\ \A c \in U : c # y => unit[c] = 0
    BY <1>7
  <1>9. v[y] \in Residues
    BY <1>8
  <1>10. DOMAIN share = S /\ \A j \in S : share[j] = Dot(d[j], v, U) % Q
    OBVIOUS
  <1> HIDE DEF S, U, d, unit, share
  <1>11. \A j \in S : Congruent(share[j], Dot(d[j], v, U))
    BY <1>1, <1>2, <1>4, <1>10, DotInt, Residue
  <1>12. Congruent(Dot(ws, share, S), v[y])
    BY <1>1, <1>2, <1>4, <1>6, <1>8, <1>11, WeighedProducts
  <1>13. Product(ws, share) = Dot(ws, share, S)
    BY <1>10 DEF Product, Dot
  <1>14. Product(ws, share) % Q = v[y]
    <2>1. PICK a \in Int : a = Product(ws, share)
      BY <1>12, <1>13 DEF Congruent
    <2>2. PICK b \in 0..(Q - 1) : b = v[y]
      BY <1>9 DEF Residues
    <2>3. PICK c \in 0..(Q - 1) : c = a % Q
      BY Residue
    <2>4. Congruent(c, a) /\ Congruent(a, b)
      BY <1>12, <1>13, <2>1, <2>2, <2>3, Residue
    <2>5. Congruent(c, b)
      BY <2>4, CongTrans
    <2> QED
      BY <2>1, <2>2, <2>3, <2>5, CongReduced
  <1> QED
    BY <1>5, <1>7, <1>14 DEF Reconstruct

(* OrderedSharesRebuild: with a pivot in each of the first columns, shares *)
(* of the rows held rebuild the secret whatever it is and whatever was     *)
(* drawn beside it, for any matrix over any prime field.                   *)
THEOREM SharesRebuild == MachineSpec => []OrderedSharesRebuild
  <1>1. IInv => OrderedSharesRebuild
    <2> SUFFICES ASSUME IInv, phase = "some", \A i \in DOMAIN pivots : pivots[i] = i,
                        NEW v \in [1..NCols -> Residues]
                 PROVE  Reconstruct(omega, Share(v)) = v[1]
      BY DEF OrderedSharesRebuild
    <2>1. rows # <<>> /\ IsRows(rows)
      BY DEF IInv, Shape
    <2>2. PICK n \in Nat : n = NRows
      BY <2>1, ShapeFacts DEF IInv
    <2>3. PICK m \in Nat \ {0} : m = NCols
      BY <2>1, ShapeFacts DEF IInv
    <2>4. m = Len(rows[1].vec)
      BY <2>1, <2>3, ShapeFacts DEF IInv, Width
    <2>5. /\ DOMAIN rows = 1..n
          /\ \A j \in 1..n : \A c \in 1..m : rows[j].vec[c] \in Int
          /\ System(rows) \in Systems(m, n)
      <3>1. PICK rs : rs = rows
        OBVIOUS
      <3>2. /\ DOMAIN rs = 1..n
            /\ \A j \in 1..n : DOMAIN rs[j].vec = 1..m /\ \A c \in 1..m : rs[j].vec[c] \in Int
            /\ System(rs) \in Systems(m, n)
        BY <2>1, <2>2, <2>4, <3>1, RowsFacts DEF NRows
      <3> QED
        BY <3>1, <3>2
    <2>6. PICK ws : ws = omega
      OBVIOUS
    <2>7. ws \in Vectors(n)
      <3>1. PICK h \in Int : h = Q \div 2
        BY ModulusFacts
      <3>2. ws \in [1..n -> -h..h]
        BY <2>2, <2>6, <3>1 DEF IInv, Shape
      <3> QED
        BY <3>2 DEF Vectors
    <2>8. Solves(System(rows), ws)
      BY <2>6 DEF IInv, Returned, Rebuilds
    <2>9. v \in [1..m -> Residues]
      BY <2>3
    <2>10. Reconstruct(ws, Share(v)) = v[1]
      BY <2>2, <2>4, <2>5, <2>7, <2>8, <2>9, SharesAddUp
    <2> QED
      BY <2>6, <2>10
  <1> QED
    BY <1>1, Invariance, PTL

(* With a pivot in each of the first columns, the constants that are       *)
(* returned weigh the rows held to (1, 0, ..., 0), which the code itself   *)
(* checks in the first column only.                                        *)
THEOREM ConstantsRebuild == MachineSpec => []Returned
  <1>1. IInv => Returned
    BY DEF IInv
  <1> QED
    BY <1>1, Invariance, PTL

(* An inconsistent system is not a refusal of rows that would do: no whole *)
(* numbers weigh the rows held to (1, 0, ..., 0).                          *)
Unsolvable ==
    phase = "eliminate" /\ col > NRows /\ Inconsistent =>
        \A ws \in Vectors(NRows) : ~ Solves(System(rows), ws)

(* So it is where the elimination ends.                                    *)
LEMMA EndUnsolvable == IInv => Unsolvable
  <1> SUFFICES ASSUME IInv, phase = "eliminate", col > NRows, Inconsistent,
                      NEW ws \in Vectors(NRows), Solves(System(rows), ws)
               PROVE  FALSE
    BY DEF Unsolvable
  <1>1. /\ NRows \in Nat /\ NCols \in Nat /\ augmented \in Systems(NCols, NRows)
        /\ Len(pivots) \in Nat /\ col - 1 = NRows
    <2>1. Shape /\ rows # <<>>
      BY DEF IInv, Shape
    <2>2. /\ NRows \in Nat /\ NCols \in Nat /\ augmented \in Systems(NCols, NRows)
          /\ Len(pivots) \in Nat
      BY <2>1, ShapeFacts
    <2> QED
      BY <2>1, <2>2 DEF Shape
  <1>2. PICK n \in Nat : n = NRows
    BY <1>1
  <1>3. PICK m \in Nat : m = NCols
    BY <1>1
  <1>4. PICK s : s = augmented
    OBVIOUS
  <1>5. PICK r \in (Len(pivots) + 1)..m : s[r][n + 1] # 0
    BY <1>2, <1>3, <1>4 DEF Inconsistent
  <1>6. r \in 1..m /\ s \in Systems(m, n) /\ s \in Systems(m, NRows) /\ ws \in Vectors(n)
    BY <1>1, <1>2, <1>3, <1>4
  <1>7. Holds(s[r], ws, n)
    <2>1. Solves(s, ws)
      BY <1>4 DEF IInv, Kept
    <2>2. AllHold(s, ws, m, n)
      BY <1>1, <1>2, <1>6, <2>1, SolvesHold
    <2> QED
      BY <1>6, <2>2 DEF AllHold
  <1>8. \A c \in 1..n : s[r][c] = 0
    BY <1>1, <1>2, <1>3, <1>4 DEF IInv, ReducedBehind
  <1>9. Dot(s[r], ws, 1..n) = 0
    <2> DEFINE f == [c \in 1..n |-> s[r][c] * ws[c]]
    <2>1. ASSUME NEW c \in 1..n PROVE f[c] = 0
      <3>1. PICK w \in Int : w = ws[c]
        BY <1>6 DEF Vectors
      <3>2. 0 * w = 0
        OBVIOUS
      <3> QED
        BY <1>8, <3>1, <3>2
    <2>2. Dot(s[r], ws, 1..n) = SumFunctionOnSet(f, 1..n)
      BY DEF Dot
    <2>3. IsFiniteSet(1..n)
      BY PlacesFinite
    <2> HIDE DEF f
    <2> QED
      BY <2>1, <2>2, <2>3, SumZero
  <1>10. PICK t \in Residues : t = s[r][n + 1]
    BY <1>6 DEF Systems, Equations
  <1>11. Congruent(0, t)
    BY <1>7, <1>9, <1>10 DEF Holds
  <1>12. 0 = t
    BY <1>11, ResidueFacts, CongReduced DEF Residues
  <1> QED
    BY <1>5, <1>10, <1>12

(* Unsolvable, for any matrix over any prime field.                        *)
THEOREM InconsistentIsUnsolvable == MachineSpec => []Unsolvable
  BY EndUnsolvable, Invariance, PTL

-----------------------------------------------------------------------------
(* Trees.                                                                  *)

(* What the proofs use of the trees.                                       *)
LEMMA TreeFacts ==
    ASSUME NEW p \in Trees
    PROVE  /\ Height(p) \in Nat
           /\ p.op # "leaf" =>
                 /\ p.op \in {"AND", "OR"} /\ p.left \in Trees /\ p.right \in Trees
                 /\ Height(p.left) < Height(p) /\ Height(p.right) < Height(p)
  BY TreesAssumption

(* Induction on trees, for a set of them.                                  *)
LEMMA TreeInduction ==
    ASSUME NEW S, \A p \in Trees : (p.op # "leaf" => p.left \in S /\ p.right \in S) => p \in S
    PROVE  \A p \in Trees : p \in S
  <1> DEFINE N == {n \in Nat : \A p \in Trees : Height(p) < n => p \in S}
  <1>1. 0 \in N
    BY TreeFacts
  <1>2. ASSUME NEW n \in Nat, n \in N PROVE n + 1 \in N
    <2>1. ASSUME NEW p \in Trees, Height(p) < n + 1 PROVE p \in S
      <3>1. ASSUME p.op # "leaf" PROVE p.left \in S /\ p.right \in S
        <4>1. /\ p.left \in Trees /\ p.right \in Trees
              /\ Height(p) \in Nat /\ Height(p.left) \in Nat /\ Height(p.right) \in Nat
              /\ Height(p.left) < Height(p) /\ Height(p.right) < Height(p)
          BY <3>1, TreeFacts
        <4>2. Height(p.left) < n /\ Height(p.right) < n
          BY <2>1, <4>1
        <4> QED
          BY <1>2, <4>1, <4>2
      <3> QED
        BY <3>1
    <2> QED
      BY <2>1
  <1> HIDE DEF N
  <1>3. \A n \in Nat : n \in N
    BY <1>1, <1>2, NatSets
  <1>4. ASSUME NEW p \in Trees PROVE p \in S
    <2>1. PICK n \in Nat : n = Height(p)
      BY TreeFacts
    <2>2. n + 1 \in N /\ Height(p) < n + 1
      BY <1>3, <2>1
    <2> QED
      BY <2>2 DEF N
  <1> QED
    BY <1>4

(* f is at p what the sides of p make of it.                               *)
Grows(f, base, gate, p) ==
    f[p] = IF p.op = "leaf" THEN base[p] ELSE gate[p][<<f[p.left], f[p.right]>>]

(* A function of trees that is right below a height.                       *)
GrownBelow(f, V, base, gate, n) ==
    f \in [Trees -> V] /\ \A p \in Trees : Height(p) < n => Grows(f, base, gate, p)

(* The values of leaves and what gates make of the values of their sides.  *)
Growth(V, base, gate) ==
    \A p \in Trees :
        IF p.op = "leaf" THEN base[p] \in V ELSE \A v, w \in V : gate[p][<<v, w>>] \in V

(* Such functions exist for every height,                                  *)
LEMMA GrownExists ==
    ASSUME NEW V, NEW base, NEW gate, Growth(V, base, gate), V # {}
    PROVE  \A n \in Nat : \E f : GrownBelow(f, V, base, gate, n)
  <1> DEFINE N == {n \in Nat : \E f : GrownBelow(f, V, base, gate, n)}
  <1>1. 0 \in N
    <2>1. PICK v : v \in V
      OBVIOUS
    <2> DEFINE f == [p \in Trees |-> v]
    <2>2. f \in [Trees -> V]
      BY <2>1
    <2>3. \A p \in Trees : ~ (Height(p) < 0)
      BY TreeFacts
    <2>4. GrownBelow(f, V, base, gate, 0)
      BY <2>2, <2>3 DEF GrownBelow
    <2> QED
      BY <2>4
  <1>2. ASSUME NEW n \in Nat, n \in N PROVE n + 1 \in N
    <2>1. PICK f : GrownBelow(f, V, base, gate, n)
      BY <1>2
    <2> DEFINE g == [p \in Trees |-> IF p.op = "leaf" THEN base[p]
                                     ELSE gate[p][<<f[p.left], f[p.right]>>]]
    <2>2. g \in [Trees -> V]
      <3>1. ASSUME NEW p \in Trees PROVE g[p] \in V
        <4>1. CASE p.op = "leaf"
          BY <4>1 DEF Growth
        <4>2. CASE p.op # "leaf"
          <5>1. f[p.left] \in V /\ f[p.right] \in V
            BY <2>1, <4>2, TreeFacts DEF GrownBelow
          <5>2. gate[p][<<f[p.left], f[p.right]>>] \in V
            BY <4>2, <5>1 DEF Growth
          <5> QED
            BY <4>2, <5>2
        <4> QED
          BY <4>1, <4>2
      <3> HIDE DEF g
      <3>2. g = [p \in Trees |-> g[p]]
        BY DEF g
      <3> QED
        BY <3>1, <3>2
    <2>3. ASSUME NEW p \in Trees, Height(p) < n + 1 PROVE Grows(g, base, gate, p)
      <3>1. CASE p.op = "leaf"
        BY <3>1 DEF Grows
      <3>2. CASE p.op # "leaf"
        <4>1. PICK l \in Trees : l = p.left
          BY <3>2, TreeFacts
        <4>2. PICK r \in Trees : r = p.right
          BY <3>2, TreeFacts
        <4>3. Height(l) < n /\ Height(r) < n
          <5>1. /\ Height(l) < Height(p) /\ Height(r) < Height(p)
                /\ Height(p) \in Nat /\ Height(l) \in Nat /\ Height(r) \in Nat
            BY <3>2, <4>1, <4>2, TreeFacts
          <5> QED
            BY <2>3, <5>1
        <4>4. Grows(f, base, gate, l) /\ Grows(f, base, gate, r)
          BY <2>1, <4>3 DEF GrownBelow
        <4>5. f[l] = g[l] /\ f[r] = g[r]
          BY <4>4 DEF Grows
        <4>6. g[p] = gate[p][<<f[l], f[r]>>]
          BY <3>2, <4>1, <4>2
        <4> HIDE DEF g
        <4> QED
          BY <3>2, <4>1, <4>2, <4>5, <4>6 DEF Grows
      <3> QED
        BY <3>1, <3>2
    <2>4. GrownBelow(g, V, base, gate, n + 1)
      <3> HIDE DEF g
      <3> QED
        BY <2>2, <2>3 DEF GrownBelow
    <2> QED
      BY <2>4
  <1> HIDE DEF N
  <1>3. \A n \in Nat : n \in N
    BY <1>1, <1>2, NatSets
  <1> QED
    BY <1>3 DEF N

(* and agree where they are right.                                         *)
LEMMA GrownAgree ==
    ASSUME NEW V, NEW base, NEW gate, NEW f, NEW g, NEW m \in Nat, NEW n \in Nat,
           GrownBelow(f, V, base, gate, m), GrownBelow(g, V, base, gate, n),
           NEW p \in Trees, Height(p) < m, Height(p) < n
    PROVE  f[p] = g[p]
  <1> DEFINE S == {q \in Trees : Height(q) < m /\ Height(q) < n => f[q] = g[q]}
  <1>1. ASSUME NEW q \in Trees, q.op # "leaf" => q.left \in S /\ q.right \in S PROVE q \in S
    <2>1. SUFFICES ASSUME Height(q) < m, Height(q) < n PROVE f[q] = g[q]
      OBVIOUS
    <2>2. Grows(f, base, gate, q) /\ Grows(g, base, gate, q)
      BY <2>1 DEF GrownBelow
    <2>3. CASE q.op = "leaf"
      BY <2>2, <2>3 DEF Grows
    <2>4. CASE q.op # "leaf"
      <3>1. /\ Height(q.left) < Height(q) /\ Height(q.right) < Height(q)
            /\ Height(q) \in Nat /\ Height(q.left) \in Nat /\ Height(q.right) \in Nat
        BY <2>4, TreeFacts
      <3>2. f[q.left] = g[q.left] /\ f[q.right] = g[q.right]
        BY <1>1, <2>1, <2>4, <3>1
      <3> QED
        BY <2>2, <2>4, <3>2 DEF Grows
    <2> QED
      BY <2>3, <2>4
  <1>2. \A q \in Trees : q \in S
    <2> HIDE DEF S
    <2> QED
      BY <1>1, TreeInduction
  <1> QED
    BY <1>2

(* A recursion on trees defines a function.                                *)
LEMMA TreeRecursion ==
    ASSUME NEW V, NEW base, NEW gate, Growth(V, base, gate), V # {}
    PROVE  \E f \in [Trees -> V] : \A p \in Trees : Grows(f, base, gate, p)
  <1> DEFINE F(n) == CHOOSE f : GrownBelow(f, V, base, gate, n)
             f == [p \in Trees |-> F(Height(p) + 1)[p]]
  <1>1. \A n \in Nat : GrownBelow(F(n), V, base, gate, n)
    BY GrownExists
  <1> HIDE DEF F
  <1>2. ASSUME NEW p \in Trees
        PROVE  f[p] \in V /\ \A n \in Nat : Height(p) < n => f[p] = F(n)[p]
    <2>1. PICK k \in Nat : k = Height(p) + 1
      BY TreeFacts
    <2>2. GrownBelow(F(k), V, base, gate, k) /\ f[p] = F(k)[p] /\ Height(p) < k
      BY <1>1, <2>1, TreeFacts
    <2> HIDE DEF f
    <2>3. f[p] \in V
      BY <2>2 DEF GrownBelow
    <2>4. ASSUME NEW n \in Nat, Height(p) < n PROVE f[p] = F(n)[p]
      <3>1. GrownBelow(F(n), V, base, gate, n)
        BY <1>1
      <3> QED
        BY <2>2, <2>4, <3>1, GrownAgree
    <2> QED
      BY <2>3, <2>4
  <1>3. f \in [Trees -> V]
    <2>1. f = [p \in Trees |-> f[p]]
      OBVIOUS
    <2> HIDE DEF f
    <2> QED
      BY <1>2, <2>1
  <1> HIDE DEF f
  <1>4. ASSUME NEW p \in Trees PROVE Grows(f, base, gate, p)
    <2>1. PICK k \in Nat : k = Height(p) + 1
      BY TreeFacts
    <2>2. Height(p) < k /\ GrownBelow(F(k), V, base, gate, k)
      BY <1>1, <2>1, TreeFacts
    <2>3. f[p] = F(k)[p] /\ Grows(F(k), base, gate, p)
      BY <1>2, <2>2 DEF GrownBelow
    <2>4. CASE p.op = "leaf"
      BY <2>3, <2>4 DEF Grows
    <2>5. CASE p.op # "leaf"
      <3>1. p.left \in Trees /\ p.right \in Trees /\ Height(p.left) < k /\ Height(p.right) < k
        <4>1. /\ p.left \in Trees /\ p.right \in Trees
              /\ Height(p.left) < Height(p) /\ Height(p.right) < Height(p)
          BY <2>5, TreeFacts
        <4>2. Height(p) \in Nat /\ Height(p.left) \in Nat /\ Height(p.right) \in Nat
          BY <4>1, TreeFacts
        <4> QED
          BY <2>1, <4>1, <4>2
      <3>2. f[p.left] = F(k)[p.left] /\ f[p.right] = F(k)[p.right]
        BY <1>2, <3>1
      <3> QED
        BY <2>3, <2>5, <3>2 DEF Grows
    <2> QED
      BY <2>4, <2>5
  <1> QED
    BY <1>3, <1>4

-----------------------------------------------------------------------------
(* The rows built for a tree.                                              *)

(* The rows of a matrix, as long as they have been made.                   *)
MatrixRow == [vec : Seq(Int), attr : {p.attr : p \in {t \in Trees : t.op = "leaf"}}]

(* What build_msp returns.                                                 *)
Built == [rows : Seq(MatrixRow), cols : Nat]

(* What build_msp does for a leaf, and for a gate with what it does for    *)
(* the gate's sides.                                                       *)
LeafBuilt(p, call) == [rows |-> << [vec |-> call.vec, attr |-> p.attr] >>, cols |-> call.cols]
Joined(l, r) == [rows |-> l.rows \o r.rows, cols |-> r.cols]
OrBuilt(v, w, call) == Joined(v[call], w[Call(call.vec, v[call].cols)])
LeftVec(vec, n) == [Resized(vec, n) EXCEPT ![n] = 1]
RightVec(n) == [Resized(<<>>, n) EXCEPT ![n] = -1]
AndBuilt(v, w, call) ==
    LET l == v[Call(LeftVec(call.vec, call.cols + 1), call.cols + 1)]
    IN  Joined(l, w[Call(RightVec(call.cols + 1), l.cols)])

(* lv and rv are vec with 1 put at n, and zeros with -1 put at n.          *)
Splits(lv, rv, vec, n) ==
    \A c \in 1..n : /\ lv[c] = IF c = n THEN 1 ELSE IF c <= Len(vec) THEN vec[c] ELSE 0
                    /\ rv[c] = IF c = n THEN -1 ELSE 0

(* The vectors of an AND's sides.                                          *)
LEMMA ResizedFacts ==
    ASSUME NEW vec \in Seq(Int), NEW n \in Nat
    PROVE  /\ LeftVec(vec, n) \in Seq(Int) /\ Len(LeftVec(vec, n)) = n
           /\ RightVec(n) \in Seq(Int) /\ Len(RightVec(n)) = n
           /\ Splits(LeftVec(vec, n), RightVec(n), vec, n)
  <1>1. Resized(vec, n) \in [1..n -> Int] /\ Resized(<<>>, n) \in [1..n -> Int]
    <2>1. ASSUME NEW v \in Seq(Int) PROVE Resized(v, n) \in [1..n -> Int]
      <3>1. \A i \in 1..n : i <= Len(v) => v[i] \in Int
        OBVIOUS
      <3> QED
        BY <3>1 DEF Resized
    <2>2. <<>> \in Seq(Int)
      OBVIOUS
    <2> HIDE DEF Resized
    <2> QED
      BY <2>1, <2>2
  <1>2. LeftVec(vec, n) \in [1..n -> Int] /\ RightVec(n) \in [1..n -> Int]
    <2>1. PICK v \in [1..n -> Int], z \in [1..n -> Int] : v = Resized(vec, n) /\ z = Resized(<<>>, n)
      BY <1>1
    <2>2. PICK S : S = 1..n
      OBVIOUS
    <2>3. \A u \in [S -> Int], x \in Int : [u EXCEPT ![n] = x] \in [S -> Int]
      OBVIOUS
    <2>4. 1 \in Int /\ -1 \in Int
      OBVIOUS
    <2>5. [v EXCEPT ![n] = 1] \in [1..n -> Int] /\ [z EXCEPT ![n] = -1] \in [1..n -> Int]
      BY <2>2, <2>3, <2>4
    <2> QED
      BY <2>1, <2>5 DEF LeftVec, RightVec
  <1>3. \A s \in [1..n -> Int] : s \in Seq(Int) /\ Len(s) = n
    OBVIOUS
  <1>4. ASSUME NEW c \in 1..n
        PROVE  /\ LeftVec(vec, n)[c] = IF c = n THEN 1 ELSE IF c <= Len(vec) THEN vec[c] ELSE 0
               /\ RightVec(n)[c] = IF c = n THEN -1 ELSE 0
    BY DEF LeftVec, RightVec, Resized
  <1> QED
    BY <1>2, <1>3, <1>4 DEF Splits

(* Calls and what is built are joined to calls and what is built.          *)
LEMMA JoinedFacts ==
    ASSUME NEW l \in Built, NEW r \in Built
    PROVE  Joined(l, r) \in Built
  <1>1. l.rows \in Seq(MatrixRow) /\ r.rows \in Seq(MatrixRow) /\ r.cols \in Nat
    BY DEF Built
  <1> HIDE DEF MatrixRow
  <1>2. l.rows \o r.rows \in Seq(MatrixRow)
    BY <1>1
  <1> QED
    BY <1>1, <1>2 DEF Joined, Built

(* A gate's rows are built whatever is built for its sides.                *)
LEMMA GateBuilt ==
    ASSUME NEW v \in [Calls -> Built], NEW w \in [Calls -> Built], NEW call \in Calls
    PROVE  OrBuilt(v, w, call) \in Built /\ AndBuilt(v, w, call) \in Built
  <1>1. call.vec \in Seq(Int) /\ call.cols \in Nat /\ call.cols + 1 \in Nat
    BY DEF Calls
  <1>2. \A vec \in Seq(Int), n \in Nat : Call(vec, n) \in Calls
    BY DEF Calls, Call
  <1>3. \A b \in Built : b.cols \in Nat
    BY DEF Built
  <1>4. OrBuilt(v, w, call) \in Built
    <2>1. PICK l \in Built : l = v[call]
      OBVIOUS
    <2>2. w[Call(call.vec, l.cols)] \in Built
      BY <1>1, <1>2, <1>3
    <2> QED
      BY <2>1, <2>2, JoinedFacts DEF OrBuilt
  <1>5. AndBuilt(v, w, call) \in Built
    <2>1. PICK n \in Nat : n = call.cols + 1
      BY <1>1
    <2>2. LeftVec(call.vec, n) \in Seq(Int) /\ RightVec(n) \in Seq(Int)
      BY <1>1, ResizedFacts
    <2>3. PICK l \in Built : l = v[Call(LeftVec(call.vec, n), n)]
      BY <1>2, <2>2
    <2>4. w[Call(RightVec(n), l.cols)] \in Built
      BY <1>2, <1>3, <2>2
    <2>5. AndBuilt(v, w, call) = Joined(l, w[Call(RightVec(n), l.cols)])
      BY <2>1, <2>3 DEF AndBuilt
    <2> QED
      BY <2>4, <2>5, JoinedFacts
  <1> QED
    BY <1>4, <1>5

(* build_msp, unfolded once.                                               *)
BuildsAt(f, p) ==
    f[p] = [call \in Calls |->
              CASE p.op = "OR"   -> OrBuilt(f[p.left], f[p.right], call)
                [] p.op = "AND"  -> AndBuilt(f[p.left], f[p.right], call)
                [] p.op = "leaf" -> LeafBuilt(p, call)]

(* There is a function that is so unfolded everywhere,                     *)
LEMMA BuilderExists ==
    \E f \in [Trees -> [Calls -> Built]] : \A p \in Trees : BuildsAt(f, p)
  <1> DEFINE V == [Calls -> Built]
             base == [p \in Trees |-> [call \in Calls |-> LeafBuilt(p, call)]]
             gate == [p \in Trees |-> [v \in V \X V |->
                        [call \in Calls |-> IF p.op = "OR" THEN OrBuilt(v[1], v[2], call)
                                            ELSE AndBuilt(v[1], v[2], call)]]]
  <1>1. ASSUME NEW p \in Trees, p.op = "leaf" PROVE base[p] \in V
    <2>1. ASSUME NEW call \in Calls PROVE LeafBuilt(p, call) \in Built
      <3>1. call.vec \in Seq(Int) /\ call.cols \in Nat
        BY DEF Calls
      <3>2. PICK row : row = [vec |-> call.vec, attr |-> p.attr]
        OBVIOUS
      <3>3. row \in MatrixRow
        BY <1>1, <3>1, <3>2 DEF MatrixRow
      <3> HIDE DEF MatrixRow
      <3>4. << row >> \in Seq(MatrixRow)
        BY <3>3
      <3> QED
        BY <3>1, <3>2, <3>4 DEF LeafBuilt, Built
    <2> HIDE DEF Built, LeafBuilt
    <2> QED
      BY <2>1
  <1>2. ASSUME NEW p \in Trees, NEW v \in V, NEW w \in V
        PROVE  /\ gate[p][<<v, w>>] \in V
               /\ gate[p][<<v, w>>] = [call \in Calls |-> IF p.op = "OR" THEN OrBuilt(v, w, call)
                                                          ELSE AndBuilt(v, w, call)]
    <2>1. gate[p][<<v, w>>] = [call \in Calls |-> IF p.op = "OR" THEN OrBuilt(v, w, call)
                                                  ELSE AndBuilt(v, w, call)]
      <3>1. <<v, w>> \in V \X V /\ <<v, w>>[1] = v /\ <<v, w>>[2] = w
        OBVIOUS
      <3> HIDE DEF V
      <3> QED
        BY <3>1
    <2>2. \A call \in Calls : OrBuilt(v, w, call) \in Built /\ AndBuilt(v, w, call) \in Built
      BY GateBuilt
    <2> HIDE DEF gate
    <2> QED
      BY <2>1, <2>2
  <1>3. Growth(V, base, gate) /\ V # {}
    <2>1. Growth(V, base, gate)
      <3> HIDE DEF base, gate, V
      <3> QED
        BY <1>1, <1>2 DEF Growth
    <2>2. [call \in Calls |-> [rows |-> <<>>, cols |-> 0]] \in V
      BY DEF Built
    <2> QED
      BY <2>1, <2>2
  <1>4. PICK f \in [Trees -> V] : \A p \in Trees : Grows(f, base, gate, p)
    <2> HIDE DEF base, gate, V
    <2> QED
      BY <1>3, TreeRecursion
  <1>5. ASSUME NEW p \in Trees PROVE BuildsAt(f, p)
    <2>1. CASE p.op = "leaf"
      <3>1. f[p] = base[p]
        BY <1>4, <2>1 DEF Grows
      <3> QED
        BY <2>1, <3>1 DEF BuildsAt
    <2>2. CASE p.op # "leaf"
      <3>1. PICK l \in Trees, r \in Trees : l = p.left /\ r = p.right
        BY <2>2, TreeFacts
      <3>2. f[p] = gate[p][<<f[l], f[r]>>]
        <4> HIDE DEF base, gate
        <4> QED
          BY <1>4, <2>2, <3>1 DEF Grows
      <3>3. f[l] \in V /\ f[r] \in V
        BY <1>4
      <3>4. f[p] = [call \in Calls |-> IF p.op = "OR" THEN OrBuilt(f[l], f[r], call)
                                       ELSE AndBuilt(f[l], f[r], call)]
        BY <1>2, <3>2, <3>3
      <3>5. CASE p.op = "OR"
        BY <3>1, <3>4, <3>5 DEF BuildsAt
      <3>6. CASE p.op = "AND"
        BY <3>1, <3>4, <3>6 DEF BuildsAt
      <3> QED
        BY <2>2, <3>5, <3>6, TreeFacts
    <2> QED
      BY <2>1, <2>2
  <1> QED
    BY <1>4, <1>5

(* and BuildMsp is one.                                                    *)
LEMMA BuilderUnfolds ==
    BuildMsp = [p \in Trees |-> BuildMsp[p]] /\ \A p \in Trees : BuildsAt(BuildMsp, p)
  <1> DEFINE Equation(f) ==
        f = [p \in Trees |->
              [call \in Calls |->
                CASE p.op = "OR" ->
                        LET l == f[p.left][call]
                            r == f[p.right][Call(call.vec, l.cols)]
                        IN  [rows |-> l.rows \o r.rows, cols |-> r.cols]
                  [] p.op = "AND" ->
                        LET n == call.cols + 1
                            l == f[p.left][Call([Resized(call.vec, n) EXCEPT ![n] = 1], n)]
                            r == f[p.right][Call([Resized(<<>>, n) EXCEPT ![n] = -1], l.cols)]
                        IN  [rows |-> l.rows \o r.rows, cols |-> r.cols]
                  [] p.op = "leaf" ->
                        [rows |-> << [vec |-> call.vec, attr |-> p.attr] >>, cols |-> call.cols]]]
  <1>1. \A f : Equation(f) <=> f = [p \in Trees |-> f[p]] /\ \A p \in Trees : BuildsAt(f, p)
    <2> TAKE f
    <2> QED
      BY DEF BuildsAt, LeafBuilt, OrBuilt, AndBuilt, Joined, LeftVec, RightVec
  <1>2. PICK f : Equation(f)
    <2>1. PICK f \in [Trees -> [Calls -> Built]] : \A p \in Trees : BuildsAt(f, p)
      BY BuilderExists
    <2>2. f = [p \in Trees |-> f[p]]
      OBVIOUS
    <2>3. Equation(f)
      <3> HIDE DEF Equation
      <3> QED
        BY <1>1, <2>1, <2>2
    <2> QED
      BY <2>3
  <1>3. BuildMsp = CHOOSE g : Equation(g)
    BY DEF BuildMsp
  <1> HIDE DEF Equation
  <1>4. Equation(BuildMsp)
    BY <1>2, <1>3
  <1> QED
    BY <1>1, <1>4

(* The rows and the columns of a subtree.                                  *)
RowsOf(p, vec, n) == BuildMsp[p][Call(vec, n)].rows
ColsOf(p, vec, n) == BuildMsp[p][Call(vec, n)].cols

(* A call has the vector and the columns it was made with.                 *)
LEMMA CallFacts ==
    ASSUME NEW vec \in Seq(Int), NEW n \in Nat
    PROVE  Call(vec, n) \in Calls /\ Call(vec, n).vec = vec /\ Call(vec, n).cols = n
  BY DEF Calls, Call

(* A leaf has one row.                                                     *)
LEMMA LeafRows ==
    ASSUME NEW p \in Trees, NEW vec \in Seq(Int), NEW n \in Nat, p.op = "leaf"
    PROVE  /\ RowsOf(p, vec, n) = << [vec |-> vec, attr |-> p.attr] >>
           /\ ColsOf(p, vec, n) = n
  <1>1. PICK call \in Calls : call = Call(vec, n) /\ call.vec = vec /\ call.cols = n
    BY CallFacts
  <1>2. BuildsAt(BuildMsp, p)
    BY BuilderUnfolds
  <1>3. BuildMsp[p][call] = LeafBuilt(p, call)
    BY <1>2 DEF BuildsAt
  <1> QED
    BY <1>1, <1>3 DEF LeafBuilt, RowsOf, ColsOf

(* A gate's rows are its sides': an OR's are both built with its vector,   *)
(* an AND's with the two parts of it.                                      *)
JoinsOr(p, vec, n, m) ==
    /\ RowsOf(p, vec, n) = RowsOf(p.left, vec, n) \o RowsOf(p.right, vec, m)
    /\ ColsOf(p, vec, n) = ColsOf(p.right, vec, m)
JoinsAnd(p, vec, n, lv, rv, o, m) ==
    /\ RowsOf(p, vec, n) = RowsOf(p.left, lv, o) \o RowsOf(p.right, rv, m)
    /\ ColsOf(p, vec, n) = ColsOf(p.right, rv, m)

(* An OR's rows are its sides', the right side's built over the left's     *)
(* columns.                                                                *)
LEMMA OrRows ==
    ASSUME NEW p \in Trees, NEW vec \in Seq(Int), NEW n \in Nat, p.op = "OR",
           NEW m, m = ColsOf(p.left, vec, n)
    PROVE  JoinsOr(p, vec, n, m)
  <1>1. PICK call \in Calls : call = Call(vec, n) /\ call.vec = vec /\ call.cols = n
    BY CallFacts
  <1>2. BuildsAt(BuildMsp, p)
    BY BuilderUnfolds
  <1>3. BuildMsp[p][call] = OrBuilt(BuildMsp[p.left], BuildMsp[p.right], call)
    BY <1>2 DEF BuildsAt
  <1>4. PICK l : l = BuildMsp[p.left][call]
    OBVIOUS
  <1>5. l.rows = RowsOf(p.left, vec, n) /\ l.cols = m
    BY <1>1, <1>4 DEF RowsOf, ColsOf
  <1>6. PICK r : r = BuildMsp[p.right][Call(vec, m)]
    OBVIOUS
  <1>7. r.rows = RowsOf(p.right, vec, m) /\ r.cols = ColsOf(p.right, vec, m)
    BY <1>6 DEF RowsOf, ColsOf
  <1>8. BuildMsp[p][call] = Joined(l, r)
    BY <1>1, <1>3, <1>4, <1>5, <1>6 DEF OrBuilt
  <1>9. RowsOf(p, vec, n) = Joined(l, r).rows /\ ColsOf(p, vec, n) = Joined(l, r).cols
    BY <1>1, <1>8 DEF RowsOf, ColsOf
  <1> QED
    BY <1>5, <1>7, <1>9 DEF Joined, JoinsOr

(* An AND's rows are its sides', the right side's built over the left's    *)
(* columns.                                                                *)
LEMMA AndRows ==
    ASSUME NEW p \in Trees, NEW vec \in Seq(Int), NEW n \in Nat, p.op = "AND",
           NEW o, o = n + 1, NEW lv, lv = LeftVec(vec, o), NEW rv, rv = RightVec(o),
           NEW m, m = ColsOf(p.left, lv, o)
    PROVE  JoinsAnd(p, vec, n, lv, rv, o, m)
  <1>1. PICK call \in Calls : call = Call(vec, n) /\ call.vec = vec /\ call.cols = n
    BY CallFacts
  <1>2. BuildsAt(BuildMsp, p)
    BY BuilderUnfolds
  <1>3. BuildMsp[p][call] = AndBuilt(BuildMsp[p.left], BuildMsp[p.right], call)
    BY <1>2 DEF BuildsAt
  <1>4. PICK l : l = BuildMsp[p.left][Call(lv, o)]
    OBVIOUS
  <1>5. l.rows = RowsOf(p.left, lv, o) /\ l.cols = m
    BY <1>4 DEF RowsOf, ColsOf
  <1>6. PICK r : r = BuildMsp[p.right][Call(rv, m)]
    OBVIOUS
  <1>7. r.rows = RowsOf(p.right, rv, m) /\ r.cols = ColsOf(p.right, rv, m)
    BY <1>6 DEF RowsOf, ColsOf
  <1>8. BuildMsp[p][call] = Joined(l, r)
    <2>1. AndBuilt(BuildMsp[p.left], BuildMsp[p.right], call) = Joined(l, BuildMsp[p.right][Call(rv, l.cols)])
      BY <1>1, <1>4 DEF AndBuilt
    <2> QED
      BY <1>3, <1>5, <1>6, <2>1
  <1>9. RowsOf(p, vec, n) = Joined(l, r).rows /\ ColsOf(p, vec, n) = Joined(l, r).cols
    BY <1>1, <1>8 DEF RowsOf, ColsOf
  <1> QED
    BY <1>5, <1>7, <1>9 DEF Joined, JoinsAnd

(* A tree's access structure from those of its sides.                      *)
LEMMA AccessUnfolds ==
    ASSUME NEW p \in Trees
    PROVE  /\ p.op = "leaf" => AccessStructure[p] = {attrs \in SUBSET Attributes : p.attr \in attrs}
           /\ p.op = "OR" => AccessStructure[p] = AccessStructure[p.left] \cup AccessStructure[p.right]
           /\ p.op = "AND" => AccessStructure[p] = AccessStructure[p.left] \cap AccessStructure[p.right]
  <1> DEFINE Leaf(t) == {attrs \in SUBSET Attributes : t.attr \in attrs}
             Equation(f) ==
               f = [t \in Trees |->
                     CASE t.op = "OR"   -> f[t.left] \cup f[t.right]
                       [] t.op = "AND"  -> f[t.left] \cap f[t.right]
                       [] t.op = "leaf" -> {attrs \in SUBSET Attributes : t.attr \in attrs}]
             V == SUBSET SUBSET Attributes
             base == [t \in Trees |-> Leaf(t)]
             Meet(t, v, w) == IF t.op = "OR" THEN v \cup w ELSE v \cap w
             gate == [t \in Trees |-> [v \in V \X V |-> Meet(t, v[1], v[2])]]
  <1>1. ASSUME NEW t \in Trees, NEW v \in V, NEW w \in V
        PROVE  gate[t][<<v, w>>] \in V /\ gate[t][<<v, w>>] = Meet(t, v, w)
    <2>1. gate[t][<<v, w>>] = Meet(t, v, w)
      <3>1. <<v, w>> \in V \X V /\ <<v, w>>[1] = v /\ <<v, w>>[2] = w
        OBVIOUS
      <3> HIDE DEF V, Meet
      <3> QED
        BY <3>1
    <2>2. Meet(t, v, w) \in V
      OBVIOUS
    <2> HIDE DEF gate
    <2> QED
      BY <2>1, <2>2
  <1>2. Growth(V, base, gate) /\ V # {}
    <2>1. \A t \in Trees : base[t] \in V
      OBVIOUS
    <2>2. V # {}
      OBVIOUS
    <2> HIDE DEF base, gate, V
    <2> QED
      BY <1>1, <2>1, <2>2 DEF Growth
  <1>3. PICK f \in [Trees -> V] : \A t \in Trees : Grows(f, base, gate, t)
    <2> HIDE DEF base, gate, V
    <2> QED
      BY <1>2, TreeRecursion
  <1>4. ASSUME NEW t \in Trees
        PROVE  f[t] = CASE t.op = "OR"   -> f[t.left] \cup f[t.right]
                        [] t.op = "AND"  -> f[t.left] \cap f[t.right]
                        [] t.op = "leaf" -> Leaf(t)
    <2>1. CASE t.op = "leaf"
      <3>1. f[t] = base[t]
        BY <1>3, <2>1 DEF Grows
      <3>2. base[t] = Leaf(t)
        OBVIOUS
      <3> HIDE DEF base, Leaf
      <3> QED
        BY <2>1, <3>1, <3>2
    <2>2. CASE t.op # "leaf"
      <3>1. PICK l \in Trees, r \in Trees : l = t.left /\ r = t.right
        BY <2>2, TreeFacts
      <3>2. f[t] = gate[t][<<f[l], f[r]>>]
        <4> HIDE DEF base, gate
        <4> QED
          BY <1>3, <2>2, <3>1 DEF Grows
      <3>3. f[l] \in V /\ f[r] \in V
        BY <1>3
      <3>4. f[t] = Meet(t, f[l], f[r])
        <4> HIDE DEF V, gate, Meet
        <4> QED
          BY <1>1, <3>2, <3>3
      <3>5. f[t] = IF t.op = "OR" THEN f[l] \cup f[r] ELSE f[l] \cap f[r]
        BY <3>4
      <3>6. t.op = "OR" \/ t.op = "AND"
        BY <2>2, TreeFacts
      <3> QED
        BY <3>1, <3>5, <3>6
    <2> QED
      BY <2>1, <2>2
  <1>5. \E g : Equation(g)
    <2>1. f = [t \in Trees |-> f[t]]
      OBVIOUS
    <2> HIDE DEF V, base, gate
    <2>2. Equation(f)
      BY <1>4, <2>1
    <2> QED
      BY <2>2
  <1>6. AccessStructure = CHOOSE g : Equation(g)
    BY DEF AccessStructure
  <1> HIDE DEF Equation
  <1>7. Equation(AccessStructure)
    BY <1>5, <1>6
  <1>8. AccessStructure[p] = CASE p.op = "OR"   -> AccessStructure[p.left] \cup AccessStructure[p.right]
                               [] p.op = "AND"  -> AccessStructure[p.left] \cap AccessStructure[p.right]
                               [] p.op = "leaf" -> {attrs \in SUBSET Attributes : p.attr \in attrs}
    BY <1>7 DEF Equation
  <1>9. ASSUME p.op = "OR" PROVE AccessStructure[p] = AccessStructure[p.left] \cup AccessStructure[p.right]
    BY <1>8, <1>9
  <1>10. ASSUME p.op = "AND" PROVE AccessStructure[p] = AccessStructure[p.left] \cap AccessStructure[p.right]
    BY <1>8, <1>10
  <1>11. ASSUME p.op = "leaf"
         PROVE  AccessStructure[p] = {attrs \in SUBSET Attributes : p.attr \in attrs}
    BY <1>8, <1>11
  <1> QED
    BY <1>9, <1>10, <1>11

-----------------------------------------------------------------------------
(* Weights of the rows.                                                    *)

(* The columns of a matrix, however many it gets.                          *)
Columns == Nat \ {0}

(* A row that is shorter has zeros beyond its end.                         *)
Entry(vec, c) == IF c <= Len(vec) THEN vec[c] ELSE 0

(* A column of the rows, and the rows weighed in it.                       *)
EntriesIn(rs, c) == [i \in 1..Len(rs) |-> Entry(rs[i].vec, c)]
Weigh(rs, w, c) == Dot(w, EntriesIn(rs, c), 1..Len(rs))

(* Entries are whole numbers.                                              *)
LEMMA EntryInt ==
    ASSUME NEW vec \in Seq(Int), NEW c \in Columns
    PROVE  Entry(vec, c) \in Int /\ (Len(vec) < c => Entry(vec, c) = 0)
  <1>1. c <= Len(vec) => c \in 1..Len(vec)
    BY DEF Columns
  <1>2. c <= Len(vec) => vec[c] \in Int
    BY <1>1
  <1>3. Len(vec) < c => ~ (c <= Len(vec))
    BY DEF Columns
  <1> QED
    BY <1>2, <1>3 DEF Entry

(* The rows of a matrix have whole numbers in every column.                *)
LEMMA EntriesInt ==
    ASSUME NEW rs \in Seq(MatrixRow), NEW c \in Columns
    PROVE  /\ IntsOn(EntriesIn(rs, c), 1..Len(rs))
           /\ \A w : IntsOn(w, 1..Len(rs)) => Weigh(rs, w, c) \in Int
  <1>1. ASSUME NEW i \in 1..Len(rs) PROVE EntriesIn(rs, c)[i] \in Int
    <2>1. rs[i] \in MatrixRow
      OBVIOUS
    <2>2. rs[i].vec \in Seq(Int)
      BY <2>1 DEF MatrixRow
    <2>3. EntriesIn(rs, c)[i] = Entry(rs[i].vec, c)
      BY DEF EntriesIn
    <2> QED
      BY <2>2, <2>3, EntryInt
  <1>2. IntsOn(EntriesIn(rs, c), 1..Len(rs))
    BY <1>1 DEF IntsOn
  <1>3. IsFiniteSet(1..Len(rs))
    <2>1. Len(rs) \in Nat
      OBVIOUS
    <2> QED
      BY <2>1, FS_Interval
  <1> QED
    BY <1>2, <1>3, DotInt DEF Weigh

(* The weights of the rows after the first m.                              *)
After(w, m, n) == [i \in 1..n |-> w[i + m]]

(* Rows put one after the other weigh what they weigh on their own.        *)
LEMMA WeighJoined ==
    ASSUME NEW l \in Seq(MatrixRow), NEW r \in Seq(MatrixRow), NEW c \in Columns,
           NEW w, IntsOn(w, 1..Len(l \o r))
    PROVE  /\ Len(l \o r) = Len(l) + Len(r) /\ l \o r \in Seq(MatrixRow)
           /\ IntsOn(w, 1..Len(l)) /\ IntsOn(After(w, Len(l), Len(r)), 1..Len(r))
           /\ Weigh(l \o r, w, c) = Weigh(l, w, c) + Weigh(r, After(w, Len(l), Len(r)), c)
  <1>1. PICK m \in Nat, n \in Nat : m = Len(l) /\ n = Len(r)
    OBVIOUS
  <1>2. PICK rs \in Seq(MatrixRow) : rs = l \o r
    <2>1. l \o r \in Seq(MatrixRow)
      OBVIOUS
    <2> QED
      BY <2>1
  <1>3. /\ Len(rs) = m + n
        /\ \A i \in 1..m : rs[i] = l[i]
        /\ \A i \in 1..n : rs[i + m] = r[i]
    BY <1>1, <1>2
  <1>4. PICK e : e = EntriesIn(rs, c)
    OBVIOUS
  <1>5. IntsOn(e, 1..(m + n)) /\ IntsOn(w, 1..(m + n))
    BY <1>2, <1>3, <1>4, EntriesInt
  <1>6. \A i \in 1..n : /\ EntriesIn(r, c)[i] = e[i + m]
                        /\ After(w, m, n)[i] = w[i + m]
    <2>1. ASSUME NEW i \in 1..n PROVE EntriesIn(r, c)[i] = e[i + m] /\ After(w, m, n)[i] = w[i + m]
      <3>1. i + m \in 1..(m + n)
        OBVIOUS
      <3>2. e[i + m] = Entry(rs[i + m].vec, c)
        BY <1>3, <1>4, <3>1 DEF EntriesIn
      <3>3. EntriesIn(r, c)[i] = Entry(r[i].vec, c)
        BY <1>1 DEF EntriesIn
      <3> QED
        BY <1>3, <3>2, <3>3 DEF After
    <2> QED
      BY <2>1
  <1>7. \A i \in 1..m : EntriesIn(l, c)[i] = e[i]
    <2>1. ASSUME NEW i \in 1..m PROVE EntriesIn(l, c)[i] = e[i]
      <3>1. i \in 1..(m + n)
        OBVIOUS
      <3> QED
        BY <1>1, <1>3, <1>4, <3>1 DEF EntriesIn
    <2> QED
      BY <2>1
  <1>8. Dot(w, e, 1..(m + n)) = Dot(w, e, 1..m) + Dot(After(w, m, n), EntriesIn(r, c), 1..n)
    BY <1>5, <1>6, SplitDot
  <1>9. Dot(w, e, 1..m) = Dot(w, EntriesIn(l, c), 1..m)
    <2>1. [j \in 1..m |-> w[j] * e[j]] = [j \in 1..m |-> w[j] * EntriesIn(l, c)[j]]
      BY <1>7
    <2> QED
      BY <2>1 DEF Dot
  <1>10. IntsOn(w, 1..m) /\ IntsOn(After(w, m, n), 1..n)
    <2>1. \A i \in 1..m : i \in 1..(m + n)
      OBVIOUS
    <2>2. \A i \in 1..n : i + m \in 1..(m + n)
      OBVIOUS
    <2> QED
      BY <1>5, <1>6, <2>1, <2>2 DEF IntsOn
  <1>11. Weigh(rs, w, c) = Weigh(l, w, c) + Weigh(r, After(w, m, n), c)
    BY <1>1, <1>3, <1>4, <1>8, <1>9 DEF Weigh
  <1> QED
    BY <1>1, <1>2, <1>3, <1>10, <1>11

-----------------------------------------------------------------------------
(* What the rows of a tree share.                                          *)

(* The rows that attributes hold, and those with a weight.                 *)
Holding(rs, attrs) == {i \in 1..Len(rs) : rs[i].attr \in attrs}
Chosen(rs, w) == {i \in 1..Len(rs) : w[i] # 0}

(* Rows of S add up to vec.                                                *)
Picks(w, rs, vec, S) ==
    /\ w \in [1..Len(rs) -> {0, 1}]
    /\ \A i \in 1..Len(rs) : w[i] # 0 => i \in S
    /\ \A c \in Columns : Weigh(rs, w, c) = Entry(vec, c)
Picked(rs, vec, S) == \E w : Picks(w, rs, vec, S)

(* The attributes of the rows of S are enough for A.                       *)
Suffices(rs, S, A) ==
    \A attrs \in SUBSET Attributes : (\A i \in S : rs[i].attr \in attrs) => attrs \in A

(* The weighed rows are zero beyond n columns, modulo q.                   *)
Vanishes(rs, w, n) == \A c \in Columns : n < c => Congruent(Weigh(rs, w, c), 0)

(* The weighed rows are a times vec, and a is zero when the attributes of  *)
(* the rows with a weight do not suffice.                                  *)
Scales(rs, w, a, vec, A) ==
    /\ \A c \in Columns : Congruent(Weigh(rs, w, c), a * Entry(vec, c))
    /\ ~ Congruent(a, 0) => Picked(rs, vec, Chosen(rs, w)) /\ Suffices(rs, Chosen(rs, w), A)

(* So it is whenever the weighed rows are zero in the new columns.         *)
Sound(rs, vec, n, A) ==
    \A w : IntsOn(w, 1..Len(rs)) /\ Vanishes(rs, w, n) => \E a \in Int : Scales(rs, w, a, vec, A)

(* Rows of at most k columns that share vec, of at most n, among A.        *)
Sharing(rs, k, vec, n, A) ==
    /\ rs \in Seq(MatrixRow) /\ k \in Nat /\ n <= k /\ rs # <<>>
    /\ \A i \in 1..Len(rs) : Len(rs[i].vec) <= k
    /\ Sound(rs, vec, n, A)
    /\ \A attrs \in A : Picked(rs, vec, Holding(rs, attrs))

(* Equal weights weigh the same.                                           *)
LEMMA WeighAgree ==
    ASSUME NEW rs, NEW w, NEW v, \A i \in 1..Len(rs) : w[i] = v[i], NEW c
    PROVE  Weigh(rs, w, c) = Weigh(rs, v, c)
  <1>1. [j \in 1..Len(rs) |-> w[j] * EntriesIn(rs, c)[j]] = [j \in 1..Len(rs) |-> v[j] * EntriesIn(rs, c)[j]]
    OBVIOUS
  <1> QED
    BY <1>1 DEF Weigh, Dot

(* Two vectors add up to vec.                                              *)
AddUp(lv, rv, vec) == \A c \in Columns : Entry(lv, c) + Entry(rv, c) = Entry(vec, c)

(* U has the places S of the first rows, and T of those that follow them.  *)
Covers(U, l, S, r, T) ==
    /\ \A i \in 1..Len(l) : i \in S => i \in U
    /\ \A i \in 1..Len(r) : i \in T => i + Len(l) \in U

(* Rows picked on either side are picked of both.                          *)
LEMMA PickedJoined ==
    ASSUME NEW l \in Seq(MatrixRow), NEW r \in Seq(MatrixRow), NEW vec, NEW lv, NEW rv,
           AddUp(lv, rv, vec), NEW S, NEW T, Picked(l, lv, S), Picked(r, rv, T),
           NEW U, Covers(U, l, S, r, T)
    PROVE  Picked(l \o r, vec, U)
  <1>1. PICK m \in Nat, n \in Nat : m = Len(l) /\ n = Len(r)
    OBVIOUS
  <1>2. PICK x : Picks(x, l, lv, S)
    BY DEF Picked
  <1>3. PICK y : Picks(y, r, rv, T)
    BY DEF Picked
  <1>4. x \in [1..m -> {0, 1}] /\ y \in [1..n -> {0, 1}]
    BY <1>1, <1>2, <1>3 DEF Picks
  <1> DEFINE w == [i \in 1..(m + n) |-> IF i <= m THEN x[i] ELSE y[i - m]]
  <1>5. /\ \A i \in 1..m : w[i] = x[i]
        /\ \A i \in 1..n : After(w, m, n)[i] = y[i]
    <2>1. ASSUME NEW i \in 1..m PROVE w[i] = x[i]
      OBVIOUS
    <2>2. ASSUME NEW i \in 1..n PROVE After(w, m, n)[i] = y[i]
      <3>1. PICK j \in 1..(m + n) : j = i + m /\ j - m = i /\ ~ (j <= m)
        OBVIOUS
      <3>2. w[j] = y[i]
        BY <3>1
      <3> HIDE DEF w
      <3> QED
        BY <3>1, <3>2 DEF After
    <2> HIDE DEF w
    <2> QED
      BY <2>1, <2>2
  <1>6. ASSUME NEW i \in 1..(m + n) PROVE w[i] \in {0, 1} /\ (w[i] # 0 => i \in U)
    <2>1. CASE i <= m
      <3>1. i \in 1..m
        BY <2>1
      <3>2. w[i] = x[i]
        BY <3>1
      <3> HIDE DEF w
      <3> QED
        BY <1>1, <1>2, <1>4, <3>1, <3>2 DEF Picks, Covers
    <2>2. CASE ~ (i <= m)
      <3>1. PICK j \in 1..n : j = i - m /\ i = j + m
        BY <2>2
      <3>2. w[i] = y[j]
        BY <2>2, <3>1
      <3> HIDE DEF w
      <3> QED
        BY <1>1, <1>3, <1>4, <3>1, <3>2 DEF Picks, Covers
    <2> QED
      BY <2>1, <2>2
  <1>7. Len(l \o r) = m + n
    BY <1>1
  <1>8. w \in [1..(m + n) -> {0, 1}]
    BY <1>6
  <1> HIDE DEF w
  <1>9. IntsOn(w, 1..Len(l \o r))
    BY <1>7, <1>8 DEF IntsOn
  <1>10. ASSUME NEW c \in Columns PROVE Weigh(l \o r, w, c) = Entry(vec, c)
    <2>1. Weigh(l \o r, w, c) = Weigh(l, w, c) + Weigh(r, After(w, m, n), c)
      BY <1>1, <1>9, WeighJoined
    <2>2. Weigh(l, w, c) = Weigh(l, x, c)
      <3>1. \A i \in 1..Len(l) : w[i] = x[i]
        BY <1>1, <1>5
      <3> QED
        BY <3>1, WeighAgree
    <2>3. Weigh(r, After(w, m, n), c) = Weigh(r, y, c)
      <3>1. PICK z : z = After(w, m, n)
        OBVIOUS
      <3>2. \A i \in 1..Len(r) : z[i] = y[i]
        BY <1>1, <1>5, <3>1
      <3> QED
        BY <3>1, <3>2, WeighAgree
    <2> QED
      BY <1>2, <1>3, <2>1, <2>2, <2>3 DEF Picks, AddUp
  <1>11. Picks(w, l \o r, vec, U)
    BY <1>6, <1>7, <1>8, <1>10 DEF Picks
  <1> QED
    BY <1>11 DEF Picked

(* No rows add up to nothing.                                              *)
LEMMA PickedNone ==
    ASSUME NEW rs \in Seq(MatrixRow), NEW S
    PROVE  Picked(rs, <<>>, S)
  <1> DEFINE w == [i \in 1..Len(rs) |-> 0]
  <1>1. w \in [1..Len(rs) -> {0, 1}] /\ \A i \in 1..Len(rs) : w[i] = 0
    OBVIOUS
  <1>2. IsFiniteSet(1..Len(rs))
    <2>1. Len(rs) \in Nat
      OBVIOUS
    <2> QED
      BY <2>1, FS_Interval
  <1> HIDE DEF w
  <1>3. ASSUME NEW c \in Columns PROVE Weigh(rs, w, c) = Entry(<<>>, c)
    <2> DEFINE f == [i \in 1..Len(rs) |-> w[i] * EntriesIn(rs, c)[i]]
    <2>1. ASSUME NEW i \in 1..Len(rs) PROVE f[i] = 0
      <3>1. PICK e \in Int : e = EntriesIn(rs, c)[i]
        BY EntriesInt DEF IntsOn
      <3> QED
        BY <1>1, <3>1
    <2>2. Weigh(rs, w, c) = SumFunctionOnSet(f, 1..Len(rs))
      BY DEF Weigh, Dot
    <2> HIDE DEF f
    <2>3. Weigh(rs, w, c) = 0
      BY <1>2, <2>1, <2>2, SumZero
    <2>4. Entry(<<>>, c) = 0
      <3>1. ~ (c <= Len(<<>>))
        BY DEF Columns
      <3> QED
        BY <3>1 DEF Entry
    <2> QED
      BY <2>3, <2>4
  <1>4. Picks(w, rs, <<>>, S)
    BY <1>1, <1>3 DEF Picks
  <1> QED
    BY <1>4 DEF Picked

(* Where the rows with a weight are on both sides.                         *)
LEMMA ChosenJoined ==
    ASSUME NEW l \in Seq(MatrixRow), NEW r \in Seq(MatrixRow), NEW w
    PROVE  /\ \A i \in 1..Len(l) : i \in Chosen(l, w) => i \in Chosen(l \o r, w)
           /\ \A i \in 1..Len(r) : i \in Chosen(r, After(w, Len(l), Len(r)))
                                      => i + Len(l) \in Chosen(l \o r, w)
  <1>1. PICK m \in Nat, n \in Nat : m = Len(l) /\ n = Len(r)
    OBVIOUS
  <1>2. Len(l \o r) = m + n
    BY <1>1
  <1>3. \A i \in 1..m : i \in 1..(m + n)
    OBVIOUS
  <1>4. \A i \in 1..n : i + m \in 1..(m + n)
    OBVIOUS
  <1> QED
    BY <1>1, <1>2, <1>3, <1>4 DEF Chosen, After

(* Attributes that hold rows of both sides hold those of either.           *)
LEMMA HoldingJoined ==
    ASSUME NEW l \in Seq(MatrixRow), NEW r \in Seq(MatrixRow), NEW attrs
    PROVE  /\ \A i \in 1..Len(l) : i \in Holding(l, attrs) => i \in Holding(l \o r, attrs)
           /\ \A i \in 1..Len(r) : i \in Holding(r, attrs) => i + Len(l) \in Holding(l \o r, attrs)
  <1>1. PICK m \in Nat, n \in Nat : m = Len(l) /\ n = Len(r)
    OBVIOUS
  <1>2. Len(l \o r) = m + n
    BY <1>1
  <1>3. \A i \in 1..m : i \in 1..(m + n) /\ (l \o r)[i] = l[i]
    BY <1>1
  <1>4. \A i \in 1..n : i + m \in 1..(m + n) /\ (l \o r)[i + m] = r[i]
    BY <1>1
  <1> QED
    BY <1>1, <1>2, <1>3, <1>4 DEF Holding

(* What suffices of either side's weighed rows does of all of them.        *)
LEMMA SufficesJoined ==
    ASSUME NEW l \in Seq(MatrixRow), NEW r \in Seq(MatrixRow), NEW w, NEW A
    PROVE  /\ Suffices(l, Chosen(l, w), A) => Suffices(l \o r, Chosen(l \o r, w), A)
           /\ Suffices(r, Chosen(r, After(w, Len(l), Len(r))), A) => Suffices(l \o r, Chosen(l \o r, w), A)
  <1>1. PICK m \in Nat, n \in Nat : m = Len(l) /\ n = Len(r)
    OBVIOUS
  <1>2. PICK rs : rs = l \o r
    OBVIOUS
  <1>3. (\A i \in 1..m : rs[i] = l[i]) /\ (\A i \in 1..n : rs[i + m] = r[i])
    BY <1>1, <1>2
  <1>4. /\ \A i \in Chosen(l, w) : i \in 1..m /\ i \in Chosen(rs, w)
        /\ \A i \in Chosen(r, After(w, m, n)) : i \in 1..n /\ i + m \in Chosen(rs, w)
    BY <1>1, <1>2, ChosenJoined DEF Chosen
  <1>5. ASSUME NEW attrs \in SUBSET Attributes, \A i \in Chosen(rs, w) : rs[i].attr \in attrs
        PROVE  /\ \A i \in Chosen(l, w) : l[i].attr \in attrs
               /\ \A i \in Chosen(r, After(w, m, n)) : r[i].attr \in attrs
    BY <1>3, <1>4, <1>5
  <1>6. ASSUME Suffices(l, Chosen(l, w), A) PROVE Suffices(rs, Chosen(rs, w), A)
    BY <1>5, <1>6 DEF Suffices
  <1>7. ASSUME Suffices(r, Chosen(r, After(w, m, n)), A) PROVE Suffices(rs, Chosen(rs, w), A)
    BY <1>5, <1>7 DEF Suffices
  <1> QED
    BY <1>1, <1>2, <1>6, <1>7

(* A single row weighs its weight times itself.                            *)
LEMMA WeighOne ==
    ASSUME NEW row \in MatrixRow, NEW w, w[1] \in Int, NEW c \in Columns
    PROVE  Weigh(<< row >>, w, c) = w[1] * Entry(row.vec, c)
  <1> DEFINE f == [i \in 1..1 |-> w[i] * EntriesIn(<< row >>, c)[i]]
  <1>1. PICK x \in Int : x = w[1]
    OBVIOUS
  <1>2. PICK y \in Int : y = Entry(row.vec, c)
    BY EntryInt DEF MatrixRow
  <1>3. Len(<< row >>) = 1 /\ << row >>[1] = row
    OBVIOUS
  <1>4. EntriesIn(<< row >>, c)[1] = y
    BY <1>2, <1>3 DEF EntriesIn
  <1>5. f[1] = x * y /\ f[1] \in Int
    BY <1>1, <1>4
  <1>6. Weigh(<< row >>, w, c) = SumFunctionOnSet(f, 1..1)
    BY <1>3 DEF Weigh, Dot
  <1>7. PICK S : S = 1..1 /\ IsFiniteSet(S) /\ 1 \in S /\ \A i \in S : i = 1
    <2>1. PICK n \in Nat : n = 1
      OBVIOUS
    <2>2. IsFiniteSet(1..n)
      BY FS_Interval
    <2> QED
      BY <2>1, <2>2
  <1> HIDE DEF f
  <1>8. SumFunctionOnSet(f, S) = f[1]
    BY <1>5, <1>7, SumSingle
  <1> QED
    BY <1>1, <1>2, <1>5, <1>6, <1>7, <1>8

(* A leaf's row shares with those who have its attribute.                  *)
LEMMA LeafShares ==
    ASSUME NEW vec \in Seq(Int), NEW n \in Nat, Len(vec) <= n,
           NEW row \in MatrixRow, row.vec = vec
    PROVE  Sharing(<< row >>, n, vec, n, {attrs \in SUBSET Attributes : row.attr \in attrs})
  <1> DEFINE A == {attrs \in SUBSET Attributes : row.attr \in attrs}
             rs == << row >>
  <1>1. rs \in Seq(MatrixRow) /\ Len(rs) = 1 /\ rs[1] = row /\ rs # <<>>
    OBVIOUS
  <1>2. \A i \in 1..1 : i = 1
    OBVIOUS
  <1>3. 1 \in 1..1
    OBVIOUS
  <1>4. \A w : w[1] \in Int => \A c \in Columns : Weigh(rs, w, c) = w[1] * Entry(vec, c)
    BY WeighOne
  <1>5. \A c \in Columns : Entry(vec, c) \in Int
    BY EntryInt
  <1>6. Picked(rs, vec, {1})
    <2>1. PICK w : w = [i \in 1..1 |-> 1]
      OBVIOUS
    <2>2. w[1] = 1 /\ w \in [1..1 -> {0, 1}]
      BY <2>1
    <2>3. \A c \in Columns : Weigh(rs, w, c) = Entry(vec, c)
      BY <1>4, <1>5, <2>2
    <2> HIDE DEF rs
    <2>4. Picks(w, rs, vec, {1})
      BY <1>1, <1>2, <2>2, <2>3 DEF Picks
    <2> QED
      BY <2>4 DEF Picked
  <1> HIDE DEF rs
  <1>7. ASSUME NEW attrs \in A PROVE Picked(rs, vec, Holding(rs, attrs))
    <2>1. Holding(rs, attrs) = {1}
      BY <1>1, <1>2, <1>3 DEF Holding
    <2> QED
      BY <1>6, <2>1
  <1>8. ASSUME NEW w, IntsOn(w, 1..Len(rs))
        PROVE  \E a \in Int : Scales(rs, w, a, vec, A)
    <2>1. PICK a \in Int : a = w[1]
      BY <1>1, <1>3, <1>8 DEF IntsOn
    <2>2. ASSUME NEW c \in Columns PROVE Congruent(Weigh(rs, w, c), a * Entry(vec, c))
      <3>1. PICK y \in Int : y = Entry(vec, c)
        BY <1>5
      <3>2. a * y \in Int
        OBVIOUS
      <3> QED
        BY <1>4, <2>1, <3>1, <3>2, CongSame
    <2>3. ASSUME ~ Congruent(a, 0)
          PROVE  Picked(rs, vec, Chosen(rs, w)) /\ Suffices(rs, Chosen(rs, w), A)
      <3>1. a # 0
        BY <2>3, CongSame
      <3>2. Chosen(rs, w) = {1}
        BY <1>1, <1>2, <1>3, <2>1, <3>1 DEF Chosen
      <3>3. Suffices(rs, {1}, A)
        BY <1>1 DEF Suffices
      <3> QED
        BY <1>6, <3>2, <3>3
    <2> HIDE DEF A
    <2> QED
      BY <2>2, <2>3 DEF Scales
  <1>9. Sound(rs, vec, n, A)
    BY <1>8 DEF Sound
  <1>10. \A i \in 1..Len(rs) : Len(rs[i].vec) <= n
    BY <1>1, <1>2
  <1> HIDE DEF A
  <1>11. Sharing(rs, n, vec, n, A)
    BY <1>1, <1>7, <1>9, <1>10 DEF Sharing
  <1> QED
    BY <1>11 DEF A, rs

(* Rows weigh nothing beyond their columns.                                *)
LEMMA RowsEnd ==
    ASSUME NEW rs \in Seq(MatrixRow), NEW k \in Nat, \A i \in 1..Len(rs) : Len(rs[i].vec) <= k,
           NEW w, IntsOn(w, 1..Len(rs)), NEW c \in Columns, k < c
    PROVE  Weigh(rs, w, c) = 0
  <1> DEFINE f == [i \in 1..Len(rs) |-> w[i] * EntriesIn(rs, c)[i]]
  <1>1. ASSUME NEW i \in 1..Len(rs) PROVE f[i] = 0
    <2>1. PICK x \in Int : x = w[i]
      BY DEF IntsOn
    <2>2. rs[i] \in MatrixRow
      OBVIOUS
    <2>3. PICK vec \in Seq(Int) : vec = rs[i].vec
      BY <2>2 DEF MatrixRow
    <2>4. Len(vec) < c
      <3>1. Len(vec) \in Nat /\ Len(vec) <= k /\ c \in Nat
        BY <2>3 DEF Columns
      <3> QED
        BY <3>1
    <2>5. EntriesIn(rs, c)[i] = 0
      BY <2>3, <2>4, EntryInt DEF EntriesIn
    <2> QED
      BY <2>1, <2>5
  <1>2. IsFiniteSet(1..Len(rs))
    <2>1. Len(rs) \in Nat
      OBVIOUS
    <2> QED
      BY <2>1, FS_Interval
  <1>3. Weigh(rs, w, c) = SumFunctionOnSet(f, 1..Len(rs))
    BY DEF Weigh, Dot
  <1> HIDE DEF f
  <1> QED
    BY <1>1, <1>2, <1>3, SumZero

(* The shape of two sides' rows, one after the other.                      *)
LEMMA ShapeJoined ==
    ASSUME NEW l, NEW m, NEW lv, NEW n, NEW A, Sharing(l, m, lv, n, A),
           NEW r, NEW k, NEW rv, NEW B, Sharing(r, k, rv, m, B), n \in Nat
    PROVE  /\ l \o r \in Seq(MatrixRow) /\ l \o r # <<>> /\ k \in Nat /\ n <= k
           /\ \A i \in 1..Len(l \o r) : Len((l \o r)[i].vec) <= k
  <1>1. l \in Seq(MatrixRow) /\ r \in Seq(MatrixRow) /\ l # <<>>
    BY DEF Sharing
  <1>2. PICK a \in Nat, b \in Nat : a = Len(l) /\ b = Len(r) /\ a > 0
    BY <1>1
  <1>3. l \o r \in Seq(MatrixRow) /\ Len(l \o r) = a + b
    BY <1>1, <1>2
  <1>4. m \in Nat /\ k \in Nat /\ n <= m /\ m <= k
    BY DEF Sharing
  <1>5. \A i \in 1..a : (l \o r)[i] = l[i] /\ Len(l[i].vec) <= m
    BY <1>1, <1>2 DEF Sharing
  <1>6. \A i \in 1..b : (l \o r)[i + a] = r[i] /\ Len(r[i].vec) <= k
    BY <1>1, <1>2 DEF Sharing
  <1>7. ASSUME NEW i \in 1..(a + b) PROVE Len((l \o r)[i].vec) <= k
    <2>1. CASE i <= a
      <3>1. i \in 1..a
        BY <2>1
      <3>2. PICK row \in MatrixRow : row = (l \o r)[i]
        BY <1>1, <1>2, <1>5, <3>1
      <3>3. row.vec \in Seq(Int)
        BY DEF MatrixRow
      <3>4. Len(row.vec) \in Nat
        BY <3>3
      <3>5. Len(row.vec) <= m
        BY <1>5, <3>1, <3>2
      <3>6. Len(row.vec) <= k
        BY <1>4, <3>4, <3>5
      <3> QED
        BY <3>2, <3>6
    <2>2. CASE ~ (i <= a)
      <3>1. PICK j \in 1..b : i = j + a
        <4>1. i - a \in 1..b /\ i = (i - a) + a
          BY <2>2
        <4> QED
          BY <4>1
      <3> QED
        BY <1>6, <3>1
    <2> QED
      BY <2>1, <2>2
  <1>8. l \o r # <<>>
    <2>1. Len(l \o r) # 0
      BY <1>2, <1>3
    <2> QED
      BY <2>1
  <1>9. n <= k
    BY <1>4
  <1> QED
    BY <1>3, <1>4, <1>7, <1>8, <1>9

(* Weighed rows that are zero in the columns new to both sides are zero in *)
(* those new to the right,                                                 *)
LEMMA RightVanishes ==
    ASSUME NEW l \in Seq(MatrixRow), NEW r \in Seq(MatrixRow), NEW n \in Nat, NEW m \in Nat, n <= m,
           \A i \in 1..Len(l) : Len(l[i].vec) <= m,
           NEW w, IntsOn(w, 1..Len(l \o r)), Vanishes(l \o r, w, n)
    PROVE  Vanishes(r, After(w, Len(l), Len(r)), m)
  <1>1. PICK y : y = After(w, Len(l), Len(r))
    OBVIOUS
  <1>2. ASSUME NEW c \in Columns, m < c PROVE Congruent(Weigh(r, y, c), 0)
    <2>1. /\ Weigh(l \o r, w, c) = Weigh(l, w, c) + Weigh(r, y, c)
          /\ IntsOn(w, 1..Len(l)) /\ IntsOn(y, 1..Len(r))
      BY <1>1, WeighJoined
    <2>2. Weigh(l, w, c) = 0
      BY <1>2, <2>1, RowsEnd
    <2>3. n < c
      BY <1>2 DEF Columns
    <2>4. Congruent(Weigh(l \o r, w, c), 0)
      BY <2>3 DEF Vanishes
    <2>5. Weigh(r, y, c) \in Int
      BY <2>1, EntriesInt
    <2> QED
      BY <2>1, <2>2, <2>4, <2>5
  <1> QED
    BY <1>1, <1>2 DEF Vanishes

(* and, where the right is a multiple of a vector of o columns, in those   *)
(* new to the left.                                                        *)
LEMMA LeftVanishes ==
    ASSUME NEW l \in Seq(MatrixRow), NEW r \in Seq(MatrixRow), NEW n \in Nat, NEW o \in Nat, n <= o,
           NEW w, IntsOn(w, 1..Len(l \o r)), Vanishes(l \o r, w, n),
           NEW rv \in Seq(Int), \A c \in Columns : o < c => Entry(rv, c) = 0, NEW b \in Int,
           NEW B, Scales(r, After(w, Len(l), Len(r)), b, rv, B)
    PROVE  Vanishes(l, w, o)
  <1>1. PICK y : y = After(w, Len(l), Len(r))
    OBVIOUS
  <1>2. ASSUME NEW c \in Columns, o < c PROVE Congruent(Weigh(l, w, c), 0)
    <2>1. /\ Weigh(l \o r, w, c) = Weigh(l, w, c) + Weigh(r, y, c)
          /\ IntsOn(w, 1..Len(l)) /\ IntsOn(y, 1..Len(r))
      BY <1>1, WeighJoined
    <2>2. n < c
      BY <1>2 DEF Columns
    <2>3. Congruent(Weigh(l \o r, w, c), 0)
      BY <2>2 DEF Vanishes
    <2>4. Congruent(Weigh(r, y, c), 0)
      <3>1. Entry(rv, c) = 0 /\ b * 0 = 0
        BY <1>2
      <3>2. Congruent(Weigh(r, y, c), b * Entry(rv, c))
        BY <1>1 DEF Scales
      <3> QED
        BY <3>1, <3>2
    <2>5. PICK p \in Int, q \in Int : p = Weigh(l, w, c) /\ q = Weigh(r, y, c)
      BY <2>1, EntriesInt
    <2>6. Congruent((p + q) - q, 0 - 0)
      BY <2>1, <2>3, <2>4, <2>5, CongPlus
    <2>7. (p + q) - q = p /\ 0 - 0 = 0
      OBVIOUS
    <2> QED
      BY <2>5, <2>6, <2>7
  <1> QED
    BY <1>2 DEF Vanishes

(* What suffices for fewer suffices for more.                              *)
LEMMA SufficesMore ==
    ASSUME NEW rs, NEW S, NEW A, NEW B, A \subseteq B, Suffices(rs, S, A)
    PROVE  Suffices(rs, S, B)
  BY DEF Suffices

(* The sides of an OR share the vector either way.                         *)
LEMMA OrShares ==
    ASSUME NEW vec \in Seq(Int), NEW n \in Nat, Len(vec) <= n,
           NEW l, NEW m, NEW A, Sharing(l, m, vec, n, A),
           NEW r, NEW k, NEW B, Sharing(r, k, vec, m, B)
    PROVE  Sharing(l \o r, k, vec, n, A \cup B)
  <1> DEFINE C == A \cup B
  <1>1. PICK rs : rs = l \o r
    OBVIOUS
  <1>2. /\ rs \in Seq(MatrixRow) /\ rs # <<>> /\ k \in Nat /\ n <= k
        /\ \A i \in 1..Len(rs) : Len(rs[i].vec) <= k
    BY <1>1, ShapeJoined
  <1>3. /\ l \in Seq(MatrixRow) /\ r \in Seq(MatrixRow) /\ m \in Nat /\ n <= m
        /\ \A i \in 1..Len(l) : Len(l[i].vec) <= m
    BY DEF Sharing
  <1>4. A \subseteq C /\ B \subseteq C
    OBVIOUS
  <1>5. \A c \in Columns : /\ Entry(vec, c) + Entry(<<>>, c) = Entry(vec, c)
                           /\ Entry(<<>>, c) + Entry(vec, c) = Entry(vec, c)
                           /\ Entry(vec, c) \in Int /\ (n < c => Entry(vec, c) = 0)
    <2>1. ASSUME NEW c \in Columns
          PROVE  Entry(<<>>, c) = 0 /\ Entry(vec, c) \in Int /\ (n < c => Entry(vec, c) = 0)
      <3>1. ~ (c <= Len(<<>>))
        BY DEF Columns
      <3>2. Len(vec) \in Nat /\ c \in Nat
        BY DEF Columns
      <3>3. n < c => Len(vec) < c
        BY <3>2
      <3>4. Entry(<<>>, c) = 0
        BY <3>1 DEF Entry
      <3> QED
        BY <3>3, <3>4, EntryInt
    <2> QED
      BY <2>1
  <1>6. ASSUME NEW S, Picked(l, vec, S), NEW U, \A i \in 1..Len(l) : i \in S => i \in U
        PROVE  Picked(rs, vec, U)
    <2>1. PICK z : z = <<>>
      OBVIOUS
    <2>2. Picked(r, z, {})
      BY <1>3, <2>1, PickedNone
    <2>3. AddUp(vec, z, vec)
      BY <1>5, <2>1 DEF AddUp
    <2>4. Covers(U, l, S, r, {})
      BY <1>6 DEF Covers
    <2>5. Picked(l \o r, vec, U)
      BY <1>3, <1>6, <2>2, <2>3, <2>4, PickedJoined
    <2> QED
      BY <1>1, <2>5
  <1>7. ASSUME NEW T, Picked(r, vec, T), NEW U, \A i \in 1..Len(r) : i \in T => i + Len(l) \in U
        PROVE  Picked(rs, vec, U)
    <2>1. PICK z : z = <<>>
      OBVIOUS
    <2>2. Picked(l, z, {})
      BY <1>3, <2>1, PickedNone
    <2>3. AddUp(z, vec, vec)
      BY <1>5, <2>1 DEF AddUp
    <2>4. Covers(U, l, {}, r, T)
      BY <1>7 DEF Covers
    <2>5. Picked(l \o r, vec, U)
      BY <1>3, <1>7, <2>2, <2>3, <2>4, PickedJoined
    <2> QED
      BY <1>1, <2>5
  <1> HIDE DEF C
  <1>8. ASSUME NEW w, IntsOn(w, 1..Len(rs)), Vanishes(rs, w, n)
        PROVE  \E e \in Int : Scales(rs, w, e, vec, C)
    <2>1. PICK y : y = After(w, Len(l), Len(r))
      OBVIOUS
    <2>2. /\ IntsOn(w, 1..Len(l)) /\ IntsOn(y, 1..Len(r))
          /\ \A c \in Columns : Weigh(rs, w, c) = Weigh(l, w, c) + Weigh(r, y, c)
      <3>1. 1 \in Columns
        BY DEF Columns
      <3> QED
        BY <1>1, <1>3, <1>8, <2>1, <3>1, WeighJoined
    <2>3. Vanishes(r, y, m)
      BY <1>1, <1>3, <1>8, <2>1, RightVanishes
    <2>4. PICK b \in Int : Scales(r, y, b, vec, B)
      BY <2>2, <2>3 DEF Sharing, Sound
    <2>5. Vanishes(l, w, n)
      BY <1>1, <1>3, <1>5, <1>8, <2>1, <2>4, LeftVanishes
    <2>6. PICK a \in Int : Scales(l, w, a, vec, A)
      BY <2>2, <2>5 DEF Sharing, Sound
    <2>7. PICK e \in Int : e = a + b
      OBVIOUS
    <2>8. ASSUME NEW c \in Columns PROVE Congruent(Weigh(rs, w, c), e * Entry(vec, c))
      <3>1. Congruent(Weigh(l, w, c), a * Entry(vec, c)) /\ Congruent(Weigh(r, y, c), b * Entry(vec, c))
        BY <2>4, <2>6 DEF Scales
      <3>2. Congruent(Weigh(l, w, c) + Weigh(r, y, c), a * Entry(vec, c) + b * Entry(vec, c))
        BY <3>1, CongPlus
      <3>3. PICK v \in Int : v = Entry(vec, c)
        BY <1>5
      <3>4. a * v + b * v = e * v
        BY <2>7
      <3> QED
        BY <2>2, <3>2, <3>3, <3>4
    <2>9. ASSUME ~ Congruent(e, 0)
          PROVE  Picked(rs, vec, Chosen(rs, w)) /\ Suffices(rs, Chosen(rs, w), C)
      <3>1. ~ Congruent(a, 0) \/ ~ Congruent(b, 0)
        <4>1. ASSUME Congruent(a, 0), Congruent(b, 0) PROVE FALSE
          <5>1. Congruent(a + b, 0 + 0)
            BY <4>1, CongPlus
          <5> QED
            BY <2>7, <2>9, <5>1
        <4> QED
          BY <4>1
      <3>2. CASE ~ Congruent(a, 0)
        <4>1. Picked(l, vec, Chosen(l, w)) /\ Suffices(l, Chosen(l, w), A)
          BY <2>6, <3>2 DEF Scales
        <4>2. \A i \in 1..Len(l) : i \in Chosen(l, w) => i \in Chosen(rs, w)
          BY <1>1, <1>3, ChosenJoined
        <4>3. Picked(rs, vec, Chosen(rs, w))
          BY <1>6, <4>1, <4>2
        <4>4. Suffices(rs, Chosen(rs, w), A)
          BY <1>1, <1>3, <4>1, SufficesJoined
        <4> QED
          BY <1>4, <4>3, <4>4, SufficesMore
      <3>3. CASE ~ Congruent(b, 0)
        <4>1. Picked(r, vec, Chosen(r, y)) /\ Suffices(r, Chosen(r, y), B)
          BY <2>4, <3>3 DEF Scales
        <4>2. \A i \in 1..Len(r) : i \in Chosen(r, y) => i + Len(l) \in Chosen(rs, w)
          BY <1>1, <1>3, <2>1, ChosenJoined
        <4>3. Picked(rs, vec, Chosen(rs, w))
          BY <1>7, <4>1, <4>2
        <4>4. Suffices(rs, Chosen(rs, w), B)
          BY <1>1, <1>3, <2>1, <4>1, SufficesJoined
        <4> QED
          BY <1>4, <4>3, <4>4, SufficesMore
      <3> QED
        BY <3>1, <3>2, <3>3
    <2> QED
      BY <2>8, <2>9 DEF Scales
  <1>9. ASSUME NEW attrs \in C PROVE Picked(rs, vec, Holding(rs, attrs))
    <2>1. CASE attrs \in A
      <3>1. Picked(l, vec, Holding(l, attrs))
        BY <2>1 DEF Sharing
      <3>2. \A i \in 1..Len(l) : i \in Holding(l, attrs) => i \in Holding(rs, attrs)
        BY <1>1, <1>3, HoldingJoined
      <3> QED
        BY <1>6, <3>1, <3>2
    <2>2. CASE attrs \in B
      <3>1. Picked(r, vec, Holding(r, attrs))
        BY <2>2 DEF Sharing
      <3>2. \A i \in 1..Len(r) : i \in Holding(r, attrs) => i + Len(l) \in Holding(rs, attrs)
        BY <1>1, <1>3, HoldingJoined
      <3> QED
        BY <1>7, <3>1, <3>2
    <2> QED
      BY <1>9, <2>1, <2>2 DEF C
  <1>10. Sound(rs, vec, n, C)
    BY <1>8 DEF Sound
  <1>11. Sharing(rs, k, vec, n, C)
    BY <1>2, <1>9, <1>10 DEF Sharing
  <1> QED
    BY <1>1, <1>11 DEF C

(* The vectors of an AND's sides add up to its own, and are opposite in    *)
(* the new column.                                                         *)
LEMMA SplitVector ==
    ASSUME NEW vec \in Seq(Int), NEW n \in Nat, Len(vec) <= n, NEW o \in Nat, o = n + 1
    PROVE  \A c \in Columns :
              /\ Entry(LeftVec(vec, o), c) \in Int /\ Entry(RightVec(o), c) \in Int
              /\ Entry(LeftVec(vec, o), c) + Entry(RightVec(o), c) = Entry(vec, c)
              /\ o < c => Entry(RightVec(o), c) = 0
              /\ n < c => Entry(vec, c) = 0
              /\ c <= n => Entry(LeftVec(vec, o), c) = Entry(vec, c) /\ Entry(RightVec(o), c) = 0
              /\ c = o => Entry(LeftVec(vec, o), c) = 1 /\ Entry(RightVec(o), c) = -1
  <1>1. PICK lv \in Seq(Int), rv \in Seq(Int) :
          /\ lv = LeftVec(vec, o) /\ rv = RightVec(o) /\ Len(lv) = o /\ Len(rv) = o
          /\ \A c \in 1..o : /\ lv[c] = IF c = o THEN 1 ELSE IF c <= Len(vec) THEN vec[c] ELSE 0
                             /\ rv[c] = IF c = o THEN -1 ELSE 0
    <2>1. /\ LeftVec(vec, o) \in Seq(Int) /\ Len(LeftVec(vec, o)) = o
          /\ RightVec(o) \in Seq(Int) /\ Len(RightVec(o)) = o
          /\ Splits(LeftVec(vec, o), RightVec(o), vec, o)
      BY ResizedFacts
    <2>2. PICK lv \in Seq(Int), rv \in Seq(Int) :
            lv = LeftVec(vec, o) /\ rv = RightVec(o) /\ Len(lv) = o /\ Len(rv) = o
      BY <2>1
    <2>3. ASSUME NEW c \in 1..o
          PROVE  /\ lv[c] = IF c = o THEN 1 ELSE IF c <= Len(vec) THEN vec[c] ELSE 0
                 /\ rv[c] = IF c = o THEN -1 ELSE 0
      BY <2>1, <2>2 DEF Splits
    <2> QED
      BY <2>2, <2>3
  <1>2. PICK k \in Nat : k = Len(vec) /\ k <= n
    OBVIOUS
  <1>3. ASSUME NEW c \in Columns
        PROVE  /\ Entry(lv, c) + Entry(rv, c) = Entry(vec, c)
               /\ o < c => Entry(rv, c) = 0
               /\ n < c => Entry(vec, c) = 0
               /\ c <= n => Entry(lv, c) = Entry(vec, c) /\ Entry(rv, c) = 0
               /\ c = o => Entry(lv, c) = 1 /\ Entry(rv, c) = -1
    <2>1. c \in Nat /\ c > 0
      BY DEF Columns
    <2>2. /\ Entry(lv, c) = IF c <= o THEN lv[c] ELSE 0
          /\ Entry(rv, c) = IF c <= o THEN rv[c] ELSE 0
          /\ Entry(vec, c) = IF c <= k THEN vec[c] ELSE 0
          /\ c <= k => vec[c] \in Int
      BY <1>1, <1>2, <2>1 DEF Entry
    <2>3. c <= o => /\ lv[c] = IF c = o THEN 1 ELSE IF c <= k THEN vec[c] ELSE 0
                    /\ rv[c] = IF c = o THEN -1 ELSE 0
      BY <1>1, <1>2, <2>1
    <2>4. c <= n <=> c < o
      BY <2>1
    <2>5. CASE o < c
      <3>1. ~ (c <= o) /\ ~ (c <= k) /\ ~ (c <= n) /\ c # o
        BY <1>2, <2>1, <2>5
      <3> QED
        BY <2>2, <3>1
    <2>6. CASE c = o
      <3>1. c <= o /\ ~ (c <= k) /\ ~ (c <= n) /\ ~ (o < c)
        BY <1>2, <2>1, <2>6
      <3>2. Entry(lv, c) = 1 /\ Entry(rv, c) = -1 /\ Entry(vec, c) = 0
        BY <2>2, <2>3, <2>6, <3>1
      <3> QED
        BY <3>1, <3>2
    <2>7. CASE c < o
      <3>1. c <= o /\ c # o /\ ~ (o < c) /\ ~ (n < c)
        BY <2>1, <2>7
      <3>2. Entry(rv, c) = 0 /\ Entry(lv, c) = Entry(vec, c)
        BY <2>2, <2>3, <3>1
      <3>3. Entry(vec, c) \in Int
        BY EntryInt
      <3> QED
        BY <3>1, <3>2, <3>3
    <2> QED
      BY <2>1, <2>5, <2>6, <2>7
  <1>4. \A c \in Columns : Entry(lv, c) \in Int /\ Entry(rv, c) \in Int
    BY EntryInt
  <1> QED
    BY <1>1, <1>3, <1>4

(* The sides of an AND share the vector together.                          *)
LEMMA AndShares ==
    ASSUME NEW vec \in Seq(Int), NEW n \in Nat, Len(vec) <= n, NEW o \in Nat, o = n + 1,
           NEW l, NEW m, NEW A, Sharing(l, m, LeftVec(vec, o), o, A),
           NEW r, NEW k, NEW B, Sharing(r, k, RightVec(o), m, B)
    PROVE  Sharing(l \o r, k, vec, n, A \cap B)
  <1> DEFINE C == A \cap B
  <1>1. PICK rs : rs = l \o r
    OBVIOUS
  <1>2. PICK lv \in Seq(Int), rv \in Seq(Int) : lv = LeftVec(vec, o) /\ rv = RightVec(o)
    BY ResizedFacts
  <1>3. /\ l \in Seq(MatrixRow) /\ r \in Seq(MatrixRow) /\ m \in Nat /\ o <= m /\ n <= m /\ n <= o
        /\ \A i \in 1..Len(l) : Len(l[i].vec) <= m
    <2>1. m \in Nat /\ o <= m
      BY DEF Sharing
    <2>2. n <= m /\ n <= o
      BY <2>1
    <2> QED
      BY <2>1, <2>2 DEF Sharing
  <1>4. /\ rs \in Seq(MatrixRow) /\ rs # <<>> /\ k \in Nat /\ n <= k
        /\ \A i \in 1..Len(rs) : Len(rs[i].vec) <= k
    <2>1. /\ rs \in Seq(MatrixRow) /\ rs # <<>> /\ k \in Nat /\ o <= k
          /\ \A i \in 1..Len(rs) : Len(rs[i].vec) <= k
      BY <1>1, ShapeJoined
    <2>2. n <= k
      BY <2>1
    <2> QED
      BY <2>1, <2>2
  <1>5. \A c \in Columns :
              /\ Entry(lv, c) \in Int /\ Entry(rv, c) \in Int
              /\ Entry(lv, c) + Entry(rv, c) = Entry(vec, c)
              /\ o < c => Entry(rv, c) = 0
              /\ n < c => Entry(vec, c) = 0
              /\ c <= n => Entry(lv, c) = Entry(vec, c) /\ Entry(rv, c) = 0
              /\ c = o => Entry(lv, c) = 1 /\ Entry(rv, c) = -1
    BY <1>2, SplitVector
  <1>6. Sharing(l, m, lv, o, A) /\ Sharing(r, k, rv, m, B)
    BY <1>2
  <1>7. ASSUME NEW S, Picked(l, lv, S), NEW T, Picked(r, rv, T),
               NEW U, Covers(U, l, S, r, T)
        PROVE  Picked(rs, vec, U)
    <2>1. AddUp(lv, rv, vec)
      BY <1>5 DEF AddUp
    <2>2. Picked(l \o r, vec, U)
      BY <1>3, <1>7, <2>1, PickedJoined
    <2> QED
      BY <1>1, <2>2
  <1> HIDE DEF C
  <1>8. ASSUME NEW w, IntsOn(w, 1..Len(rs)), Vanishes(rs, w, n)
        PROVE  \E e \in Int : Scales(rs, w, e, vec, C)
    <2>1. PICK y : y = After(w, Len(l), Len(r))
      OBVIOUS
    <2>2. /\ IntsOn(w, 1..Len(l)) /\ IntsOn(y, 1..Len(r))
          /\ \A c \in Columns : Weigh(rs, w, c) = Weigh(l, w, c) + Weigh(r, y, c)
      <3>1. 1 \in Columns
        BY DEF Columns
      <3> QED
        BY <1>1, <1>3, <1>8, <2>1, <3>1, WeighJoined
    <2>3. Vanishes(r, y, m)
      BY <1>1, <1>3, <1>8, <2>1, RightVanishes
    <2>4. PICK b \in Int : Scales(r, y, b, rv, B)
      BY <1>6, <2>2, <2>3 DEF Sharing, Sound
    <2>5. Vanishes(l, w, o)
      <3>1. \A c \in Columns : o < c => Entry(rv, c) = 0
        BY <1>5
      <3> QED
        BY <1>1, <1>3, <1>8, <2>1, <2>4, <3>1, LeftVanishes
    <2>6. PICK a \in Int : Scales(l, w, a, lv, A)
      BY <1>6, <2>2, <2>5 DEF Sharing, Sound
    <2>7. \A c \in Columns : Congruent(Weigh(rs, w, c), a * Entry(lv, c) + b * Entry(rv, c))
      <3>1. ASSUME NEW c \in Columns
            PROVE  Congruent(Weigh(rs, w, c), a * Entry(lv, c) + b * Entry(rv, c))
        <4>1. Congruent(Weigh(l, w, c), a * Entry(lv, c)) /\ Congruent(Weigh(r, y, c), b * Entry(rv, c))
          BY <2>4, <2>6 DEF Scales
        <4> QED
          BY <2>2, <4>1, CongPlus
      <3> QED
        BY <3>1
    <2>8. Congruent(a - b, 0)
      <3>1. o \in Columns /\ n < o
        BY DEF Columns
      <3>2. Congruent(Weigh(rs, w, o), 0)
        BY <1>8, <3>1 DEF Vanishes
      <3>3. a * Entry(lv, o) + b * Entry(rv, o) = a - b
        <4>1. Entry(lv, o) = 1 /\ Entry(rv, o) = -1
          BY <1>5, <3>1
        <4>2. a * 1 + b * (-1) = a - b
          OBVIOUS
        <4> QED
          BY <4>1, <4>2
      <3>4. Congruent(Weigh(rs, w, o), a - b)
        BY <2>7, <3>1, <3>3
      <3> QED
        BY <3>2, <3>4, CongSym, CongTrans
    <2>9. ASSUME NEW c \in Columns PROVE Congruent(Weigh(rs, w, c), a * Entry(vec, c))
      <3>1. c \in Nat
        BY DEF Columns
      <3>2. CASE c <= n
        <4>1. Entry(lv, c) = Entry(vec, c) /\ Entry(rv, c) = 0
          BY <1>5, <3>2
        <4>2. PICK v \in Int : v = Entry(lv, c)
          BY <1>5
        <4>3. a * v + b * 0 = a * v
          OBVIOUS
        <4> QED
          BY <2>7, <4>1, <4>2, <4>3
      <3>3. CASE n < c
        <4>1. Entry(vec, c) = 0 /\ a * 0 = 0
          BY <1>5, <3>3
        <4>2. Congruent(Weigh(rs, w, c), 0)
          BY <1>8, <3>3 DEF Vanishes
        <4> QED
          BY <4>1, <4>2
      <3> QED
        BY <3>1, <3>2, <3>3
    <2>10. ASSUME ~ Congruent(a, 0)
           PROVE  Picked(rs, vec, Chosen(rs, w)) /\ Suffices(rs, Chosen(rs, w), C)
      <3>1. ~ Congruent(b, 0)
        <4>1. ASSUME Congruent(b, 0) PROVE FALSE
          <5>1. Congruent((a - b) + b, 0 + 0)
            BY <2>8, <4>1, CongPlus
          <5>2. (a - b) + b = a
            OBVIOUS
          <5> QED
            BY <2>10, <5>1, <5>2
        <4> QED
          BY <4>1
      <3>2. Picked(l, lv, Chosen(l, w)) /\ Suffices(l, Chosen(l, w), A)
        BY <2>6, <2>10 DEF Scales
      <3>3. Picked(r, rv, Chosen(r, y)) /\ Suffices(r, Chosen(r, y), B)
        BY <2>4, <3>1 DEF Scales
      <3>4. /\ \A i \in 1..Len(l) : i \in Chosen(l, w) => i \in Chosen(rs, w)
            /\ \A i \in 1..Len(r) : i \in Chosen(r, y) => i + Len(l) \in Chosen(rs, w)
        BY <1>1, <1>3, <2>1, ChosenJoined
      <3>8. Covers(Chosen(rs, w), l, Chosen(l, w), r, Chosen(r, y))
        BY <3>4 DEF Covers
      <3>5. Picked(rs, vec, Chosen(rs, w))
        BY <1>7, <3>2, <3>3, <3>8
      <3>6. Suffices(rs, Chosen(rs, w), A) /\ Suffices(rs, Chosen(rs, w), B)
        BY <1>1, <1>3, <2>1, <3>2, <3>3, SufficesJoined
      <3>7. Suffices(rs, Chosen(rs, w), C)
        BY <3>6 DEF Suffices, C
      <3> QED
        BY <3>5, <3>7
    <2> QED
      BY <2>9, <2>10 DEF Scales
  <1>9. ASSUME NEW attrs \in C PROVE Picked(rs, vec, Holding(rs, attrs))
    <2>1. Picked(l, lv, Holding(l, attrs)) /\ Picked(r, rv, Holding(r, attrs))
      BY <1>6 DEF Sharing, C
    <2>2. /\ \A i \in 1..Len(l) : i \in Holding(l, attrs) => i \in Holding(rs, attrs)
          /\ \A i \in 1..Len(r) : i \in Holding(r, attrs) => i + Len(l) \in Holding(rs, attrs)
      BY <1>1, <1>3, HoldingJoined
    <2>3. Covers(Holding(rs, attrs), l, Holding(l, attrs), r, Holding(r, attrs))
      BY <2>2 DEF Covers
    <2> QED
      BY <1>7, <2>1, <2>3
  <1>10. Sound(rs, vec, n, C)
    BY <1>8 DEF Sound
  <1>11. Sharing(rs, k, vec, n, C)
    BY <1>4, <1>9, <1>10 DEF Sharing
  <1> QED
    BY <1>1, <1>11 DEF C

(* Every tree's rows share its vector among those who satisfy it.          *)
LEMMA TreeShares ==
    \A p \in Trees : \A vec \in Seq(Int), n \in Nat : Len(vec) <= n =>
        Sharing(RowsOf(p, vec, n), ColsOf(p, vec, n), vec, n, AccessStructure[p])
  <1> DEFINE Shared(p) == \A vec \in Seq(Int), n \in Nat : Len(vec) <= n =>
                 Sharing(RowsOf(p, vec, n), ColsOf(p, vec, n), vec, n, AccessStructure[p])
             S == {p \in Trees : Shared(p)}
  <1>1. ASSUME NEW p \in Trees, p.op # "leaf" => p.left \in S /\ p.right \in S PROVE p \in S
    <2>1. ASSUME NEW vec \in Seq(Int), NEW n \in Nat, Len(vec) <= n
          PROVE  Sharing(RowsOf(p, vec, n), ColsOf(p, vec, n), vec, n, AccessStructure[p])
      <3>1. CASE p.op = "leaf"
        <4>1. PICK row : row = [vec |-> vec, attr |-> p.attr]
          OBVIOUS
        <4>2. row \in MatrixRow /\ row.vec = vec /\ row.attr = p.attr
          BY <3>1, <4>1 DEF MatrixRow
        <4>3. Sharing(<< row >>, n, vec, n, {attrs \in SUBSET Attributes : row.attr \in attrs})
          BY <2>1, <4>2, LeafShares
        <4>4. RowsOf(p, vec, n) = << row >> /\ ColsOf(p, vec, n) = n
          BY <3>1, <4>1, LeafRows
        <4>5. AccessStructure[p] = {attrs \in SUBSET Attributes : row.attr \in attrs}
          BY <3>1, <4>2, AccessUnfolds
        <4> QED
          BY <4>3, <4>4, <4>5
      <3>2. CASE p.op = "OR"
        <4>1. PICK q \in Trees, t \in Trees : q = p.left /\ t = p.right /\ Shared(q) /\ Shared(t)
          BY <1>1, <3>2
        <4>2. PICK m : m = ColsOf(q, vec, n)
          OBVIOUS
        <4>3. Sharing(RowsOf(q, vec, n), m, vec, n, AccessStructure[q])
          BY <2>1, <4>1, <4>2
        <4>4. m \in Nat /\ Len(vec) <= m
          <5>1. m \in Nat /\ n <= m
            BY <4>3 DEF Sharing
          <5>2. Len(vec) \in Nat
            OBVIOUS
          <5> QED
            BY <2>1, <5>1, <5>2
        <4>5. Sharing(RowsOf(t, vec, m), ColsOf(t, vec, m), vec, m, AccessStructure[t])
          BY <4>1, <4>4
        <4>6. /\ RowsOf(p, vec, n) = RowsOf(q, vec, n) \o RowsOf(t, vec, m)
              /\ ColsOf(p, vec, n) = ColsOf(t, vec, m)
          <5>1. m = ColsOf(p.left, vec, n)
            BY <4>1, <4>2
          <5>2. JoinsOr(p, vec, n, m)
            BY <3>2, <5>1, OrRows
          <5> QED
            BY <4>1, <5>2 DEF JoinsOr
        <4>7. AccessStructure[p] = AccessStructure[q] \cup AccessStructure[t]
          BY <3>2, <4>1, AccessUnfolds
        <4> HIDE DEF Shared
        <4> QED
          BY <2>1, <4>3, <4>5, <4>6, <4>7, OrShares
      <3>3. CASE p.op = "AND"
        <4>1. PICK q \in Trees, t \in Trees : q = p.left /\ t = p.right /\ Shared(q) /\ Shared(t)
          BY <1>1, <3>3
        <4>2. PICK o \in Nat : o = n + 1
          OBVIOUS
        <4>3. PICK lv \in Seq(Int), rv \in Seq(Int) :
                /\ lv = LeftVec(vec, o) /\ rv = RightVec(o) /\ Len(lv) = o /\ Len(rv) = o
          BY ResizedFacts
        <4>4. PICK m : m = ColsOf(q, lv, o)
          OBVIOUS
        <4>5. Sharing(RowsOf(q, lv, o), m, lv, o, AccessStructure[q])
          BY <4>1, <4>3, <4>4
        <4>6. m \in Nat /\ Len(rv) <= m
          BY <4>3, <4>5 DEF Sharing
        <4>7. Sharing(RowsOf(t, rv, m), ColsOf(t, rv, m), rv, m, AccessStructure[t])
          BY <4>1, <4>6
        <4>8. /\ RowsOf(p, vec, n) = RowsOf(q, lv, o) \o RowsOf(t, rv, m)
              /\ ColsOf(p, vec, n) = ColsOf(t, rv, m)
          <5>1. m = ColsOf(p.left, lv, o)
            BY <4>1, <4>4
          <5>2. JoinsAnd(p, vec, n, lv, rv, o, m)
            BY <3>3, <4>2, <4>3, <5>1, AndRows
          <5> QED
            BY <4>1, <5>2 DEF JoinsAnd
        <4>9. AccessStructure[p] = AccessStructure[q] \cap AccessStructure[t]
          BY <3>3, <4>1, AccessUnfolds
        <4> HIDE DEF Shared
        <4>10. PICK l, A : l = RowsOf(q, lv, o) /\ A = AccessStructure[q]
          OBVIOUS
        <4>11. PICK r, k, B : r = RowsOf(t, rv, m) /\ k = ColsOf(t, rv, m) /\ B = AccessStructure[t]
          OBVIOUS
        <4>12. Sharing(l, m, LeftVec(vec, o), o, A) /\ Sharing(r, k, RightVec(o), m, B)
          BY <4>3, <4>5, <4>7, <4>10, <4>11
        <4>13. Sharing(l \o r, k, vec, n, A \cap B)
          BY <2>1, <4>2, <4>12, AndShares
        <4> QED
          BY <4>8, <4>9, <4>10, <4>11, <4>13
      <3> QED
        BY <3>1, <3>2, <3>3, TreeFacts
    <2>2. Shared(p)
      BY <2>1
    <2> HIDE DEF Shared
    <2> QED
      BY <2>2
  <1>2. \A p \in Trees : p \in S
    <2> HIDE DEF S
    <2> QED
      BY <1>1, TreeInduction
  <1> HIDE DEF Shared
  <1>3. \A p \in Trees : Shared(p)
    BY <1>2
  <1> QED
    BY <1>3 DEF Shared

-----------------------------------------------------------------------------
(* The rows selected.                                                      *)

(* s lists the numbers of P in order.                                      *)
Ascends(s, P) ==
    /\ s \in [1..Cardinality(P) -> P]
    /\ \A i, j \in 1..Cardinality(P) : i < j => s[i] < s[j]

(* Finitely many places can be listed in order.                            *)
LEMMA Enumeration == \A n \in Nat : \A P \in SUBSET (1..n) : \E s : Ascends(s, P)
  <1> DEFINE N == {n \in Nat : \A P \in SUBSET (1..n) : \E s : Ascends(s, P)}
  <1>1. 0 \in N
    <2>1. ASSUME NEW P \in SUBSET (1..0) PROVE \E s : Ascends(s, P)
      <3>1. P = {}
        OBVIOUS
      <3>2. Cardinality(P) = 0
        BY <3>1, FS_EmptySet
      <3>3. PICK s : s = [i \in 1..0 |-> 0]
        OBVIOUS
      <3>4. Ascends(s, P)
        BY <3>2, <3>3 DEF Ascends
      <3> QED
        BY <3>4
    <2> QED
      BY <2>1
  <1>2. ASSUME NEW n \in Nat, n \in N PROVE n + 1 \in N
    <2>1. ASSUME NEW P \in SUBSET (1..(n + 1)) PROVE \E s : Ascends(s, P)
      <3>1. CASE n + 1 \notin P
        <4>1. P \in SUBSET (1..n)
          <5>1. ASSUME NEW x \in P PROVE x \in 1..n
            <6>1. x \in 1..(n + 1) /\ x # n + 1
              BY <3>1
            <6> QED
              BY <6>1
          <5> QED
            BY <5>1
        <4> QED
          BY <1>2, <4>1
      <3>2. CASE n + 1 \in P
        <4>1. PICK R : R = P \ {n + 1}
          OBVIOUS
        <4>2. \A x \in R : x \in 1..n
          <5>1. ASSUME NEW x \in R PROVE x \in 1..n
            <6>1. x \in 1..(n + 1) /\ x # n + 1
              BY <4>1
            <6> QED
              BY <6>1
          <5> QED
            BY <5>1
        <4>3. PICK t : Ascends(t, R)
          <5>1. R \in SUBSET (1..n)
            BY <4>2
          <5> QED
            BY <1>2, <5>1
        <4>4. IsFiniteSet(R) /\ IsFiniteSet(1..n)
          <5>1. IsFiniteSet(1..n)
            BY FS_Interval
          <5>2. R \in SUBSET (1..n)
            BY <4>2
          <5> QED
            BY <5>1, <5>2, FS_Subset
        <4>5. PICK k \in Nat : k = Cardinality(R)
          BY <4>4, FS_CardinalityType
        <4>6. P = R \cup {n + 1} /\ n + 1 \notin R
          BY <3>2, <4>1
        <4>7. Cardinality(P) = k + 1
          BY <4>4, <4>5, <4>6, FS_AddElement
        <4> DEFINE s == [i \in 1..(k + 1) |-> IF i <= k THEN t[i] ELSE n + 1]
        <4>8. t \in [1..k -> R] /\ \A i, j \in 1..k : i < j => t[i] < t[j]
          BY <4>3, <4>5 DEF Ascends
        <4>9. ASSUME NEW i \in 1..(k + 1)
              PROVE  s[i] \in P /\ (i <= k => i \in 1..k /\ s[i] = t[i] /\ t[i] \in 1..n)
                                /\ (~ (i <= k) => s[i] = n + 1)
          <5>1. CASE i <= k
            <6>1. i \in 1..k
              BY <5>1
            <6>2. t[i] \in R /\ s[i] = t[i]
              BY <4>8, <5>1, <6>1
            <6> HIDE DEF s
            <6> QED
              BY <4>2, <4>6, <5>1, <6>1, <6>2
          <5>2. CASE ~ (i <= k)
            BY <3>2, <5>2
          <5> QED
            BY <5>1, <5>2
        <4>10. s \in [1..(k + 1) -> P]
          BY <4>9
        <4> HIDE DEF s
        <4>11. ASSUME NEW i \in 1..(k + 1), NEW j \in 1..(k + 1), i < j PROVE s[i] < s[j]
          <5>1. i <= k /\ i \in 1..k
            BY <4>11
          <5>2. CASE j <= k
            BY <4>8, <4>9, <4>11, <5>1, <5>2
          <5>3. CASE ~ (j <= k)
            <6>1. s[i] \in 1..n /\ s[j] = n + 1
              BY <4>9, <5>1, <5>3
            <6> QED
              BY <6>1
          <5> QED
            BY <5>2, <5>3
        <4>12. Ascends(s, P)
          BY <4>7, <4>10, <4>11 DEF Ascends
        <4> QED
          BY <4>12
      <3> QED
        BY <3>1, <3>2
    <2> QED
      BY <2>1
  <1> HIDE DEF N
  <1>3. \A n \in Nat : n \in N
    BY <1>1, <1>2, NatSets
  <1> QED
    BY <1>3 DEF N

(* s lists k of the first n numbers, those of P and each of them once.     *)
Lists(s, k, P, n) ==
    /\ k \in Nat /\ s \in [1..k -> 1..n]
    /\ \A i \in 1..k : s[i] \in P
    /\ \A i, j \in 1..k : s[i] = s[j] => i = j
    /\ \A x \in P : \E i \in 1..k : s[i] = x

(* Places listed in order are listed once each, and all of them.           *)
LEMMA AscendsAll ==
    ASSUME NEW n \in Nat, NEW P \in SUBSET (1..n), NEW s, Ascends(s, P), NEW k, k = Cardinality(P)
    PROVE  Lists(s, k, P, n)
  <1>1. IsFiniteSet(P)
    <2>1. IsFiniteSet(1..n)
      BY FS_Interval
    <2> QED
      BY <2>1, FS_Subset
  <1>2. k \in Nat
    BY <1>1, FS_CardinalityType
  <1>3. s \in [1..k -> P] /\ \A i, j \in 1..k : i < j => s[i] < s[j]
    BY DEF Ascends
  <1>4. \A x \in P : x \in 1..n
    OBVIOUS
  <1>5. ASSUME NEW i \in 1..k, NEW j \in 1..k, s[i] = s[j] PROVE i = j
    <2>1. s[i] \in 1..n /\ s[j] \in 1..n
      BY <1>3, <1>4
    <2>2. PICK x \in Int, y \in Int : x = s[i] /\ y = s[j]
      BY <2>1
    <2>3. ~ (i < j) /\ ~ (j < i)
      BY <1>3, <1>5, <2>2
    <2> QED
      BY <2>3
  <1>6. s \in Injection(1..k, P)
    BY <1>3, <1>5 DEF Injection, IsInjective
  <1>7. Cardinality(1..k) = k
    <2>1. PICK a \in Int : a = 1
      OBVIOUS
    <2>2. Cardinality(a..k) = IF a > k THEN 0 ELSE k - a + 1
      <3>1. k \in Int
        BY <1>2
      <3> QED
        BY <3>1, FS_Interval
    <2> QED
      BY <1>2, <2>1, <2>2
  <1>8. s \in Surjection(1..k, P)
    BY <1>1, <1>6, <1>7, FS_Injection
  <1>9. s \in [1..k -> 1..n]
    BY <1>3, <1>4
  <1> QED
    BY <1>2, <1>3, <1>5, <1>8, <1>9 DEF Surjection, Lists

(* The k rows h are those of rs at the places s, which attrs hold.         *)
Selection(h, rs, s, k, attrs) ==
    /\ h \in Seq(MatrixRow) /\ rs \in Seq(MatrixRow) /\ k \in Nat /\ Len(h) = k
    /\ s \in [1..k -> 1..Len(rs)]
    /\ \A i, j \in 1..k : s[i] = s[j] => i = j
    /\ \A i \in 1..k : h[i].attr = rs[s[i]].attr /\ h[i].attr \in attrs
    /\ \A i \in 1..k : \A c \in Columns : Entry(h[i].vec, c) = Entry(rs[s[i]].vec, c)
    /\ \A x \in Holding(rs, attrs) : \E i \in 1..k : s[i] = x

(* w gives the rows at s the weights ws and the others none.               *)
Spread(w, ws, rs, s, k) ==
    /\ IntsOn(w, 1..Len(rs)) /\ IntsOn(ws, 1..k)
    /\ \A i \in 1..k : w[s[i]] = ws[i]
    /\ \A x \in 1..Len(rs) : (\A i \in 1..k : s[i] # x) => w[x] = 0

(* Rows weigh the same in the matrix and among those selected.             *)
LEMMA WeighSpread ==
    ASSUME NEW h, NEW rs, NEW s, NEW k, NEW attrs, Selection(h, rs, s, k, attrs),
           NEW w, NEW ws, Spread(w, ws, rs, s, k), NEW c \in Columns
    PROVE  Weigh(rs, w, c) = Weigh(h, ws, c)
  <1> DEFINE f == [j \in 1..Len(rs) |-> w[j] * EntriesIn(rs, c)[j]]
             g == [i \in 1..k |-> ws[i] * EntriesIn(h, c)[i]]
  <1>1. /\ rs \in Seq(MatrixRow) /\ Len(rs) \in Nat /\ k \in Nat /\ Len(h) = k
        /\ IntsOn(w, 1..Len(rs)) /\ s \in [1..k -> 1..Len(rs)]
    BY DEF Selection, Spread
  <1>2. PICK S, U : S = 1..Len(rs) /\ U = 1..k
    OBVIOUS
  <1>3. IsFiniteSet(S) /\ IsFiniteSet(U)
    BY <1>1, <1>2, FS_Interval
  <1>4. ASSUME NEW j \in S PROVE f[j] \in Int /\ (w[j] = 0 => f[j] = 0)
    <2>1. PICK x \in Int, y \in Int : x = w[j] /\ y = EntriesIn(rs, c)[j]
      BY <1>1, <1>2, EntriesInt DEF IntsOn
    <2>2. x * y \in Int /\ 0 * y = 0
      OBVIOUS
    <2> QED
      BY <1>2, <2>1, <2>2
  <1>5. ASSUME NEW i \in U PROVE f[s[i]] = g[i]
    <2>1. PICK j \in S : j = s[i]
      BY <1>1, <1>2
    <2>2. w[j] = ws[i]
      BY <1>2, <2>1 DEF Spread
    <2>3. EntriesIn(rs, c)[j] = EntriesIn(h, c)[i]
      <3>1. Entry(h[i].vec, c) = Entry(rs[j].vec, c)
        BY <1>2, <2>1 DEF Selection
      <3>2. EntriesIn(rs, c)[j] = Entry(rs[j].vec, c)
        BY <1>2 DEF EntriesIn
      <3>3. EntriesIn(h, c)[i] = Entry(h[i].vec, c)
        BY <1>1, <1>2 DEF EntriesIn
      <3> QED
        BY <3>1, <3>2, <3>3
    <2>4. f[j] = w[j] * EntriesIn(rs, c)[j]
      BY <1>2
    <2>5. g[i] = ws[i] * EntriesIn(h, c)[i]
      BY <1>2
    <2> HIDE DEF f, g
    <2> QED
      BY <2>1, <2>2, <2>3, <2>4, <2>5
  <1>6. Weigh(rs, w, c) = SumFunctionOnSet(f, S) /\ Weigh(h, ws, c) = SumFunctionOnSet(g, U)
    BY <1>1, <1>2 DEF Weigh, Dot
  <1> HIDE DEF f, g
  <1>7. Along(f, g, s, S, U)
    BY <1>1, <1>2, <1>5 DEF Along, Selection
  <1>8. \A y \in S : (\A x \in U : s[x] # y) => f[y] = 0
    BY <1>2, <1>4 DEF Spread
  <1>9. SumFunctionOnSet(f, S) = SumFunctionOnSet(g, U)
    BY <1>3, <1>4, <1>7, <1>8, SumAlong
  <1> QED
    BY <1>6, <1>9

(* All places of S are selected, from places of T.                         *)
Reaches(s, k, S, T) ==
    /\ \A j \in S : \E i \in 1..k : s[i] = j
    /\ \A i \in 1..k : s[i] \in S => i \in T

(* Rows of the matrix that add up to vec, all of them selected, do so      *)
(* among those selected.                                                   *)
LEMMA PickedSelected ==
    ASSUME NEW h, NEW rs, NEW s, NEW k, NEW attrs, Selection(h, rs, s, k, attrs),
           NEW vec, NEW S, NEW T, Picked(rs, vec, S), Reaches(s, k, S, T)
    PROVE  Picked(h, vec, T)
  <1>1. PICK x : Picks(x, rs, vec, S)
    BY DEF Picked
  <1>2. k \in Nat /\ Len(h) = k /\ s \in [1..k -> 1..Len(rs)]
    BY DEF Selection
  <1>3. x \in [1..Len(rs) -> {0, 1}] /\ \A j \in 1..Len(rs) : x[j] # 0 => j \in S
    BY <1>1 DEF Picks
  <1>4. PICK v : v = [i \in 1..k |-> x[s[i]]]
    OBVIOUS
  <1>5. v \in [1..k -> {0, 1}] /\ \A i \in 1..k : v[i] = x[s[i]]
    BY <1>2, <1>3, <1>4
  <1>6. \A i \in 1..k : v[i] # 0 => i \in T
    BY <1>2, <1>3, <1>5 DEF Reaches
  <1>7. Spread(x, v, rs, s, k)
    <2>1. IntsOn(x, 1..Len(rs)) /\ IntsOn(v, 1..k)
      BY <1>3, <1>5 DEF IntsOn
    <2>2. ASSUME NEW j \in 1..Len(rs), \A i \in 1..k : s[i] # j PROVE x[j] = 0
      BY <1>3, <2>2 DEF Reaches
    <2> QED
      BY <1>5, <2>1, <2>2 DEF Spread
  <1>8. ASSUME NEW c \in Columns PROVE Weigh(h, v, c) = Entry(vec, c)
    <2>1. Weigh(rs, x, c) = Weigh(h, v, c)
      BY <1>7, WeighSpread
    <2>2. Weigh(rs, x, c) = Entry(vec, c)
      BY <1>1 DEF Picks
    <2> QED
      BY <2>1, <2>2
  <1>9. Picks(v, h, vec, T)
    BY <1>2, <1>5, <1>6, <1>8 DEF Picks
  <1> QED
    BY <1>9 DEF Picked

(* Selected rows that weigh the unit vector are of attributes that         *)
(* suffice, and some of them add up to it,                                 *)
LEMMA SelectedSound ==
    ASSUME NEW h, NEW rs, NEW s, NEW k, NEW attrs \in SUBSET Attributes, Selection(h, rs, s, k, attrs),
           NEW m, NEW A, Sharing(rs, m, << 1 >>, 1, A),
           NEW ws, IntsOn(ws, 1..k),
           \A c \in Columns : Congruent(Weigh(h, ws, c), Entry(<< 1 >>, c))
    PROVE  attrs \in A /\ Picked(h, << 1 >>, Chosen(h, ws))
  <1>1. k \in Nat /\ Len(h) = k /\ s \in [1..k -> 1..Len(rs)] /\ \A i, j \in 1..k : s[i] = s[j] => i = j
    BY DEF Selection
  <1> DEFINE at(x) == CHOOSE i \in 1..k : s[i] = x
             hit(x) == \E i \in 1..k : s[i] = x
             w == [x \in 1..Len(rs) |-> IF hit(x) THEN ws[at(x)] ELSE 0]
  <1>2. ASSUME NEW x \in 1..Len(rs), hit(x) PROVE at(x) \in 1..k /\ s[at(x)] = x
    BY <1>2
  <1>3. ASSUME NEW i \in 1..k PROVE hit(s[i]) /\ at(s[i]) = i /\ s[i] \in 1..Len(rs)
    <2>1. hit(s[i]) /\ s[i] \in 1..Len(rs)
      BY <1>1
    <2>2. at(s[i]) \in 1..k /\ s[at(s[i])] = s[i]
      BY <1>2, <2>1
    <2> HIDE DEF at
    <2> QED
      BY <1>1, <2>1, <2>2
  <1> HIDE DEF at
  <1>4. /\ IntsOn(w, 1..Len(rs))
        /\ \A i \in 1..k : w[s[i]] = ws[i]
        /\ \A x \in 1..Len(rs) : ~ hit(x) => w[x] = 0
    <2>1. ASSUME NEW x \in 1..Len(rs) PROVE w[x] \in Int
      BY <1>2 DEF IntsOn
    <2> QED
      BY <1>3, <2>1 DEF IntsOn
  <1> HIDE DEF w
  <1>5. Spread(w, ws, rs, s, k)
    BY <1>4 DEF Spread
  <1>6. \A c \in Columns : Congruent(Weigh(rs, w, c), Entry(<< 1 >>, c))
    BY <1>5, WeighSpread
  <1>7. 1 \in Columns /\ Entry(<< 1 >>, 1) = 1 /\ \A c \in Columns : 1 < c => Entry(<< 1 >>, c) = 0
    <2>1. Len(<< 1 >>) = 1 /\ << 1 >>[1] = 1
      OBVIOUS
    <2>2. \A c \in Columns : 1 < c => ~ (c <= 1)
      BY DEF Columns
    <2>3. 1 \in Columns /\ 1 <= 1
      BY DEF Columns
    <2> QED
      BY <2>1, <2>2, <2>3 DEF Entry
  <1>8. Vanishes(rs, w, 1)
    <2>1. ASSUME NEW c \in Columns, 1 < c PROVE Congruent(Weigh(rs, w, c), 0)
      <3>1. Entry(<< 1 >>, c) = 0
        BY <1>7, <2>1
      <3> QED
        BY <1>6, <3>1
    <2> QED
      BY <2>1 DEF Vanishes
  <1>9. PICK a \in Int : Scales(rs, w, a, << 1 >>, A)
    BY <1>4, <1>8 DEF Sharing, Sound
  <1>10. ~ Congruent(a, 0)
    <2>1. SUFFICES ASSUME Congruent(a, 0) PROVE FALSE
      OBVIOUS
    <2>2. Congruent(Weigh(rs, w, 1), a * Entry(<< 1 >>, 1))
      BY <1>7, <1>9 DEF Scales
    <2>3. Congruent(Weigh(rs, w, 1), a)
      <3>1. a * 1 = a
        OBVIOUS
      <3> QED
        BY <1>7, <2>2, <3>1
    <2>4. Congruent(Weigh(rs, w, 1), 1)
      BY <1>6, <1>7
    <2>5. Congruent(1, 0)
      BY <2>1, <2>3, <2>4, CongSym, CongTrans
    <2>6. 0 \in 0..(Q - 1) /\ 1 \in 0..(Q - 1)
      BY ModulusFacts
    <2> QED
      BY <2>5, <2>6, CongReduced
  <1>11. Picked(rs, << 1 >>, Chosen(rs, w)) /\ Suffices(rs, Chosen(rs, w), A)
    BY <1>9, <1>10 DEF Scales
  <1>12. \A j \in Chosen(rs, w) : hit(j)
    BY <1>4 DEF Chosen
  <1>13. attrs \in A
    <2>1. ASSUME NEW j \in Chosen(rs, w) PROVE rs[j].attr \in attrs
      <3>1. PICK i \in 1..k : s[i] = j
        BY <1>12
      <3> QED
        BY <3>1 DEF Selection
    <2> QED
      BY <1>11, <2>1 DEF Suffices
  <1>14. Reaches(s, k, Chosen(rs, w), Chosen(h, ws))
    BY <1>1, <1>4, <1>12 DEF Chosen, Reaches
  <1>15. Picked(h, << 1 >>, Chosen(h, ws))
    BY <1>11, <1>14, PickedSelected
  <1> QED
    BY <1>13, <1>15

(* and rows selected of attributes that suffice do add up to it.           *)
LEMMA SelectedComplete ==
    ASSUME NEW h, NEW rs, NEW s, NEW k, NEW attrs, Selection(h, rs, s, k, attrs),
           NEW m, NEW A, Sharing(rs, m, << 1 >>, 1, A), attrs \in A
    PROVE  Picked(h, << 1 >>, 1..k)
  <1>1. Picked(rs, << 1 >>, Holding(rs, attrs))
    BY DEF Sharing
  <1>2. Reaches(s, k, Holding(rs, attrs), 1..k)
    BY DEF Selection, Reaches
  <1> QED
    BY <1>1, <1>2, PickedSelected

-----------------------------------------------------------------------------
(* The rows a caller holds.                                                *)

(* The rows of the matrix of p whose attribute is one of attrs.            *)
HeldRows(p, attrs) ==
    LET m == Matrix(p)
        s == Indices(m, attrs)
    IN  [k \in DOMAIN s |-> m[s[k]]]

(* A vector that is made longer keeps its entries.                         *)
LEMMA ResizedEntries ==
    ASSUME NEW vec \in Seq(Int), NEW n \in Nat, Len(vec) <= n
    PROVE  /\ Resized(vec, n) \in [1..n -> Int]
           /\ Resized(vec, n) \in Seq(Int) /\ Len(Resized(vec, n)) = n
           /\ \A c \in Columns : Entry(Resized(vec, n), c) = Entry(vec, c)
  <1>1. \A i \in 1..n : i <= Len(vec) => i \in 1..Len(vec) /\ vec[i] \in Int
    <2>1. ASSUME NEW i \in 1..n, i <= Len(vec) PROVE i \in 1..Len(vec) /\ vec[i] \in Int
      <3>1. i \in 1..Len(vec)
        BY <2>1
      <3> QED
        BY <3>1
    <2> QED
      BY <2>1
  <1>2. PICK r : r = Resized(vec, n)
    OBVIOUS
  <1>3. r \in [1..n -> Int] /\ \A i \in 1..n : r[i] = IF i <= Len(vec) THEN vec[i] ELSE 0
    BY <1>1, <1>2 DEF Resized
  <1>4. r \in Seq(Int) /\ Len(r) = n
    BY <1>3
  <1>5. ASSUME NEW c \in Columns PROVE Entry(r, c) = Entry(vec, c)
    <2>1. CASE c <= n
      <3>1. c \in 1..n
        BY <2>1 DEF Columns
      <3> QED
        BY <1>3, <1>4, <2>1, <3>1 DEF Entry
    <2>2. CASE ~ (c <= n)
      <3>1. Len(r) < c /\ Len(vec) < c
        BY <1>4, <2>2 DEF Columns
      <3> QED
        BY <1>4, <3>1, EntryInt
    <2> QED
      BY <2>1, <2>2
  <1> QED
    BY <1>2, <1>3, <1>4, <1>5

(* The places of the rows that attributes hold, in order.                  *)
LEMMA IndicesAscend ==
    ASSUME NEW m, NEW n \in Nat, DOMAIN m = 1..n, NEW attrs,
           NEW P, P = {i \in 1..n : m[i].attr \in attrs}
    PROVE  Ascends(Indices(m, attrs), P)
  <1>1. P \in SUBSET (1..n)
    OBVIOUS
  <1>2. PICK t : Ascends(t, P)
    BY <1>1, Enumeration
  <1>3. PICK k : k = Cardinality(P)
    OBVIOUS
  <1>4. t \in [1..k -> P] /\ \A i, j \in DOMAIN t : i < j => t[i] < t[j]
    BY <1>2, <1>3 DEF Ascends
  <1>5. PICK s : s = Indices(m, attrs)
    OBVIOUS
  <1>6. s = CHOOSE u \in [1..k -> P] : \A i, j \in DOMAIN u : i < j => u[i] < u[j]
    BY <1>3, <1>5 DEF Indices
  <1>7. s \in [1..k -> P] /\ \A i, j \in DOMAIN s : i < j => s[i] < s[j]
    BY <1>4, <1>6, Zenon
  <1>8. Ascends(s, P)
    BY <1>3, <1>7 DEF Ascends
  <1> QED
    BY <1>5, <1>8

(* The rows held are rows of the matrix, all those of the attributes and   *)
(* of no others.                                                           *)
LEMMA Selects ==
    ASSUME NEW p \in Trees, NEW attrs \in SUBSET Attributes, NEW h, h = HeldRows(p, attrs)
    PROVE  /\ \E s, k : Selection(h, RowsOf(p, << 1 >>, 1), s, k, attrs)
           /\ IsRows(h)
  <1>1. PICK vec \in Seq(Int), n \in Nat : vec = << 1 >> /\ n = 1 /\ Len(vec) = n
    <2>1. << 1 >> \in Seq(Int) /\ Len(<< 1 >>) = 1 /\ 1 \in Nat
      OBVIOUS
    <2> QED
      BY <2>1
  <1>2. PICK rs, w : rs = RowsOf(p, vec, n) /\ w = ColsOf(p, vec, n)
    OBVIOUS
  <1>3. Sharing(rs, w, vec, n, AccessStructure[p])
    <2>1. Len(vec) <= n
      BY <1>1
    <2> QED
      BY <1>2, <2>1, TreeShares
  <1>4. rs \in Seq(MatrixRow) /\ w \in Nat \ {0} /\ \A i \in 1..Len(rs) : Len(rs[i].vec) <= w
    BY <1>1, <1>3 DEF Sharing
  <1>5. PICK z \in Nat : z = Len(rs) /\ DOMAIN rs = 1..z
    BY <1>4
  <1>6. PICK m : m = Matrix(p)
    OBVIOUS
  <1>7. m = [i \in 1..z |-> [vec |-> Resized(rs[i].vec, w), attr |-> rs[i].attr]]
    <2>1. BuildMsp[p][Call(<< 1 >>, 1)].rows = rs /\ BuildMsp[p][Call(<< 1 >>, 1)].cols = w
      BY <1>1, <1>2 DEF RowsOf, ColsOf
    <2> QED
      BY <1>5, <1>6, <2>1 DEF Matrix
  <1>8. DOMAIN m = 1..z /\ \A i \in 1..z : m[i].vec = Resized(rs[i].vec, w) /\ m[i].attr = rs[i].attr
    BY <1>7
  <1>9. PICK P : P = {i \in 1..z : m[i].attr \in attrs}
    OBVIOUS
  <1>10. PICK s : s = Indices(m, attrs)
    OBVIOUS
  <1>11. PICK k : k = Cardinality(P)
    OBVIOUS
  <1>12. /\ k \in Nat /\ s \in [1..k -> 1..z]
         /\ \A i \in 1..k : s[i] \in P
         /\ \A i, j \in 1..k : s[i] = s[j] => i = j
         /\ \A x \in P : \E i \in 1..k : s[i] = x
    <2>1. Ascends(s, P)
      BY <1>8, <1>9, <1>10, IndicesAscend
    <2>2. PICK R \in SUBSET (1..z) : R = P
      BY <1>9
    <2>3. Ascends(s, R) /\ k = Cardinality(R)
      BY <1>11, <2>1, <2>2
    <2>4. Lists(s, k, R, z)
      BY <2>3, AscendsAll
    <2> QED
      BY <2>2, <2>4 DEF Lists
  <1>13. h = [i \in 1..k |-> m[s[i]]]
    <2>1. h = [i \in DOMAIN s |-> m[s[i]]]
      BY <1>6, <1>10 DEF HeldRows
    <2>2. DOMAIN s = 1..k
      BY <1>12
    <2> QED
      BY <2>1, <2>2
  <1>14. PICK Wide : Wide = [vec : [1..w -> Int], attr : Attributes]
    OBVIOUS
  <1>15. ASSUME NEW i \in 1..k
         PROVE  /\ h[i].attr = rs[s[i]].attr /\ h[i].attr \in attrs
                /\ \A c \in Columns : Entry(h[i].vec, c) = Entry(rs[s[i]].vec, c)
                /\ h[i] \in MatrixRow /\ h[i] \in Wide
                /\ h[i].vec \in [1..w -> Int] /\ Len(h[i].vec) = w
    <2>1. PICK x \in 1..z : x = s[i]
      BY <1>12
    <2>2. x \in P
      BY <1>12, <2>1
    <2>3. rs[x] \in MatrixRow
      BY <1>4, <1>5
    <2>4. rs[x].vec \in Seq(Int) /\ rs[x].attr \in {t.attr : t \in {u \in Trees : u.op = "leaf"}}
      BY <2>3 DEF MatrixRow
    <2>5. PICK v \in Seq(Int), a \in {t.attr : t \in {u \in Trees : u.op = "leaf"}} :
              v = rs[x].vec /\ a = rs[x].attr
      BY <2>4
    <2>6. PICK r : r = Resized(v, w)
      OBVIOUS
    <2>7. h[i] = [vec |-> r, attr |-> a]
      BY <1>7, <1>13, <2>1, <2>5, <2>6
    <2>8. /\ r \in [1..w -> Int] /\ r \in Seq(Int) /\ Len(r) = w
          /\ \A c \in Columns : Entry(r, c) = Entry(v, c)
      <3>1. Len(v) <= w
        BY <1>4, <1>5, <2>5
      <3> QED
        BY <1>4, <2>6, <3>1, ResizedEntries
    <2>9. a \in attrs
      BY <1>8, <1>9, <2>2, <2>5
    <2>10. h[i] \in MatrixRow
      BY <2>7, <2>8 DEF MatrixRow
    <2>11. h[i] \in Wide
      BY <1>14, <2>7, <2>8, <2>9
    <2> QED
      BY <2>1, <2>5, <2>7, <2>8, <2>9, <2>10, <2>11
  <1>16. h \in Seq(MatrixRow) /\ h \in Seq(Wide) /\ Len(h) = k /\ DOMAIN h = 1..k
    <2>1. DOMAIN h = 1..k /\ h = [i \in 1..k |-> h[i]]
      BY <1>13
    <2>2. h \in [1..k -> MatrixRow] /\ h \in [1..k -> Wide]
      BY <1>15, <2>1
    <2>3. h \in Seq(MatrixRow) /\ Len(h) = k
      BY <1>12, <2>2
    <2>4. h \in Seq(Wide)
      BY <1>12, <2>2
    <2> QED
      BY <2>1, <2>3, <2>4
  <1>17. IsRows(h)
    <2>1. CASE h = <<>>
      BY <2>1 DEF IsRows
    <2>2. CASE h # <<>>
      <3>1. 1 \in 1..k
        BY <1>12, <1>16, <2>2
      <3>2. Len(h[1].vec) = w
        BY <1>15, <3>1
      <3> QED
        BY <1>4, <1>14, <1>16, <3>2 DEF IsRows
    <2> QED
      BY <2>1, <2>2
  <1>18. P = Holding(rs, attrs)
    BY <1>5, <1>8, <1>9 DEF Holding
  <1>19. Selection(h, rs, s, k, attrs)
    BY <1>4, <1>5, <1>12, <1>15, <1>16, <1>18 DEF Selection
  <1> QED
    BY <1>1, <1>2, <1>17, <1>19

(* The entries of the vector that is shared when its secret is 1.          *)
LEMMA UnitEntries ==
    \A c \in Columns : Entry(<< 1 >>, c) = IF c = 1 THEN 1 ELSE 0
  <1>1. Len(<< 1 >>) = 1 /\ << 1 >>[1] = 1
    OBVIOUS
  <1>2. \A c \in Columns : c <= 1 <=> c = 1
    BY DEF Columns
  <1> QED
    BY <1>1, <1>2 DEF Entry

(* The equation of a column is what the weighed rows have there.           *)
LEMMA ColumnHolds ==
    ASSUME NEW h, IsRows(h), h # <<>>, h \in Seq(MatrixRow), NEW n, n = Len(h),
           NEW m, m = Len(h[1].vec), NEW ws \in Vectors(n), NEW c \in 1..m
    PROVE  Holds(System(h)[c], ws, n) <=> Congruent(Weigh(h, ws, c), Entry(<< 1 >>, c))
  <1>1. /\ n \in Nat /\ m \in Nat /\ DOMAIN h = 1..n
        /\ \A j \in 1..n : DOMAIN h[j].vec = 1..m /\ \A d \in 1..m : h[j].vec[d] \in Int
        /\ System(h) \in Systems(m, n)
    BY RowsFacts
  <1>2. c \in Columns
    BY <1>1 DEF Columns
  <1>3. PICK S : S = 1..n
    OBVIOUS
  <1>4. IsFiniteSet(S) /\ IntsOn(ws, S)
    BY <1>1, <1>3, PlacesFinite DEF IntsOn, Vectors
  <1>5. PICK e : e = System(h)[c]
    OBVIOUS
  <1>6. e = [j \in 1..(n + 1) |-> IF j <= n THEN h[j].vec[c] % Q ELSE IF c = 1 THEN 1 ELSE 0]
    BY <1>5 DEF System
  <1>7. e[n + 1] = Entry(<< 1 >>, c)
    <2>1. e[n + 1] = IF c = 1 THEN 1 ELSE 0
      BY <1>1, <1>6
    <2> QED
      BY <1>2, <2>1, UnitEntries
  <1>8. PICK g : g = EntriesIn(h, c)
    OBVIOUS
  <1>9. ASSUME NEW j \in S PROVE Congruent(g[j], e[j])
    <2>1. g[j] = Entry(h[j].vec, c)
      BY <1>3, <1>8 DEF EntriesIn
    <2>2. h[j].vec \in Seq(Int) /\ DOMAIN h[j].vec = 1..m
      <3>1. h[j] \in MatrixRow
        BY <1>1, <1>3
      <3> QED
        BY <1>1, <1>3, <3>1 DEF MatrixRow
    <2>3. Len(h[j].vec) = m
      BY <1>1, <2>2
    <2>4. PICK x \in Int : x = h[j].vec[c]
      BY <1>1, <1>3
    <2>5. g[j] = x
      BY <1>1, <2>1, <2>3, <2>4 DEF Entry
    <2>6. e[j] = x % Q
      BY <1>1, <1>3, <1>6, <2>4
    <2>7. Congruent(x % Q, x)
      BY Residue
    <2> QED
      BY <2>5, <2>6, <2>7, CongSym
  <1>10. IntsOn(e, S) /\ Dot(ws, e, S) = Dot(e, ws, S)
    <2>1. IntsOn(e, S)
      BY <1>9 DEF IntsOn, Congruent
    <2> QED
      BY <1>4, <2>1, DotInt
  <1>11. Congruent(Dot(ws, g, S), Dot(e, ws, S))
    BY <1>4, <1>9, <1>10, DotCong
  <1>12. PICK a : a = Dot(e, ws, S)
    OBVIOUS
  <1>13. PICK b : b = Weigh(h, ws, c)
    OBVIOUS
  <1>14. Congruent(b, a) /\ Congruent(a, b)
    BY <1>3, <1>8, <1>11, <1>12, <1>13, CongSym DEF Weigh
  <1>15. Holds(e, ws, n) <=> Congruent(a, Entry(<< 1 >>, c))
    BY <1>3, <1>7, <1>12 DEF Holds
  <1>16. Congruent(a, Entry(<< 1 >>, c)) <=> Congruent(b, Entry(<< 1 >>, c))
    BY <1>14, CongTrans
  <1> QED
    BY <1>5, <1>13, <1>15, <1>16

(* Constants solve the system of rows when they weigh these to the unit    *)
(* vector.                                                                 *)
LEMMA SolvesWeighs ==
    ASSUME NEW h, IsRows(h), h # <<>>, h \in Seq(MatrixRow), NEW n, n = Len(h),
           NEW m, m = Len(h[1].vec), NEW ws \in Vectors(n)
    PROVE  AllHold(System(h), ws, m, n)
             <=> \A c \in Columns : Congruent(Weigh(h, ws, c), Entry(<< 1 >>, c))
  <1>1. /\ n \in Nat /\ m \in Nat \ {0} /\ DOMAIN h = 1..n
        /\ \A j \in 1..n : DOMAIN h[j].vec = 1..m
    BY RowsFacts
  <1>2. \A c \in 1..m : c \in Columns
    BY <1>1 DEF Columns
  <1>3. ASSUME NEW c \in Columns, c \notin 1..m
        PROVE  Congruent(Weigh(h, ws, c), Entry(<< 1 >>, c))
    <2>1. m < c /\ c # 1
      BY <1>1, <1>3 DEF Columns
    <2>2. ASSUME NEW j \in 1..Len(h) PROVE Len(h[j].vec) <= m
      <3>1. h[j] \in MatrixRow /\ DOMAIN h[j].vec = 1..m
        BY <1>1
      <3>2. h[j].vec \in Seq(Int)
        BY <3>1 DEF MatrixRow
      <3>3. Len(h[j].vec) = m
        BY <1>1, <3>1, <3>2
      <3> QED
        BY <1>1, <3>3
    <2>3. IntsOn(ws, 1..Len(h))
      BY DEF Vectors, IntsOn
    <2>4. Weigh(h, ws, c) = 0
      BY <1>1, <2>1, <2>2, <2>3, RowsEnd
    <2>5. Entry(<< 1 >>, c) = 0
      BY <2>1, UnitEntries
    <2> QED
      BY <2>4, <2>5, CongSame
  <1>4. \A c \in 1..m : Holds(System(h)[c], ws, n) <=> Congruent(Weigh(h, ws, c), Entry(<< 1 >>, c))
    BY ColumnHolds
  <1> QED
    BY <1>2, <1>3, <1>4 DEF AllHold

-----------------------------------------------------------------------------
(* Trees and constants.                                                    *)

(* The rows are those of a tree that the caller holds.                     *)
RowsHeld ==
    /\ access \in Trees /\ held \in SUBSET Attributes
    /\ rows = HeldRows(access, held)

(* They are a selection of rows that share with those the tree lets in.    *)
LEMMA HeldSelection ==
    ASSUME RowsHeld
    PROVE  \E rs, m, s, k : /\ Selection(rows, rs, s, k, held)
                            /\ Sharing(rs, m, << 1 >>, 1, AccessStructure[access])
  <1>1. PICK h : h = rows
    OBVIOUS
  <1>2. PICK p \in Trees, attrs \in SUBSET Attributes : p = access /\ attrs = held
    BY DEF RowsHeld
  <1>3. h = HeldRows(p, attrs)
    BY <1>1, <1>2 DEF RowsHeld
  <1>4. PICK s, k : Selection(h, RowsOf(p, << 1 >>, 1), s, k, attrs)
    BY <1>3, Selects
  <1>5. PICK vec \in Seq(Int), n \in Nat : vec = << 1 >> /\ n = 1 /\ Len(vec) <= n
    <2>1. << 1 >> \in Seq(Int) /\ Len(<< 1 >>) <= 1 /\ 1 \in Nat
      OBVIOUS
    <2> QED
      BY <2>1
  <1>6. Sharing(RowsOf(p, vec, n), ColsOf(p, vec, n), vec, n, AccessStructure[p])
    BY <1>5, TreeShares
  <1> QED
    BY <1>1, <1>2, <1>4, <1>5, <1>6

(* Constants solve the system of the rows held when they weigh these to    *)
(* the unit vector.                                                        *)
LEMMA HeldWeighs ==
    ASSUME RowsHeld, Ended, NEW ws \in Vectors(NRows)
    PROVE  Solves(System(rows), ws) <=> \A c \in Columns : Congruent(Weigh(rows, ws, c), Entry(<< 1 >>, c))
  <1>1. PICK h : h = rows
    OBVIOUS
  <1>2. IsRows(h) /\ h # <<>>
    BY <1>1 DEF Ended, IInv, Shape
  <1>3. h \in Seq(MatrixRow)
    BY <1>1, HeldSelection DEF Selection
  <1>4. /\ NRows \in Nat /\ NCols = Width /\ NCols \in Nat
        /\ System(rows) \in Systems(NCols, NRows)
    BY <1>1, <1>2, ShapeFacts DEF Ended, IInv
  <1>5. PICK n \in Nat : n = NRows
    BY <1>4
  <1>6. PICK m \in Nat : m = NCols
    BY <1>4
  <1>7. n = Len(h) /\ m = Len(h[1].vec) /\ ws \in Vectors(n)
    BY <1>1, <1>4, <1>5, <1>6 DEF NRows, Width
  <1>8. AllHold(System(h), ws, m, n) <=> \A c \in Columns : Congruent(Weigh(h, ws, c), Entry(<< 1 >>, c))
    BY <1>2, <1>3, <1>7, SolvesWeighs
  <1>9. Solves(System(rows), ws) <=> AllHold(System(rows), ws, m, NRows)
    <2>1. System(rows) \in Systems(m, NRows) /\ ws \in Vectors(NRows)
      BY <1>4, <1>6
    <2> QED
      BY <1>4, <2>1, SolvesHold
  <1> QED
    BY <1>1, <1>5, <1>8, <1>9

(* Rows picked to add up to the unit vector solve the system.              *)
LEMMA PicksSolve ==
    ASSUME RowsHeld, Ended, NEW S, NEW ws, Picks(ws, rows, << 1 >>, S)
    PROVE  ws \in Vectors(NRows) /\ Solves(System(rows), ws)
  <1>1. ws \in Vectors(NRows)
    <2>1. ws \in [1..NRows -> {0, 1}]
      BY DEF Picks, NRows
    <2> QED
      BY <2>1 DEF Vectors
  <1>2. ASSUME NEW c \in Columns PROVE Congruent(Weigh(rows, ws, c), Entry(<< 1 >>, c))
    <2>1. Weigh(rows, ws, c) = Entry(<< 1 >>, c)
      BY DEF Picks
    <2>2. Entry(<< 1 >>, c) \in Int
      BY UnitEntries
    <2> QED
      BY <2>1, <2>2, CongSame
  <1> QED
    BY <1>1, <1>2, HeldWeighs

(* A system that is not inconsistent is of attributes that satisfy the     *)
(* tree,                                                                   *)
LEMMA EndSatisfied ==
    ASSUME RowsHeld, Ended, ~ Inconsistent
    PROVE  held \in AccessStructure[access]
  <1>1. PICK ws \in Vectors(NRows) : Solves(System(rows), ws)
    BY EndSolvable
  <1>2. \A c \in Columns : Congruent(Weigh(rows, ws, c), Entry(<< 1 >>, c))
    BY <1>1, HeldWeighs
  <1>3. PICK rs, m, s, k : /\ Selection(rows, rs, s, k, held)
                           /\ Sharing(rs, m, << 1 >>, 1, AccessStructure[access])
    BY HeldSelection
  <1>4. IntsOn(ws, 1..k)
    <2>1. k = NRows
      BY <1>3 DEF Selection, NRows
    <2> QED
      BY <2>1 DEF IntsOn, Vectors
  <1>5. held \in SUBSET Attributes
    BY DEF RowsHeld
  <1> QED
    BY <1>2, <1>3, <1>4, <1>5, SelectedSound

(* and an inconsistent one is of attributes that do not.                   *)
LEMMA EndUnsatisfied ==
    ASSUME RowsHeld, Ended, Inconsistent
    PROVE  held \notin AccessStructure[access]
  <1> SUFFICES ASSUME held \in AccessStructure[access] PROVE FALSE
    OBVIOUS
  <1>1. PICK rs, m, s, k : /\ Selection(rows, rs, s, k, held)
                           /\ Sharing(rs, m, << 1 >>, 1, AccessStructure[access])
    BY HeldSelection
  <1>2. Picked(rows, << 1 >>, 1..k)
    BY <1>1, SelectedComplete
  <1>3. PICK ws : Picks(ws, rows, << 1 >>, 1..k)
    BY <1>2 DEF Picked
  <1>4. ws \in Vectors(NRows) /\ Solves(System(rows), ws)
    BY <1>3, PicksSolve
  <1>5. Unsolvable
    BY EndUnsolvable DEF Ended
  <1> QED
    BY <1>4, <1>5 DEF Unsolvable, Ended

(* A solution that is zero beyond k leading pivots is what the equations   *)
(* have on their right sides.                                              *)
LEMMA LeadingUnique ==
    ASSUME NEW m \in Nat, NEW n \in Nat, NEW s \in Systems(m, n), NEW k \in Nat, k <= m, k <= n,
           \A c \in 1..k : \A r \in 1..m : s[r][c] = IF r = c THEN 1 ELSE 0,
           NEW vs \in Vectors(n), \A j \in 1..n : k < j => vs[j] = 0,
           AllHold(s, vs, m, n), NEW i \in 1..k
    PROVE  Congruent(vs[i], s[i][n + 1])
  <1> DEFINE f == [j \in 1..n |-> s[i][j] * vs[j]]
  <1>1. i \in 1..m /\ i \in 1..n
    OBVIOUS
  <1>2. PICK v \in Int : v = vs[i]
    BY <1>1 DEF Vectors
  <1>3. f[i] = v
    <2>1. s[i][i] = 1
      BY <1>1
    <2>2. 1 * v = v
      OBVIOUS
    <2> QED
      BY <1>1, <1>2, <2>1, <2>2
  <1>4. ASSUME NEW j \in 1..n, j # i PROVE f[j] = 0
    <2>1. vs[j] \in Int
      BY DEF Vectors
    <2>2. CASE j <= k
      <3>1. s[i][j] = 0
        BY <1>1, <1>4, <2>2
      <3> QED
        BY <2>1, <3>1
    <2>3. CASE ~ (j <= k)
      <3>1. vs[j] = 0
        BY <2>3
      <3>2. j \in 1..(n + 1)
        OBVIOUS
      <3>3. s[i][j] \in Int
        BY <1>1, <3>2, ResidueFacts DEF Systems, Equations
      <3> QED
        BY <3>1, <3>3
    <2> QED
      BY <2>2, <2>3
  <1>5. Dot(s[i], vs, 1..n) = SumFunctionOnSet(f, 1..n)
    BY DEF Dot
  <1> HIDE DEF f
  <1>6. PICK S : S = 1..n
    OBVIOUS
  <1>7. PICK y : y = i
    OBVIOUS
  <1>8. y \in S /\ f[y] \in Int /\ (\A j \in S : j # y => f[j] = 0) /\ IsFiniteSet(S)
    BY <1>1, <1>2, <1>3, <1>4, <1>6, <1>7, PlacesFinite
  <1>9. SumFunctionOnSet(f, S) = f[y]
    BY <1>8, SumSingle
  <1>10. Holds(s[i], vs, n)
    BY <1>1 DEF AllHold
  <1> QED
    BY <1>2, <1>3, <1>5, <1>6, <1>7, <1>9, <1>10 DEF Holds

(* The weighed first column is what get_reconstruction_constants sums.     *)
LEMMA FirstColumn ==
    ASSUME RowsHeld, Ended, NEW ws, ws \in Vectors(NRows), DOMAIN ws = 1..NRows,
           Solves(System(rows), ws)
    PROVE  FirstColumnSum(ws) = 1
  <1>1. PICK h : h = rows
    OBVIOUS
  <1>2. h \in Seq(MatrixRow)
    BY <1>1, HeldSelection DEF Selection
  <1>3. PICK n \in Nat : n = Len(h) /\ n = NRows /\ DOMAIN h = 1..n
    BY <1>1, <1>2 DEF NRows
  <1>4. 1 \in Columns
    BY DEF Columns
  <1>5. Congruent(Weigh(h, ws, 1), 1)
    <2>1. Congruent(Weigh(h, ws, 1), Entry(<< 1 >>, 1))
      BY <1>1, <1>4, HeldWeighs
    <2> QED
      BY <1>4, <2>1, UnitEntries
  <1>6. PICK g : g = [i \in 1..n |-> h[i].vec[1]]
    OBVIOUS
  <1>7. \A i \in 1..n : EntriesIn(h, 1)[i] = g[i]
    <2>1. ASSUME NEW i \in 1..n PROVE EntriesIn(h, 1)[i] = g[i]
      <3>1. IsRows(h) /\ h # <<>>
        BY <1>1 DEF Ended, IInv, Shape
      <3>2. PICK w \in Nat \ {0} : w = Len(h[1].vec)
        BY <3>1, RowsFacts
      <3>3. DOMAIN h[i].vec = 1..w
        BY <1>3, <3>1, <3>2, RowsFacts
      <3>4. h[i].vec \in Seq(Int)
        <4>1. h[i] \in MatrixRow
          BY <1>2, <1>3
        <4> QED
          BY <4>1 DEF MatrixRow
      <3>5. Len(h[i].vec) = w /\ 1 <= w
        BY <3>2, <3>3, <3>4
      <3>6. EntriesIn(h, 1)[i] = Entry(h[i].vec, 1)
        BY <1>3 DEF EntriesIn
      <3> QED
        BY <1>6, <3>5, <3>6 DEF Entry
    <2> QED
      BY <2>1
  <1>8. PICK S : S = 1..n
    OBVIOUS
  <1>9. IsFiniteSet(S) /\ IntsOn(ws, S) /\ IntsOn(EntriesIn(h, 1), S)
    BY <1>2, <1>3, <1>4, <1>8, PlacesFinite, EntriesInt DEF IntsOn, Vectors
  <1>10. IntsOn(g, S) /\ \A i \in S : Congruent(EntriesIn(h, 1)[i], g[i])
    BY <1>7, <1>8, <1>9, CongSame DEF IntsOn
  <1>11. Congruent(Dot(ws, EntriesIn(h, 1), S), Dot(ws, g, S))
    BY <1>9, <1>10, DotCong
  <1>12. Dot(g, ws, S) = Dot(ws, g, S) /\ Dot(g, ws, S) \in Int
    BY <1>9, <1>10, DotInt
  <1>13. Product(g, ws) = Dot(g, ws, S)
    <2>1. DOMAIN ws = S
      BY <1>3, <1>8
    <2> QED
      BY <2>1, Zenon DEF Product, Dot
  <1>14. PICK a \in Int : a = Product(g, ws)
    BY <1>12, <1>13
  <1>15. Congruent(a, 1)
    <2>1. Congruent(Weigh(h, ws, 1), a)
      BY <1>3, <1>8, <1>11, <1>12, <1>13, <1>14 DEF Weigh
    <2> QED
      BY <1>5, <2>1, CongSym, CongTrans
  <1>16. PICK c \in 0..(Q - 1) : c = a % Q /\ Congruent(c, a)
    BY Residue
  <1>17. c = 1
    <2>1. Congruent(c, 1)
      BY <1>15, <1>16, CongTrans
    <2>2. 1 \in 0..(Q - 1)
      BY ModulusFacts
    <2> QED
      BY <2>1, <2>2, CongReduced
  <1>18. FirstColumnSum(ws) = Product(g, ws) % Q
    BY <1>1, <1>3, <1>6 DEF FirstColumnSum
  <1> QED
    BY <1>14, <1>16, <1>17, <1>18

(* Constants of satisfying attributes, read off leading pivots, are 0 or 1.*)
LEMMA LeadingConstants ==
    ASSUME RowsHeld, Ended, ~ Inconsistent, \A i \in DOMAIN pivots : pivots[i] = i,
           NEW i \in 1..NRows
    PROVE  ReadConstants[i] \in {0, 1}
  <1>1. /\ NRows \in Nat /\ NCols \in Nat
        /\ Reduced(augmented, pivots, Len(pivots), NCols, NRows)
    BY EndReduced
  <1>2. PICK n \in Nat : n = NRows
    BY <1>1
  <1>3. PICK m \in Nat : m = NCols
    BY <1>1
  <1>4. PICK k \in Nat : k = Len(pivots)
    BY <1>1 DEF Reduced
  <1>5. PICK a : a = augmented
    OBVIOUS
  <1>6. PICK ws : ws = ReadConstants
    OBVIOUS
  <1>7. /\ a \in Systems(m, n) /\ k <= m
        /\ \A c \in 1..k : c \in 1..n
        /\ \A c \in 1..k : \A r \in 1..m : a[r][c] = IF r = c THEN 1 ELSE 0
    <2>1. Reduced(a, pivots, k, m, n)
      BY <1>1, <1>2, <1>3, <1>4, <1>5
    <2>2. \A c \in 1..k : pivots[c] = c
      <3>1. DOMAIN pivots = 1..k
        BY <1>4 DEF Ended, IInv, Shape
      <3> QED
        BY <3>1
    <2> QED
      BY <2>1, <2>2 DEF Reduced
  <1>8. k <= n
    <2>1. CASE k = 0
      BY <2>1
    <2>2. CASE k # 0
      BY <1>7, <2>2
    <2> QED
      BY <2>1, <2>2
  <1>9. \A j \in 1..n : ws[j] = IF j <= k THEN Centered(a[j][n + 1]) ELSE 0
    BY <1>2, <1>4, <1>5, <1>6 DEF ReadConstants
  <1>10. ws \in Vectors(n) /\ Solves(System(rows), ws)
    BY <1>2, <1>6, ReadSolves
  <1>11. PICK rs, w, s, z : /\ Selection(rows, rs, s, z, held)
                            /\ Sharing(rs, w, << 1 >>, 1, AccessStructure[access])
    BY HeldSelection
  <1>12. Picked(rows, << 1 >>, Chosen(rows, ws))
    <2>1. \A c \in Columns : Congruent(Weigh(rows, ws, c), Entry(<< 1 >>, c))
      <3>1. ws \in Vectors(NRows)
        BY <1>2, <1>10
      <3> QED
        BY <1>10, <3>1, HeldWeighs
    <2>2. IntsOn(ws, 1..z)
      <3>1. z = n
        BY <1>2, <1>11 DEF Selection, NRows
      <3> QED
        BY <1>10, <3>1 DEF IntsOn, Vectors
    <2>3. held \in SUBSET Attributes
      BY DEF RowsHeld
    <2> QED
      BY <1>11, <2>1, <2>2, <2>3, SelectedSound
  <1>13. PICK vs : Picks(vs, rows, << 1 >>, Chosen(rows, ws))
    BY <1>12 DEF Picked
  <1>14. vs \in Vectors(n) /\ Solves(System(rows), vs)
    BY <1>2, <1>13, PicksSolve
  <1>15. vs \in [1..n -> {0, 1}] /\ \A j \in 1..n : vs[j] # 0 => ws[j] # 0
    BY <1>2, <1>13 DEF Picks, Chosen, NRows
  <1>16. \A j \in 1..n : k < j => vs[j] = 0
    <2>1. ASSUME NEW j \in 1..n, k < j PROVE vs[j] = 0
      <3>1. ws[j] = 0
        BY <1>9, <2>1
      <3> QED
        BY <1>15, <3>1
    <2> QED
      BY <2>1
  <1>17. AllHold(a, vs, m, n)
    <2>1. vs \in Vectors(NRows) /\ a \in Systems(m, NRows)
      BY <1>2, <1>7, <1>14
    <2>2. Solves(a, vs)
      BY <1>5, <1>14, <2>1 DEF Ended, IInv, Kept
    <2> QED
      BY <1>2, <2>1, <2>2, SolvesHold
  <1>18. CASE i <= k
    <2>1. PICK j \in 1..k : j = i
      BY <1>18
    <2>2. j \in 1..n /\ j \in 1..m /\ n + 1 \in 1..(n + 1)
      BY <1>7
    <2>3. Congruent(vs[j], a[j][n + 1])
      BY <1>7, <1>8, <1>14, <1>16, <1>17, LeadingUnique
    <2>4. PICK v \in {0, 1} : v = vs[j]
      BY <1>15, <2>2
    <2>5. PICK t \in Residues : t = a[j][n + 1]
      BY <1>7, <2>2 DEF Systems, Equations
    <2>6. t = v
      <3>1. v \in Residues
        BY ResidueFacts
      <3>2. Congruent(v, t)
        BY <2>3, <2>4, <2>5
      <3> QED
        BY <3>1, <3>2, CongReduced DEF Residues
    <2>7. Centered(v) = v
      <3>1. PICK h \in Int : h = Q \div 2 /\ 1 <= h
        BY ModulusFacts
      <3>2. v <= h
        BY <3>1
      <3> QED
        BY <3>1, <3>2 DEF Centered
    <2>8. ws[j] = v
      <3>1. j <= k
        BY <1>7
      <3>2. ws[j] = Centered(a[j][n + 1])
        BY <1>9, <2>2, <3>1
      <3> QED
        BY <2>5, <2>6, <2>7, <3>2
    <2> QED
      BY <1>6, <2>1, <2>8
  <1>19. CASE ~ (i <= k)
    <2>1. ws[i] = 0
      BY <1>2, <1>9, <1>19
    <2> QED
      BY <1>6, <2>1
  <1> QED
    BY <1>18, <1>19

(* Satisfying attributes with leading pivots pass every check of Return.   *)
LEMMA LeadingPasses ==
    ASSUME RowsHeld, Ended, \A i \in DOMAIN pivots : pivots[i] = i,
           held \in AccessStructure[access]
    PROVE  /\ ~ Inconsistent
           /\ FirstColumnSum(ReadConstants) = 1
           /\ \A i \in 1..NRows : Abs(ReadConstants[i]) <= MaxCoeffNorm
           /\ Solves(System(rows), ReadConstants)
  <1>1. ~ Inconsistent
    BY EndUnsatisfied
  <1>2. Solves(System(rows), ReadConstants)
    BY <1>1, ReadSolves
  <1>3. \A i \in 1..NRows : ReadConstants[i] \in {0, 1}
    BY <1>1, LeadingConstants
  <1>4. \A i \in 1..NRows : Abs(ReadConstants[i]) <= MaxCoeffNorm
    <2>1. \A x \in {0, 1} : Abs(x) <= 1
      BY DEF Abs
    <2>2. \A x \in {0, 1} : Abs(x) <= MaxCoeffNorm
      BY NormAssumption DEF Abs
    <2> QED
      BY <1>3, <2>2
  <1>5. PICK ws : ws = ReadConstants
    OBVIOUS
  <1>6. DOMAIN ws = 1..NRows /\ ws \in Vectors(NRows)
    <2>1. ws = [i \in 1..NRows |-> ws[i]]
      BY <1>5 DEF ReadConstants
    <2>2. \A i \in 1..NRows : ws[i] \in Int
      BY <1>3, <1>5
    <2> QED
      BY <2>1, <2>2 DEF Vectors
  <1>7. FirstColumnSum(ws) = 1
    BY <1>2, <1>5, <1>6, FirstColumn
  <1> QED
    BY <1>1, <1>2, <1>4, <1>5, <1>7

(* Satisfying attributes hold some row.                                    *)
LEMMA NoneUnsatisfied ==
    ASSUME NEW p \in Trees, NEW attrs \in SUBSET Attributes, HeldRows(p, attrs) = <<>>
    PROVE  attrs \notin AccessStructure[p]
  <1> SUFFICES ASSUME attrs \in AccessStructure[p] PROVE FALSE
    OBVIOUS
  <1>1. PICK h : h = HeldRows(p, attrs) /\ Len(h) = 0
    OBVIOUS
  <1>2. PICK s, k : Selection(h, RowsOf(p, << 1 >>, 1), s, k, attrs)
    BY <1>1, Selects
  <1>3. PICK vec \in Seq(Int), n \in Nat : vec = << 1 >> /\ n = 1 /\ Len(vec) <= n
    <2>1. << 1 >> \in Seq(Int) /\ Len(<< 1 >>) <= 1 /\ 1 \in Nat
      OBVIOUS
    <2> QED
      BY <2>1
  <1>4. Sharing(RowsOf(p, vec, n), ColsOf(p, vec, n), vec, n, AccessStructure[p])
    BY <1>3, TreeShares
  <1>5. Picked(h, << 1 >>, 1..k)
    BY <1>2, <1>3, <1>4, SelectedComplete
  <1>6. PICK w : Picks(w, h, << 1 >>, 1..k)
    BY <1>5 DEF Picked
  <1>7. 1 \in Columns
    BY DEF Columns
  <1>8. Weigh(h, w, 1) = 1
    <2>1. Weigh(h, w, 1) = Entry(<< 1 >>, 1)
      BY <1>6, <1>7 DEF Picks
    <2> QED
      BY <1>7, <2>1, UnitEntries
  <1>9. Weigh(h, w, 1) = 0
    <2>1. 1..Len(h) = {}
      BY <1>1
    <2>2. Weigh(h, w, 1) = SumFunctionOnSet([j \in {} |-> w[j] * EntriesIn(h, 1)[j]], {})
      BY <2>1 DEF Weigh, Dot
    <2> QED
      BY <2>2, SumEmpty
  <1> QED
    BY <1>8, <1>9

-----------------------------------------------------------------------------
(* The machine on the rows of trees.                                       *)

(* The tree and the rows held, once there are some.                        *)
Placed ==
    /\ phase = "choose" => access \in Trees
    /\ phase \in {"eliminate", "none", "some"} => RowsHeld

(* The rows selected are rows the machine takes.                           *)
LEMMA SelectPlaces ==
    ASSUME Placed, Select
    PROVE  IsRows(rows') /\ RowsHeld' /\ phase' \in {"eliminate", "none"}
  <1>1. access \in Trees /\ access' = access /\ held' \in SUBSET Attributes
    BY DEF Placed, Select
  <1>2. PICK p \in Trees, attrs \in SUBSET Attributes : p = access /\ attrs = held'
    BY <1>1
  <1>3. rows' = HeldRows(p, attrs)
    BY <1>2 DEF Select, HeldRows
  <1>4. IsRows(rows')
    BY <1>3, Selects
  <1>5. RowsHeld'
    BY <1>1, <1>2, <1>3 DEF RowsHeld
  <1>6. phase' \in {"eliminate", "none"}
    BY DEF Select, Begin
  <1> QED
    BY <1>4, <1>5, <1>6

(* Every step keeps the tree and the rows.                                 *)
LEMMA PlacedKept == Placed /\ [MatrixNext]_matrix_vars => Placed'
  <1> SUFFICES ASSUME Placed, [MatrixNext]_matrix_vars PROVE Placed'
    OBVIOUS
  <1>1. CASE Build
    BY <1>1 DEF Build, Prepare, Placed
  <1>2. CASE Select
    BY <1>2, SelectPlaces DEF Placed
  <1>3. CASE (Eliminate \/ SkipColumn \/ Return) /\ UNCHANGED <<access, held>>
    <2>1. phase = "eliminate" /\ phase' \in {"eliminate", "none", "some"} /\ rows' = rows
      BY <1>3 DEF Eliminate, SkipColumn, Return
    <2>2. RowsHeld
      BY <2>1 DEF Placed
    <2>3. RowsHeld'
      BY <1>3, <2>1, <2>2 DEF RowsHeld
    <2> QED
      BY <2>1, <2>3 DEF Placed
  <1>4. CASE UNCHANGED matrix_vars
    BY <1>4 DEF matrix_vars, machine_vars, Placed, RowsHeld
  <1> QED
    BY <1>1, <1>2, <1>3, <1>4 DEF MatrixNext

(* Placed, at every step.                                                  *)
LEMMA AlwaysPlaced == MatrixSpec => []Placed
  <1>1. MatrixInit => Placed
    BY DEF MatrixInit, MachineInit, Placed
  <1> QED
    BY <1>1, PlacedKept, PTL DEF MatrixSpec

(* The elimination on the rows of trees is that of Reconstruction on any   *)
(* rows: what from_boolean_tree and the selection by attributes give it    *)
(* has one length and at least the column of the secret.                   *)
THEOREM MatrixImplementsMachine == MatrixSpec => MachineSpec
  <1>1. MatrixInit => MachineInit
    BY DEF MatrixInit
  <1>2. Placed /\ [MatrixNext]_matrix_vars => [MachineNext]_machine_vars
    <2> SUFFICES ASSUME Placed, [MatrixNext]_matrix_vars PROVE [MachineNext]_machine_vars
      OBVIOUS
    <2>1. CASE Build
      BY <2>1 DEF Build, MachineNext
    <2>2. CASE Select
      BY <2>2, SelectPlaces DEF Select, MachineNext
    <2>3. CASE (Eliminate \/ SkipColumn \/ Return) /\ UNCHANGED <<access, held>>
      BY <2>3 DEF MachineNext
    <2>4. CASE UNCHANGED matrix_vars
      BY <2>4 DEF matrix_vars
    <2> QED
      BY <2>1, <2>2, <2>3, <2>4 DEF MatrixNext
  <1> QED
    BY <1>1, <1>2, AlwaysPlaced, PTL DEF MatrixSpec, MachineSpec

(* What holds of the machine holds of it on the rows of trees.             *)
LEMMA MatrixInvariance == MatrixSpec => [](IInv /\ Placed)
  BY MatrixImplementsMachine, Invariance, AlwaysPlaced, PTL

(* InconsistentOnlyIfUnsatisfied: solve_linear_system finds no solution    *)
(* only for attributes that do not satisfy the policy, whatever the        *)
(* nesting of its gates, over any prime field.                             *)
THEOREM InconsistentUnsatisfied == MatrixSpec => []InconsistentOnlyIfUnsatisfied
  <1>1. IInv /\ Placed => InconsistentOnlyIfUnsatisfied
    BY EndUnsatisfied DEF Ended, Placed, InconsistentOnlyIfUnsatisfied
  <1> QED
    BY <1>1, MatrixInvariance, PTL

(* A step into "some" or "none" is one of Return or of an empty selection. *)
LEMMA GrantedKept ==
    IInv /\ Placed /\ GrantedOnlyIfSatisfied /\ [MatrixNext]_matrix_vars => GrantedOnlyIfSatisfied'
  <1> SUFFICES ASSUME IInv, Placed, GrantedOnlyIfSatisfied, [MatrixNext]_matrix_vars
               PROVE  GrantedOnlyIfSatisfied'
    OBVIOUS
  <1>1. CASE Build
    BY <1>1 DEF Build, Prepare, GrantedOnlyIfSatisfied
  <1>2. CASE Select
    BY <1>2, SelectPlaces DEF GrantedOnlyIfSatisfied
  <1>3. CASE (Eliminate \/ SkipColumn) /\ UNCHANGED <<access, held>>
    BY <1>3 DEF Eliminate, SkipColumn, GrantedOnlyIfSatisfied
  <1>4. CASE Return /\ UNCHANGED <<access, held>>
    <2>1. SUFFICES ASSUME phase' = "some" PROVE held \in AccessStructure[access]
      BY <1>4 DEF GrantedOnlyIfSatisfied
    <2>2. Ended /\ RowsHeld /\ ~ Inconsistent
      BY <1>4, <2>1 DEF Return, Ended, Placed
    <2> QED
      BY <2>2, EndSatisfied
  <1>5. CASE UNCHANGED matrix_vars
    BY <1>5 DEF matrix_vars, machine_vars, GrantedOnlyIfSatisfied
  <1> QED
    BY <1>1, <1>2, <1>3, <1>4, <1>5 DEF MatrixNext

(* GrantedOnlyIfSatisfied: get_reconstruction_constants returns constants  *)
(* only for attributes that satisfy the policy, however it nests its gates *)
(* and whatever the pivots, over any prime field.                          *)
THEOREM OnlySatisfyingGranted == MatrixSpec => []GrantedOnlyIfSatisfied
  <1>1. MatrixInit => GrantedOnlyIfSatisfied
    BY DEF MatrixInit, MachineInit, GrantedOnlyIfSatisfied
  <1> QED
    BY <1>1, GrantedKept, MatrixInvariance, PTL DEF MatrixSpec

(* Satisfying attributes whose pivots lead are not refused by a step.      *)
LEMMA LeadingKept ==
    IInv /\ Placed /\ LeadingPivotsReconstruct /\ [MatrixNext]_matrix_vars => LeadingPivotsReconstruct'
  <1> SUFFICES ASSUME IInv, Placed, LeadingPivotsReconstruct, [MatrixNext]_matrix_vars
               PROVE  LeadingPivotsReconstruct'
    OBVIOUS
  <1>1. CASE Build
    BY <1>1 DEF Build, Prepare, LeadingPivotsReconstruct
  <1>2. CASE Select
    <2>1. RowsHeld' /\ phase' \in {"eliminate", "none"}
      BY <1>2, SelectPlaces
    <2>2. CASE phase' = "eliminate"
      BY <2>2 DEF LeadingPivotsReconstruct
    <2>3. CASE phase' = "none"
      <3>1. rows' = <<>>
        BY <1>2, <2>3 DEF Select, Begin
      <3>2. PICK p \in Trees, attrs \in SUBSET Attributes :
                p = access' /\ attrs = held' /\ HeldRows(p, attrs) = <<>>
        BY <2>1, <3>1 DEF RowsHeld
      <3>3. held' \notin AccessStructure[access']
        BY <3>2, NoneUnsatisfied
      <3> QED
        BY <3>3 DEF LeadingPivotsReconstruct
    <2> QED
      BY <2>1, <2>2, <2>3
  <1>3. CASE (Eliminate \/ SkipColumn) /\ UNCHANGED <<access, held>>
    BY <1>3 DEF Eliminate, SkipColumn, LeadingPivotsReconstruct
  <1>4. CASE Return /\ UNCHANGED <<access, held>>
    <2>1. UNCHANGED <<rows, augmented, col, pivots, access, held>>
      BY <1>4 DEF Return
    <2>2. SUFFICES ASSUME \A i \in DOMAIN pivots : pivots[i] = i, held \in AccessStructure[access]
                   PROVE  phase' = "some" /\ Rebuilds(omega)'
      BY <2>1 DEF LeadingPivotsReconstruct
    <2>3. Ended /\ RowsHeld
      BY <1>4 DEF Return, Ended, Placed
    <2>4. /\ ~ Inconsistent
          /\ FirstColumnSum(ReadConstants) = 1
          /\ \A i \in 1..NRows : Abs(ReadConstants[i]) <= MaxCoeffNorm
          /\ Solves(System(rows), ReadConstants)
      BY <2>2, <2>3, LeadingPasses
    <2>5. phase' = "some" /\ omega' = ReadConstants
      BY <1>4, <2>4 DEF Return
    <2>6. Rebuilds(omega)'
      BY <2>1, <2>4, <2>5 DEF Rebuilds, Solves, NRows
    <2> QED
      BY <2>5, <2>6
  <1>5. CASE UNCHANGED matrix_vars
    BY <1>5 DEF matrix_vars, machine_vars, LeadingPivotsReconstruct, Rebuilds, Solves, NRows
  <1> QED
    BY <1>1, <1>2, <1>3, <1>4, <1>5 DEF MatrixNext

(* LeadingPivotsReconstruct: when the pivots are the first columns,        *)
(* get_reconstruction_constants returns constants for all attributes that  *)
(* satisfy the policy, and these rebuild; none of its checks refuses them, *)
(* the bound on the size of a constant neither, as all are 0 or 1.         *)
THEOREM LeadingReconstructs == MatrixSpec => []LeadingPivotsReconstruct
  <1>1. MatrixInit => LeadingPivotsReconstruct
    BY DEF MatrixInit, MachineInit, LeadingPivotsReconstruct
  <1> QED
    BY <1>1, LeadingKept, MatrixInvariance, PTL DEF MatrixSpec

=============================================================================
